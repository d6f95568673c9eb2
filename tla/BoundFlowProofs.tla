----------------------------- MODULE BoundFlowProofs -----------------------------
(***************************************************************************)
(* The contracts hold along the programs of BoundFlow, for every build.    *)
(* A program is put together from parts in order, loops and functions; so  *)
(* is the proof that it runs safely.  First this is shown of parts without *)
(* looking into them, then of each function, then of the three programs of *)
(* sign.c; at the end, that the actions of BoundFlow follow the programs.  *)
(***************************************************************************)
EXTENDS BoundFlow, WellFoundedInduction, TLAPS

-------------------------------------------------------------------------------
(***************************************************************************)
(* What a program does, without a program counter.  A frame x tells which  *)
(* polynomials there are (x.polys), whether the inverse NTT is native      *)
(* (x.native), and in which memories a rejection may happen (x.head).      *)
(***************************************************************************)
Memories(x) == [x.polys -> Intervals]

Result(s, v) ==
  CASE s.op = "produce"     -> s.arg
    [] s.op = "copy"        -> v[s.in[1]]
    [] s.op = "reduce"      -> ReduceInterval(v[s.in[1]])
    [] s.op = "caddq"       -> CaddqInterval(v[s.in[1]])
    [] s.op = "add"         -> AddInterval(v[s.in[1]], v[s.in[2]])
    [] s.op = "sub"         -> SubInterval(v[s.in[1]], v[s.in[2]])
    [] s.op = "shiftl"      -> ShiftlInterval(v[s.in[1]])
    [] s.op = "ntt"         -> NttInterval(v[s.in[1]])
    [] s.op = "montgomery"  -> MontgomeryInterval(1, v[s.in[1]], v[s.in[2]])
    [] s.op = "acc"         -> MontgomeryInterval(s.arg, HullOf(v, s.in, 1, s.arg),
                                                  HullOf(v, s.in, s.arg + 1, 2 * s.arg))
    [] s.op = "power2round" -> Power2RoundHigh(v[s.in[1]])
    [] s.op = "mirror"      -> Mirror(s.arg, v[s.in[1]])

\* The memory after a step that is not a rejection.
After(s, v) ==
  CASE s.kind = "work"   -> [v EXCEPT ![s.out] = Result(s, v)]
    [] s.kind = "decide" -> Narrowed(v, s.clauses)
    [] OTHER             -> v

\* The properties of BoundFlow at a step, and that a rejection is allowed.
Safe(x, s, v) ==
  /\ s.kind = "call" => s.given /\ Meets(v, s.clauses) /\ \A t \in s.sums : SumsWithin(v, t)
  /\ s.kind = "return" => (x.native /\ s.fn \in InverseNtts) \/ Meets(v, s.clauses)
  /\ s.kind = "decide" => s.to = "end" \/ v \in x.head

\* tr: the memories from one end of a part of a program to the other.
Trace(x, prog, tr) ==
  \A i \in 1 .. Len(prog) :
    /\ prog[i].kind # "head"
    /\ Safe(x, prog[i], tr[i])
    /\ tr[i + 1] = After(prog[i], tr[i])

Traces(x, prog) == [1 .. Len(prog) + 1 -> Memories(x)]

Runs(x, prog, v, w) ==
  \E tr \in Traces(x, prog) : Trace(x, prog, tr) /\ tr[1] = v /\ tr[Len(prog) + 1] = w

Uses(x, prog) == \A i \in 1 .. Len(prog) : Polys(prog[i]) \subseteq x.polys

IsSeq(prog) == \E S : prog \in Seq(S)

\* From every memory of A the program runs safely to one of B.
Does(x, prog, A, B) ==
  Uses(x, prog) => \A v \in A : \E w \in B : Runs(x, prog, v, w)

LEMMA Concat ==
  ASSUME NEW p, NEW q, IsSeq(p), IsSeq(q)
  PROVE  /\ IsSeq(p \o q) /\ Len(p) \in Nat /\ Len(q) \in Nat
         /\ Len(p \o q) = Len(p) + Len(q)
         /\ \A i \in 1 .. Len(p) : (p \o q)[i] = p[i]
         /\ \A i \in 1 .. Len(q) : (p \o q)[Len(p) + i] = q[i]
<1>1. PICK S : p \in Seq(S)
  BY DEF IsSeq
<1>2. PICK T : q \in Seq(T)
  BY DEF IsSeq
<1>3. p \in Seq(S \cup T) /\ q \in Seq(S \cup T)
  BY <1>1, <1>2
<1>4. p \o q \in Seq(S \cup T)
  BY <1>3
<1>5. QED  BY <1>3, <1>4 DEF IsSeq

LEMMA UsesConcat ==
  ASSUME NEW x, NEW p, NEW q, IsSeq(p), IsSeq(q), Uses(x, p \o q)
  PROVE  Uses(x, p) /\ Uses(x, q)
<1>1. \A i \in 1 .. Len(p) : i \in 1 .. Len(p \o q)
  BY Concat
<1>2. \A i \in 1 .. Len(q) : Len(p) + i \in 1 .. Len(p \o q)
  BY Concat
<1>3. QED  BY <1>1, <1>2, Concat DEF Uses

LEMMA RunsConcat ==
  ASSUME NEW x, NEW p, NEW q, IsSeq(p), IsSeq(q),
         NEW u, NEW v, NEW w, Runs(x, p, u, v), Runs(x, q, v, w)
  PROVE  Runs(x, p \o q, u, w)
<1>1. PICK tp \in Traces(x, p) : Trace(x, p, tp) /\ tp[1] = u /\ tp[Len(p) + 1] = v
  BY DEF Runs
<1>2. PICK tq \in Traces(x, q) : Trace(x, q, tq) /\ tq[1] = v /\ tq[Len(q) + 1] = w
  BY DEF Runs
<1> DEFINE m == Len(p)   n == Len(q)   pq == p \o q
           tr == [i \in 1 .. Len(pq) + 1 |-> IF i <= m THEN tp[i] ELSE tq[i - m]]
<1>3. /\ m \in Nat /\ n \in Nat /\ Len(pq) = m + n
      /\ \A i \in 1 .. m : pq[i] = p[i]
      /\ \A i \in 1 .. n : pq[m + i] = q[i]
  BY Concat
<1> HIDE DEF m, n, pq
<1>4. /\ \A i \in 1 .. m + 1 : tp[i] \in Memories(x)
      /\ \A i \in 1 .. n + 1 : tq[i] \in Memories(x)
  BY <1>1, <1>2 DEF Traces, m, n
<1>5. tr \in Traces(x, pq)
  <2>1. ASSUME NEW i \in 1 .. Len(pq) + 1 PROVE tr[i] \in Memories(x)
    <3>1. CASE i <= m
      BY <3>1, <1>3, <1>4
    <3>2. CASE ~(i <= m)
      <4>1. i - m \in 1 .. n + 1
        BY <3>2, <1>3
      <4>2. QED  BY <3>2, <4>1, <1>4
    <3>3. QED  BY <3>1, <3>2
  <2>2. QED  BY <2>1 DEF Traces
<1>6. \A i \in 1 .. m + 1 : tr[i] = tp[i]
  <2>1. ASSUME NEW i \in 1 .. m + 1 PROVE tr[i] = tp[i]
    <3>1. CASE i <= m
      BY <3>1, <1>3
    <3>2. CASE i = m + 1
      <4>1. ~(i <= m) /\ i - m = 1 /\ i \in 1 .. Len(pq) + 1
        BY <3>2, <1>3
      <4>2. QED  BY <4>1, <3>2, <1>1, <1>2 DEF m
    <3>3. QED  BY <3>1, <3>2, <1>3
  <2>2. QED  BY <2>1
<1>7. \A i \in 1 .. n + 1 : tr[m + i] = tq[i]
  <2>1. ASSUME NEW i \in 1 .. n + 1 PROVE tr[m + i] = tq[i]
    <3>1. ~(m + i <= m) /\ (m + i) - m = i /\ m + i \in 1 .. Len(pq) + 1
      BY <1>3
    <3>2. QED  BY <3>1
  <2>2. QED  BY <2>1
<1> HIDE DEF tr
<1>8. Trace(x, pq, tr)
  <2>1. ASSUME NEW i \in 1 .. Len(pq)
        PROVE  /\ pq[i].kind # "head" /\ Safe(x, pq[i], tr[i])
               /\ tr[i + 1] = After(pq[i], tr[i])
    <3>1. CASE i <= m
      <4>1. i \in 1 .. m /\ i \in 1 .. m + 1 /\ i + 1 \in 1 .. m + 1
        BY <3>1, <1>3
      <4>2. pq[i] = p[i] /\ tr[i] = tp[i] /\ tr[i + 1] = tp[i + 1]
        BY <4>1, <1>3, <1>6
      <4>3. QED  BY <4>1, <4>2, <1>1 DEF Trace, m
    <3>2. CASE ~(i <= m)
      <4>1. PICK j \in 1 .. n : i = m + j
        <5>1. i - m \in 1 .. n /\ i = m + (i - m)
          BY <3>2, <1>3
        <5>2. QED  BY <5>1
      <4>2. j \in 1 .. n + 1 /\ j + 1 \in 1 .. n + 1 /\ i + 1 = m + (j + 1)
        BY <4>1, <1>3
      <4>3. pq[i] = q[j] /\ tr[i] = tq[j] /\ tr[i + 1] = tq[j + 1]
        BY <4>1, <4>2, <1>3, <1>7
      <4>4. QED  BY <4>1, <4>3, <1>2 DEF Trace, n
    <3>3. QED  BY <3>1, <3>2
  <2>2. QED  BY <2>1 DEF Trace
<1>9. tr[1] = u /\ tr[Len(pq) + 1] = w
  <2>1. 1 \in 1 .. m + 1 /\ n + 1 \in 1 .. n + 1 /\ Len(pq) + 1 = m + (n + 1)
    BY <1>3
  <2>2. QED  BY <2>1, <1>1, <1>2, <1>6, <1>7 DEF n
<1>10. QED  BY <1>5, <1>8, <1>9 DEF Runs, pq

LEMMA DoesConcat ==
  ASSUME NEW x, NEW p, NEW q, IsSeq(p), IsSeq(q), NEW A, NEW B, NEW C,
         Does(x, p, A, B), Does(x, q, B, C)
  PROVE  Does(x, p \o q, A, C)
BY UsesConcat, RunsConcat DEF Does

LEMMA RunsStep ==
  ASSUME NEW x, NEW s, s.kind # "head", NEW v \in Memories(x), Safe(x, s, v),
         After(s, v) \in Memories(x)
  PROVE  IsSeq(<<s>>) /\ Runs(x, <<s>>, v, After(s, v))
<1> DEFINE tr == [i \in 1 .. Len(<<s>>) + 1 |-> IF i = 1 THEN v ELSE After(s, v)]
<1>1. Len(<<s>>) = 1 /\ <<s>>[1] = s /\ <<s>> \in Seq({s})
  OBVIOUS
<1>2. tr \in Traces(x, <<s>>) /\ tr[1] = v /\ tr[2] = After(s, v)
  BY <1>1 DEF Traces
<1> HIDE DEF tr
<1>3. Trace(x, <<s>>, tr) /\ tr[Len(<<s>>) + 1] = After(s, v)
  BY <1>1, <1>2 DEF Trace
<1>4. IsSeq(<<s>>)
  BY <1>1 DEF IsSeq
<1>5. QED  BY <1>2, <1>3, <1>4 DEF Runs

LEMMA RunsNothing ==
  ASSUME NEW x, NEW v \in Memories(x)
  PROVE  IsSeq(<<>>) /\ Runs(x, <<>>, v, v)
<1> DEFINE tr == [i \in 1 .. Len(<<>>) + 1 |-> v]
<1>1. Len(<<>>) = 0 /\ <<>> \in Seq({})
  OBVIOUS
<1>2. tr \in Traces(x, <<>>) /\ tr[1] = v /\ Trace(x, <<>>, tr)
  BY <1>1 DEF Traces, Trace
<1> HIDE DEF tr
<1>3. QED  BY <1>1, <1>2 DEF Runs, IsSeq

-------------------------------------------------------------------------------
(***************************************************************************)
(* Loops: FlattenSeq joins the programs of the iterations.                 *)
(***************************************************************************)
\* Mathematical induction, for a set.
LEMMA Induction ==
  ASSUME NEW T, 0 \in T, \A n \in Nat : n \in T => n + 1 \in T
  PROVE  Nat \subseteq T
<1> DEFINE X == {n \in Nat : n \notin T}
<1>1. SUFFICES ASSUME X # {} PROVE FALSE
  OBVIOUS
<1>2. \E m \in X : \A y \in X : ~(<<y, m>> \in OpToRel(<, Nat))
  <2>1. X \subseteq Nat
    OBVIOUS
  <2> HIDE DEF X
  <2>2. QED  BY <1>1, <2>1, WFMin, NatLessThanWellFounded, Zenon
<1>3. PICK m \in X : \A y \in X : ~(<<y, m>> \in OpToRel(<, Nat))
  BY <1>2
<1>4. m \in Nat /\ m # 0
  OBVIOUS
<1>5. m - 1 \in Nat /\ m - 1 < m /\ m = (m - 1) + 1
  BY <1>4
<1>6. m - 1 \notin X
  BY <1>3, <1>4, <1>5 DEF OpToRel
<1>7. QED  BY <1>4, <1>5, <1>6

\* The first n iterations, as FlattenSeq joins them.
Joined(fs, n, g) == g = [i \in 1 .. n |-> IF i = 1 THEN fs[i] ELSE g[i - 1] \o fs[i]]

LEMMA JoinedExists ==
  ASSUME NEW fs, NEW n \in Nat
  PROVE  \E g : Joined(fs, n, g)
<1> DEFINE T == {m \in Nat : \E g : Joined(fs, m, g)}
<1>1. 0 \in T
  <2>1. Joined(fs, 0, [i \in 1 .. 0 |-> fs])
    BY DEF Joined
  <2>2. QED  BY <2>1
<1>2. ASSUME NEW m \in Nat, m \in T PROVE m + 1 \in T
  <2>1. PICK g : Joined(fs, m, g)
    BY <1>2
  <2> DEFINE new == IF m = 0 THEN fs[1] ELSE g[m] \o fs[m + 1]
             h == [i \in 1 .. m + 1 |-> IF i <= m THEN g[i] ELSE new]
  <2>2. /\ \A i \in 1 .. m : h[i] = g[i]
        /\ \A i \in 1 .. m : g[i] = IF i = 1 THEN fs[i] ELSE g[i - 1] \o fs[i]
    <3>1. \A i \in 1 .. m : i \in 1 .. m + 1 /\ i <= m
      OBVIOUS
    <3>2. \A i \in 1 .. m : h[i] = g[i]
      BY <3>1
    <3>3. \A i \in 1 .. m : g[i] = IF i = 1 THEN fs[i] ELSE g[i - 1] \o fs[i]
      BY <2>1 DEF Joined
    <3>4. QED  BY <3>2, <3>3
  <2>3. h[m + 1] = new /\ h = [i \in 1 .. m + 1 |-> h[i]]
    OBVIOUS
  <2> HIDE DEF h
  <2>4. ASSUME NEW i \in 1 .. m + 1 PROVE h[i] = IF i = 1 THEN fs[i] ELSE h[i - 1] \o fs[i]
    <3>1. CASE i = m + 1
      <4>1. CASE m = 0
        BY <3>1, <4>1, <2>3
      <4>2. CASE m # 0
        <5>1. i # 1 /\ i - 1 = m /\ m \in 1 .. m
          BY <3>1, <4>2
        <5>2. h[i - 1] = g[m] /\ h[i] = g[m] \o fs[i]
          BY <3>1, <4>2, <5>1, <2>2, <2>3
        <5>3. QED  BY <5>1, <5>2
      <4>3. QED  BY <4>1, <4>2
    <3>2. CASE i # m + 1
      <4>1. i \in 1 .. m /\ (i # 1 => i - 1 \in 1 .. m)
        BY <3>2
      <4>2. QED  BY <4>1, <2>2
    <3>3. QED  BY <3>1, <3>2
  <2>5. h = [i \in 1 .. m + 1 |-> IF i = 1 THEN fs[i] ELSE h[i - 1] \o fs[i]]
    BY <2>3, <2>4
  <2>6. Joined(fs, m + 1, h)
    BY <2>5 DEF Joined
  <2>7. QED  BY <2>6
<1> HIDE DEF T
<1>3. Nat \subseteq T
  BY <1>1, <1>2, Induction
<1>4. QED  BY <1>3 DEF T

\* The iterations of a loop are a function on 1 .. n.
Loop(fs, n) == n \in Nat /\ fs = [i \in 1 .. n |-> fs[i]] /\ \A i \in 1 .. n : IsSeq(fs[i])

LEMMA LoopIsSeq ==
  ASSUME NEW fs, NEW n, Loop(fs, n)
  PROVE  Len(fs) = n /\ IsSeq(fs)
<1> DEFINE S == {fs[i] : i \in 1 .. n}
<1>1. n \in Nat /\ fs = [i \in 1 .. n |-> fs[i]] /\ \A i \in 1 .. n : fs[i] \in S
  BY DEF Loop
<1> HIDE DEF S
<1>2. fs \in [1 .. n -> S]
  BY <1>1
<1>3. fs \in Seq(S) /\ Len(fs) = n
  BY <1>1, <1>2
<1>4. QED  BY <1>3 DEF IsSeq

\* A loop runs if its iterations do, one from what the one before it left.
LEMMA DoesLoop ==
  ASSUME NEW x, NEW fs, NEW n, Loop(fs, n), NEW J,
         \A i \in 1 .. n + 1 : J[i] \subseteq Memories(x),
         \A i \in 1 .. n : Does(x, fs[i], J[i], J[i + 1])
  PROVE  IsSeq(FlattenSeq(fs)) /\ Does(x, FlattenSeq(fs), J[1], J[n + 1])
<1>1. n \in Nat /\ Len(fs) = n /\ IsSeq(fs) /\ \A i \in 1 .. n : IsSeq(fs[i])
  BY LoopIsSeq DEF Loop
<1>2. CASE n = 0
  <2>1. FlattenSeq(fs) = fs /\ Len(fs) = 0
    BY <1>1, <1>2 DEF FlattenSeq
  <2>2. \A v \in Memories(x) : Runs(x, fs, v, v)
    <3>1. ASSUME NEW v \in Memories(x) PROVE Runs(x, fs, v, v)
      <4> DEFINE tr == [i \in 1 .. Len(fs) + 1 |-> v]
      <4>1. tr \in Traces(x, fs) /\ tr[1] = v /\ Trace(x, fs, tr) /\ tr[Len(fs) + 1] = v
        BY <2>1 DEF Traces, Trace
      <4> HIDE DEF tr
      <4>2. QED  BY <4>1 DEF Runs
    <3>2. QED  BY <3>1
  <2>3. J[1] \subseteq Memories(x) /\ J[n + 1] = J[1]
    BY <1>2
  <2>4. QED  BY <1>1, <2>1, <2>2, <2>3 DEF Does
<1>3. CASE n # 0
  <2> DEFINE g == CHOOSE g : Joined(fs, n, g)
  <2>1. Joined(fs, n, g)
    BY <1>1, JoinedExists
  <2>2. FlattenSeq(fs) = g[n]
    BY <1>1, <1>3 DEF FlattenSeq, Joined
  <2> HIDE DEF g
  <2>3. \A i \in 1 .. n : g[i] = IF i = 1 THEN fs[i] ELSE g[i - 1] \o fs[i]
    BY <2>1 DEF Joined
  <2> DEFINE T == {m \in Nat : 1 <= m /\ m <= n =>
                                 IsSeq(g[m]) /\ Does(x, g[m], J[1], J[m + 1])}
  <2>4. 0 \in T
    OBVIOUS
  <2>5. ASSUME NEW m \in Nat, m \in T PROVE m + 1 \in T
    <3>1. SUFFICES ASSUME m + 1 <= n
                   PROVE  IsSeq(g[m + 1]) /\ Does(x, g[m + 1], J[1], J[(m + 1) + 1])
      OBVIOUS
    <3>2. CASE m = 0
      <4>1. 1 \in 1 .. n /\ m + 1 = 1
        BY <3>2, <3>1, <1>1
      <4>2. g[1] = fs[1]
        BY <2>3, <4>1
      <4>3. QED  BY <1>1, <4>1, <4>2
    <3>3. CASE m # 0
      <4>1. m + 1 \in 1 .. n /\ m + 1 # 1 /\ (m + 1) - 1 = m /\ 1 <= m /\ m <= n
        BY <3>3, <3>1, <1>1
      <4>2. g[m + 1] = g[m] \o fs[m + 1]
        BY <2>3, <4>1
      <4>3. IsSeq(g[m]) /\ Does(x, g[m], J[1], J[m + 1])
        BY <2>5, <4>1
      <4>4. IsSeq(fs[m + 1]) /\ Does(x, fs[m + 1], J[m + 1], J[(m + 1) + 1])
        BY <1>1, <4>1
      <4>5. QED  BY <4>2, <4>3, <4>4, DoesConcat, Concat
    <3>4. QED  BY <3>2, <3>3
  <2> HIDE DEF T
  <2>6. Nat \subseteq T
    BY <2>4, <2>5, Induction
  <2>7. n \in T
    BY <2>6, <1>1
  <2>8. 1 <= n
    BY <1>1, <1>3
  <2>9. QED  BY <1>1, <2>2, <2>7, <2>8 DEF T
<1>4. QED  BY <1>2, <1>3

-------------------------------------------------------------------------------
(***************************************************************************)
(* Fragments: what a part of a program needs of the polynomials it reads   *)
(* (R) and what it leaves in those it writes (N), all others being kept.   *)
(***************************************************************************)
Holds(v, C) == \A c \in C : \A p \in c.polys : p \in DOMAIN v /\ Within(v[p], c.bound)

Touched(C) == UNION {c.polys : c \in C}

Kept(v, w, N) == \A p \in DOMAIN v : p \notin Touched(N) => w[p] = v[p]

Left(x, v, N) == {w \in Memories(x) : Holds(w, N) /\ Kept(v, w, N)}

Fragment(x, prog, R, N) ==
  /\ IsSeq(prog)
  /\ \A v \in Memories(x) : Holds(v, R) => Does(x, prog, {v}, Left(x, v, N))

LEMMA DoesStep ==
  ASSUME NEW x, NEW s, s.kind # "head", NEW A, NEW B, A \subseteq Memories(x),
         \A v \in A : Polys(s) \subseteq x.polys =>
                        Safe(x, s, v) /\ After(s, v) \in B /\ After(s, v) \in Memories(x)
  PROVE  IsSeq(<<s>>) /\ Does(x, <<s>>, A, B)
<1>1. <<s>> \in Seq({s}) /\ Len(<<s>>) = 1 /\ <<s>>[1] = s
  OBVIOUS
<1>2. IsSeq(<<s>>)
  BY <1>1 DEF IsSeq
<1>3. ASSUME Uses(x, <<s>>), NEW v \in A PROVE \E w \in B : Runs(x, <<s>>, v, w)
  <2>1. Polys(s) \subseteq x.polys
    BY <1>1, <1>3 DEF Uses
  <2>2. v \in Memories(x) /\ Safe(x, s, v) /\ After(s, v) \in B /\ After(s, v) \in Memories(x)
    BY <2>1
  <2>3. QED  BY <2>2, RunsStep
<1>4. QED  BY <1>2, <1>3 DEF Does

\* A function runs if its body does, within its contract.
LEMMA FunctionRuns ==
  ASSUME NEW x, NEW fn, NEW ct, NEW body, NEW R, NEW N, Fragment(x, body, R, N), ct.given,
         \A v \in Memories(x) :
           Holds(v, R) => Meets(v, ct.requires) /\ \A t \in ct.sums : SumsWithin(v, t),
         \/ x.native /\ fn \in InverseNtts
         \/ \A v, w \in Memories(x) :
              Holds(v, R) /\ Holds(w, N) /\ Kept(v, w, N) => Meets(w, ct.ensures)
  PROVE  Fragment(x, Function(fn, ct, body), R, N)
<1> DEFINE call == Call(fn, ct)   ret == Return(fn, ct.ensures)
<1>1. /\ call.kind = "call" /\ call.given = ct.given /\ call.clauses = ct.requires
      /\ call.sums = ct.sums
      /\ ret.kind = "return" /\ ret.fn = fn /\ ret.clauses = ct.ensures
  BY DEF Call, Return
<1> HIDE DEF call, ret
<1>2. IsSeq(body) /\ IsSeq(<<call>>) /\ IsSeq(<<ret>>)
  <2>1. <<call>> \in Seq({call}) /\ <<ret>> \in Seq({ret})
    OBVIOUS
  <2>2. QED  BY <2>1 DEF Fragment, IsSeq
<1>3. ASSUME NEW v \in Memories(x), Holds(v, R)
      PROVE  Does(x, (<<call>> \o body) \o <<ret>>, {v}, Left(x, v, N))
  <2>1. Does(x, <<call>>, {v}, {v})
    <3>1. Safe(x, call, v) /\ After(call, v) = v
      BY <1>1, <1>3 DEF Safe, After
    <3>2. QED  BY <1>1, <3>1, DoesStep
  <2>2. Does(x, body, {v}, Left(x, v, N))
    BY <1>3 DEF Fragment
  <2>3. Does(x, <<ret>>, Left(x, v, N), Left(x, v, N))
    <3>1. ASSUME NEW w \in Left(x, v, N) PROVE Safe(x, ret, w) /\ After(ret, w) = w
      <4>1. w \in Memories(x) /\ Holds(w, N) /\ Kept(v, w, N)
        BY DEF Left
      <4>2. (x.native /\ fn \in InverseNtts) \/ Meets(w, ct.ensures)
        BY <4>1, <1>3
      <4>3. QED  BY <1>1, <4>2 DEF Safe, After
    <3>2. Left(x, v, N) \subseteq Memories(x)
      BY DEF Left
    <3>3. QED  BY <1>1, <3>1, <3>2, DoesStep
  <2>4. Does(x, <<call>> \o body, {v}, Left(x, v, N)) /\ IsSeq(<<call>> \o body)
    BY <1>2, <2>1, <2>2, DoesConcat, Concat
  <2>5. QED  BY <1>2, <2>3, <2>4, DoesConcat
<1>4. IsSeq((<<call>> \o body) \o <<ret>>)
  BY <1>2, Concat
<1>5. Function(fn, ct, body) = (<<call>> \o body) \o <<ret>>
  BY DEF Function, call, ret
<1>6. QED  BY <1>3, <1>4, <1>5 DEF Fragment

\* A work step writes its result.
LEMMA WorkRuns ==
  ASSUME NEW x, NEW s, s.kind = "work", NEW R, NEW b,
         \A v \in Memories(x) : Holds(v, R) => Result(s, v) \in Intervals /\ Within(Result(s, v), b)
  PROVE  Fragment(x, <<s>>, R, {Lies(s.out, b)})
<1> DEFINE N == {Lies(s.out, b)}
<1>1. Touched(N) = {s.out} /\ \A w : Holds(w, N) <=> s.out \in DOMAIN w /\ Within(w[s.out], b)
  BY DEF Touched, Holds, Lies
<1> HIDE DEF N
<1>2. ASSUME NEW v \in Memories(x), Holds(v, R)
      PROVE  IsSeq(<<s>>) /\ Does(x, <<s>>, {v}, Left(x, v, N))
  <2> DEFINE w == After(s, v)
  <2>1. w = [v EXCEPT ![s.out] = Result(s, v)]
    BY DEF After
  <2>2. Result(s, v) \in Intervals /\ Within(Result(s, v), b)
    BY <1>2
  <2>3. v \in [x.polys -> Intervals]
    BY DEF Memories
  <2>4. ASSUME Polys(s) \subseteq x.polys PROVE w \in Left(x, v, N) /\ w \in Memories(x)
    <3>1. s.out \in x.polys
      BY <2>4 DEF Polys
    <3>2. w \in Memories(x) /\ w[s.out] = Result(s, v) /\ s.out \in DOMAIN w
      BY <2>1, <2>2, <2>3, <3>1 DEF Memories
    <3>3. Kept(v, w, N)
      BY <1>1, <2>1, <2>3 DEF Kept
    <3>4. QED  BY <1>1, <2>2, <3>2, <3>3 DEF Left
  <2> HIDE DEF w
  <2>5. Safe(x, s, v)
    BY DEF Safe
  <2>6. QED  BY <2>4, <2>5, DoesStep DEF w
<1>3. <<s>> \in Seq({s})
  OBVIOUS
<1>4. IsSeq(<<s>>)
  BY <1>3 DEF IsSeq
<1>5. QED  BY <1>2, <1>4 DEF Fragment, N

\* A step that changes nothing.
LEMMA ReturnRuns ==
  ASSUME NEW x, NEW fn, NEW C, NEW R, \A v \in Memories(x) : Holds(v, R) => Meets(v, C)
  PROVE  Fragment(x, <<Return(fn, C)>>, R, {})
<1> DEFINE s == Return(fn, C)
<1>1. s.kind = "return" /\ s.clauses = C
  BY DEF Return
<1> HIDE DEF s
<1>2. <<s>> \in Seq({s})
  OBVIOUS
<1>3. IsSeq(<<s>>)
  BY <1>2 DEF IsSeq
<1>4. ASSUME NEW v \in Memories(x), Holds(v, R) PROVE Does(x, <<s>>, {v}, Left(x, v, {}))
  <2>1. Safe(x, s, v) /\ After(s, v) = v
    BY <1>1, <1>4 DEF Safe, After
  <2>2. v \in Left(x, v, {})
    BY DEF Left, Holds, Kept
  <2>3. QED  BY <1>1, <2>1, <2>2, DoesStep
<1>5. QED  BY <1>3, <1>4 DEF Fragment, s

LEMMA NothingRuns ==
  ASSUME NEW x, NEW R
  PROVE  Fragment(x, <<>>, R, {})
<1>1. ASSUME NEW v \in Memories(x) PROVE Does(x, <<>>, {v}, Left(x, v, {})) /\ IsSeq(<<>>)
  <2>1. v \in Left(x, v, {})
    BY DEF Left, Holds, Kept
  <2>2. QED  BY <2>1, RunsNothing DEF Does
<1>2. <<>> \in Seq({})
  OBVIOUS
<1>3. QED  BY <1>1, <1>2 DEF Fragment, IsSeq

LEMMA FragmentWeaken ==
  ASSUME NEW x, NEW prog, NEW R, NEW N, Fragment(x, prog, R, N), NEW R1, NEW N1,
         \A v \in Memories(x) : Holds(v, R1) => Holds(v, R),
         \A v, w \in Memories(x) : Holds(v, R1) /\ Holds(w, N) /\ Kept(v, w, N)
                                     => Holds(w, N1) /\ Kept(v, w, N1)
  PROVE  Fragment(x, prog, R1, N1)
<1>1. ASSUME NEW v \in Memories(x), Holds(v, R1) PROVE Does(x, prog, {v}, Left(x, v, N1))
  <2>1. Does(x, prog, {v}, Left(x, v, N))
    BY <1>1 DEF Fragment
  <2>2. Left(x, v, N) \subseteq Left(x, v, N1)
    BY <1>1 DEF Left
  <2>3. QED  BY <2>1, <2>2 DEF Does
<1>2. QED  BY <1>1 DEF Fragment

LEMMA FragmentConcat ==
  ASSUME NEW x, NEW p, NEW R1, NEW N1, Fragment(x, p, R1, N1),
         NEW q, NEW R2, NEW N2, Fragment(x, q, R2, N2), NEW R, NEW N,
         \A u \in Memories(x) : Holds(u, R) => Holds(u, R1),
         \A u, v \in Memories(x) :
           Holds(u, R) /\ Holds(v, N1) /\ Kept(u, v, N1) => Holds(v, R2),
         \A u, v, w \in Memories(x) :
           Holds(u, R) /\ Holds(v, N1) /\ Kept(u, v, N1) /\ Holds(w, N2) /\ Kept(v, w, N2)
             => Holds(w, N) /\ Kept(u, w, N)
  PROVE  Fragment(x, p \o q, R, N)
<1>1. IsSeq(p) /\ IsSeq(q) /\ IsSeq(p \o q)
  BY Concat DEF Fragment
<1>2. ASSUME NEW u \in Memories(x), Holds(u, R) PROVE Does(x, p \o q, {u}, Left(x, u, N))
  <2>1. Does(x, p, {u}, Left(x, u, N1))
    BY <1>2 DEF Fragment
  <2>2. Does(x, q, Left(x, u, N1), Left(x, u, N))
    <3>1. ASSUME NEW v \in Left(x, u, N1), Uses(x, q) PROVE \E w \in Left(x, u, N) : Runs(x, q, v, w)
      <4>1. v \in Memories(x) /\ Holds(v, N1) /\ Kept(u, v, N1)
        BY DEF Left
      <4>2. Does(x, q, {v}, Left(x, v, N2))
        BY <4>1, <1>2 DEF Fragment
      <4>3. PICK w \in Left(x, v, N2) : Runs(x, q, v, w)
        BY <4>2, <3>1 DEF Does
      <4>4. w \in Left(x, u, N)
        BY <4>1, <1>2 DEF Left
      <4>5. QED  BY <4>3, <4>4
    <3>2. QED  BY <3>1 DEF Does
  <2>3. QED  BY <1>1, <2>1, <2>2, DoesConcat
<1>3. QED  BY <1>1, <1>2 DEF Fragment

\* A loop runs if no iteration reads what an earlier one wrote.
LEMMA LoopRuns ==
  ASSUME NEW x, NEW fs, NEW n \in Nat, fs = [i \in 1 .. n |-> fs[i]],
         NEW R, NEW N, NEW rd, NEW wr,
         \A i \in 1 .. n : Fragment(x, fs[i], rd[i], wr[i]),
         \A i \in 1 .. n : \A v \in Memories(x) : Holds(v, R) => Holds(v, rd[i]),
         \A i, j \in 1 .. n : j < i => \A p \in Touched(rd[i]) : p \notin Touched(wr[j]),
         \A c \in N : \A p \in c.polys : \E i \in 1 .. n : p \in Touched(wr[i]),
         \A i \in 1 .. n : Touched(wr[i]) \subseteq Touched(N),
         \A i \in 1 .. n : \A d \in wr[i] : \A c \in N : \A p \in c.polys : \A r \in Intervals :
           p \in d.polys /\ Within(r, d.bound) => Within(r, c.bound)
  PROVE  Fragment(x, FlattenSeq(fs), R, N)
<1>1. Loop(fs, n)
  BY DEF Loop, Fragment
<1>2. ASSUME NEW v \in Memories(x), Holds(v, R)
      PROVE  IsSeq(FlattenSeq(fs)) /\ Does(x, FlattenSeq(fs), {v}, Left(x, v, N))
  <2> DEFINE Before(i, p) == \E k \in 1 .. n : k < i /\ p \in Touched(wr[k])
             State(i, u) ==
               /\ \A p \in DOMAIN v : ~Before(i, p) => u[p] = v[p]
               /\ \A c \in N : \A p \in c.polys : Before(i, p) =>
                    p \in DOMAIN u /\ Within(u[p], c.bound)
             J == [i \in 1 .. n + 1 |-> {u \in Memories(x) : State(i, u)}]
  <2>1. \A i \in 1 .. n + 1 : J[i] = {u \in Memories(x) : State(i, u)}
    OBVIOUS
  <2>d. \A u \in Memories(x) : DOMAIN u = x.polys /\ \A p \in DOMAIN u : u[p] \in Intervals
    BY DEF Memories
  <2>2. ASSUME NEW i \in 1 .. n PROVE Does(x, fs[i], J[i], J[i + 1])
    <3>0. i + 1 \in 1 .. n + 1 /\ i \in 1 .. n + 1
      OBVIOUS
    <3> HIDE DEF J
    <3>1. ASSUME NEW u \in Memories(x), State(i, u), NEW t \in Left(x, u, wr[i])
          PROVE  t \in Memories(x) /\ State(i + 1, t)
      <4>1. t \in Memories(x) /\ Holds(t, wr[i]) /\ Kept(u, t, wr[i])
        BY <3>1 DEF Left
      <4>2. \A p : Before(i + 1, p) <=> Before(i, p) \/ p \in Touched(wr[i])
        <5>1. \A k \in 1 .. n : k < i + 1 <=> k < i \/ k = i
          OBVIOUS
        <5>2. QED  BY <5>1
      <4> HIDE DEF Before
      <4>3. ASSUME NEW p \in DOMAIN v, ~Before(i + 1, p) PROVE t[p] = v[p]
        <5>1. p \in DOMAIN u /\ ~Before(i, p) /\ p \notin Touched(wr[i])
          BY <4>2, <4>3, <2>d, <3>1
        <5>2. t[p] = u[p] /\ u[p] = v[p]
          BY <5>1, <4>1, <3>1 DEF Kept
        <5>3. QED  BY <5>2
      <4>4. ASSUME NEW c \in N, NEW p \in c.polys, Before(i + 1, p)
            PROVE  p \in DOMAIN t /\ Within(t[p], c.bound)
        <5>1. CASE p \in Touched(wr[i])
          <6>1. PICK d \in wr[i] : p \in d.polys
            BY <5>1 DEF Touched
          <6>2. p \in DOMAIN t /\ Within(t[p], d.bound)
            BY <6>1, <4>1 DEF Holds
          <6>3. t[p] \in Intervals
            BY <6>2, <4>1, <2>d
          <6>4. QED  BY <6>1, <6>2, <6>3
        <5>2. CASE p \notin Touched(wr[i])
          <6>1. p \in DOMAIN u /\ Within(u[p], c.bound)
            BY <5>2, <4>2, <4>4, <3>1
          <6>2. t[p] = u[p] /\ p \in DOMAIN t
            BY <6>1, <5>2, <4>1, <3>1, <2>d DEF Kept
          <6>3. QED  BY <6>1, <6>2
        <5>3. QED  BY <5>1, <5>2
      <4>5. QED  BY <4>1, <4>3, <4>4
    <3>2. ASSUME NEW u \in Memories(x), State(i, u) PROVE Holds(u, rd[i])
      <4>1. \A p \in Touched(rd[i]) : ~Before(i, p)
        OBVIOUS
      <4> HIDE DEF Before
      <4>2. Holds(v, rd[i])
        BY <1>2
      <4>3. ASSUME NEW c \in rd[i], NEW p \in c.polys
            PROVE  p \in DOMAIN u /\ Within(u[p], c.bound)
        <5>1. p \in Touched(rd[i])
          BY DEF Touched
        <5>2. p \in DOMAIN v /\ Within(v[p], c.bound)
          BY <4>2 DEF Holds
        <5>3. u[p] = v[p] /\ p \in DOMAIN u
          BY <5>1, <5>2, <4>1, <3>2, <2>d
        <5>4. QED  BY <5>2, <5>3
      <4>4. QED  BY <4>3 DEF Holds
    <3> HIDE DEF State
    <3>3. ASSUME Uses(x, fs[i]), NEW u \in J[i] PROVE \E t \in J[i + 1] : Runs(x, fs[i], u, t)
      <4>1. u \in Memories(x) /\ State(i, u)
        BY <2>1, <3>0
      <4>2. Does(x, fs[i], {u}, Left(x, u, wr[i]))
        BY <4>1, <3>2 DEF Fragment
      <4>3. PICK t \in Left(x, u, wr[i]) : Runs(x, fs[i], u, t)
        BY <4>2, <3>3 DEF Does
      <4>4. t \in J[i + 1]
        BY <4>1, <3>1, <2>1, <3>0
      <4>5. QED  BY <4>3, <4>4
    <3>4. QED  BY <3>3 DEF Does
  <2>3. \A i \in 1 .. n + 1 : J[i] \subseteq Memories(x)
    BY <2>1
  <2>4. v \in J[1]
    <3>1. 1 \in 1 .. n + 1 /\ \A p : ~Before(1, p)
      OBVIOUS
    <3>2. QED  BY <2>1, <3>1
  <2>5. J[n + 1] \subseteq Left(x, v, N)
    <3>1. n + 1 \in 1 .. n + 1 /\ \A k \in 1 .. n : k < n + 1
      OBVIOUS
    <3>2. \A p : Before(n + 1, p) <=> \E k \in 1 .. n : p \in Touched(wr[k])
      BY <3>1
    <3> HIDE DEF Before, J
    <3>3. ASSUME NEW u \in Memories(x), State(n + 1, u) PROVE Holds(u, N) /\ Kept(v, u, N)
      <4>1. Holds(u, N)
        BY <3>2, <3>3 DEF Holds
      <4>2. Kept(v, u, N)
        BY <3>2, <3>3 DEF Kept
      <4>3. QED  BY <4>1, <4>2
    <3>4. QED  BY <2>1, <3>1, <3>3 DEF Left
  <2> HIDE DEF J
  <2>6. IsSeq(FlattenSeq(fs)) /\ Does(x, FlattenSeq(fs), J[1], J[n + 1])
    BY <1>1, <2>2, <2>3, DoesLoop
  <2>7. QED  BY <2>4, <2>5, <2>6 DEF Does
<1>3. IsSeq(FlattenSeq(fs))
  <2> DEFINE J == [i \in 1 .. n + 1 |-> {}]
  <2>1. \A i \in 1 .. n + 1 : J[i] \subseteq Memories(x)
    OBVIOUS
  <2>2. \A i \in 1 .. n : Does(x, fs[i], J[i], J[i + 1])
    BY DEF Does
  <2> HIDE DEF J
  <2>3. QED  BY <1>1, <2>1, <2>2, DoesLoop
<1>4. QED  BY <1>2, <1>3 DEF Fragment

-------------------------------------------------------------------------------
(***************************************************************************)
(* Vectors with the bounds of their polynomials.                           *)
(***************************************************************************)
Vec(v, b) == [vec |-> v, bound |-> b]

AllOf(VS) == {All(q.vec, q.bound) : q \in VS}

At(VS, i) == {Lies(q.vec[i], q.bound) : q \in VS}

LEMMA VecFields == \A v, b : Vec(v, b).vec = v /\ Vec(v, b).bound = b
BY DEF Vec

LEMMA AllFields ==
  ASSUME NEW v, NEW b, NEW n, DOMAIN v = 1 .. n
  PROVE  All(v, b).bound = b /\ \A p : p \in All(v, b).polys <=> \E k \in 1 .. n : p = v[k]
<1>1. All(v, b).bound = b /\ All(v, b).polys = {v[k] : k \in DOMAIN v}
  BY DEF All
<1>2. QED  BY <1>1

\* The clauses C put the bounds of VS on the polynomials at the places I.
Spans(C, VS, I) ==
  /\ \A c \in C : \E q \in VS : c.bound = q.bound /\ \A p \in c.polys : \E k \in I : p = q.vec[k]
  /\ \A q \in VS : \E c \in C : c.bound = q.bound /\ \A k \in I : q.vec[k] \in c.polys

LEMMA AllSpans ==
  ASSUME NEW VS, NEW n, \A q \in VS : DOMAIN q.vec = 1 .. n
  PROVE  Spans(AllOf(VS), VS, 1 .. n)
<1>3. ASSUME NEW c \in AllOf(VS)
      PROVE  \E q \in VS : c.bound = q.bound /\ \A p \in c.polys : \E k \in 1 .. n : p = q.vec[k]
  <2>1. PICK q \in VS : c = All(q.vec, q.bound)
    BY DEF AllOf
  <2>2. DOMAIN q.vec = 1 .. n
    OBVIOUS
  <2>3. c.bound = q.bound /\ \A p : p \in c.polys <=> \E k \in 1 .. n : p = q.vec[k]
    BY <2>1, <2>2, AllFields
  <2>4. QED  BY <2>3
<1>4. ASSUME NEW q \in VS
      PROVE  \E c \in AllOf(VS) : c.bound = q.bound /\ \A k \in 1 .. n : q.vec[k] \in c.polys
  <2>1. All(q.vec, q.bound) \in AllOf(VS) /\ DOMAIN q.vec = 1 .. n
    BY DEF AllOf
  <2>2. /\ All(q.vec, q.bound).bound = q.bound
        /\ \A k \in 1 .. n : q.vec[k] \in All(q.vec, q.bound).polys
    BY <2>1, AllFields
  <2>3. QED  BY <2>1, <2>2
<1>5. QED  BY <1>3, <1>4 DEF Spans

LEMMA AtSpans ==
  ASSUME NEW VS, NEW i
  PROVE  Spans(At(VS, i), VS, {i})
<1>2. \A p, b : Lies(p, b).bound = b /\ Lies(p, b).polys = {p}
  BY DEF Lies
<1>5. ASSUME NEW c \in At(VS, i)
      PROVE  \E q \in VS : c.bound = q.bound /\ \A p \in c.polys : \E k \in {i} : p = q.vec[k]
  <2>1. PICK q \in VS : c = Lies(q.vec[i], q.bound)
    BY DEF At
  <2>2. QED  BY <1>2, <2>1
<1>6. ASSUME NEW q \in VS
      PROVE  \E c \in At(VS, i) : c.bound = q.bound /\ \A k \in {i} : q.vec[k] \in c.polys
  <2>1. Lies(q.vec[i], q.bound) \in At(VS, i)
    BY DEF At
  <2>2. QED  BY <1>2, <2>1
<1>7. QED  BY <1>5, <1>6 DEF Spans

LEMMA SpansTouches ==
  ASSUME NEW C, NEW VS, NEW I, Spans(C, VS, I)
  PROVE  /\ \A p \in Touched(C) : \E q \in VS : \E k \in I : p = q.vec[k]
         /\ \A q \in VS : \A k \in I : q.vec[k] \in Touched(C)
<1>1. ASSUME NEW p \in Touched(C) PROVE \E q \in VS : \E k \in I : p = q.vec[k]
  <2>1. PICK c \in C : p \in c.polys
    BY DEF Touched
  <2>2. QED  BY <2>1 DEF Spans
<1>2. ASSUME NEW q \in VS, NEW k \in I PROVE q.vec[k] \in Touched(C)
  <2>1. PICK c \in C : q.vec[k] \in c.polys
    BY DEF Spans
  <2>2. QED  BY <2>1 DEF Touched
<1>3. QED  BY <1>1, <1>2

LEMMA SpansPlace ==
  ASSUME NEW C, NEW VS, NEW I, Spans(C, VS, I), NEW c \in C, NEW p \in c.polys
  PROVE  \E q \in VS : c.bound = q.bound /\ \E k \in I : p = q.vec[k]
BY DEF Spans

LEMMA SpansClause ==
  ASSUME NEW C, NEW VS, NEW I, Spans(C, VS, I), NEW q \in VS, NEW k \in I
  PROVE  \E c \in C : c.bound = q.bound /\ q.vec[k] \in c.polys
BY DEF Spans

LEMMA VectorLoop ==
  ASSUME NEW x, NEW fs, NEW n \in Nat, fs = [i \in 1 .. n |-> fs[i]], NEW RS, NEW NS,
         \A q \in RS : DOMAIN q.vec = 1 .. n, \A q \in NS : DOMAIN q.vec = 1 .. n,
         \A i \in 1 .. n : Fragment(x, fs[i], At(RS, i), At(NS, i)),
         \A q \in RS : \A o \in NS : \A i, j \in 1 .. n : j < i => q.vec[i] # o.vec[j],
         \A o, q \in NS : \A i, j \in 1 .. n : o.vec[i] = q.vec[j] => o.bound = q.bound
  PROVE  Fragment(x, FlattenSeq(fs), AllOf(RS), AllOf(NS))
<1> DEFINE rd == [i \in 1 .. n |-> At(RS, i)]
           wr == [i \in 1 .. n |-> At(NS, i)]
<1>1. \A i \in 1 .. n : rd[i] = At(RS, i) /\ wr[i] = At(NS, i)
  OBVIOUS
<1> HIDE DEF rd, wr
<1>2. /\ Spans(AllOf(RS), RS, 1 .. n) /\ Spans(AllOf(NS), NS, 1 .. n)
      /\ \A i \in 1 .. n : Spans(rd[i], RS, {i}) /\ Spans(wr[i], NS, {i})
  BY <1>1, AllSpans, AtSpans
<1>3. ASSUME NEW i \in 1 .. n
      PROVE  /\ \A p \in Touched(wr[i]) : \E q \in NS : p = q.vec[i]
             /\ \A q \in NS : q.vec[i] \in Touched(wr[i])
             /\ \A p \in Touched(rd[i]) : \E q \in RS : p = q.vec[i]
  <2>1. Spans(rd[i], RS, {i}) /\ Spans(wr[i], NS, {i})
    BY <1>2
  <2>2. \A p \in Touched(rd[i]) : \E q \in RS : \E k \in {i} : p = q.vec[k]
    BY <2>1, SpansTouches
  <2>3. /\ \A p \in Touched(wr[i]) : \E q \in NS : \E k \in {i} : p = q.vec[k]
        /\ \A q \in NS : \A k \in {i} : q.vec[k] \in Touched(wr[i])
    BY <2>1, SpansTouches
  <2>4. QED  BY <2>2, <2>3
<1>4. /\ \A p \in Touched(AllOf(NS)) : \E q \in NS : \E k \in 1 .. n : p = q.vec[k]
      /\ \A q \in NS : \A k \in 1 .. n : q.vec[k] \in Touched(AllOf(NS))
  BY <1>2, SpansTouches
<1>5. \A i \in 1 .. n : Fragment(x, fs[i], rd[i], wr[i])
  BY <1>1
<1>6. \A i \in 1 .. n : \A v \in Memories(x) : Holds(v, AllOf(RS)) => Holds(v, rd[i])
  <2>1. ASSUME NEW i \in 1 .. n, NEW v, Holds(v, AllOf(RS)), NEW c \in rd[i], NEW p \in c.polys
        PROVE  p \in DOMAIN v /\ Within(v[p], c.bound)
    <3>1. PICK q \in RS : c.bound = q.bound /\ p = q.vec[i]
      <4>1. Spans(rd[i], RS, {i})
        BY <1>2
      <4>2. QED  BY <4>1, SpansPlace
    <3>2. PICK d \in AllOf(RS) : d.bound = q.bound /\ q.vec[i] \in d.polys
      BY <1>2, SpansClause
    <3>3. QED  BY <3>1, <3>2, <2>1 DEF Holds
  <2>2. QED  BY <2>1 DEF Holds
<1>7. ASSUME NEW i \in 1 .. n, NEW j \in 1 .. n, j < i, NEW p \in Touched(rd[i])
      PROVE  p \notin Touched(wr[j])
  <2>1. PICK q \in RS : p = q.vec[i]
    BY <1>3
  <2>2. \A o \in NS : p # o.vec[j]
    BY <2>1, <1>7
  <2>3. QED  BY <2>2, <1>3
<1>8. ASSUME NEW c \in AllOf(NS), NEW p \in c.polys PROVE \E i \in 1 .. n : p \in Touched(wr[i])
  <2>1. PICK q \in NS, k \in 1 .. n : p = q.vec[k]
    BY <1>2, SpansPlace
  <2>2. QED  BY <2>1, <1>3
<1>9. ASSUME NEW i \in 1 .. n, NEW p \in Touched(wr[i]) PROVE p \in Touched(AllOf(NS))
  <2>1. PICK q \in NS : p = q.vec[i]
    BY <1>3
  <2>2. QED  BY <2>1, <1>4
<1>10. ASSUME NEW i \in 1 .. n, NEW d \in wr[i], NEW c \in AllOf(NS), NEW p \in c.polys,
              p \in d.polys
       PROVE  d.bound = c.bound
  <2>1. PICK o \in NS : d.bound = o.bound /\ p = o.vec[i]
    <3>1. Spans(wr[i], NS, {i})
      BY <1>2
    <3>2. QED  BY <3>1, <1>10, SpansPlace
  <2>2. PICK q \in NS : c.bound = q.bound /\ \E k \in 1 .. n : p = q.vec[k]
    BY <1>2, SpansPlace
  <2>3. QED  BY <2>1, <2>2
<1>11. \A i \in 1 .. n : \A d \in wr[i] : \A c \in AllOf(NS) : \A p \in c.polys : \A r \in Intervals :
           p \in d.polys /\ Within(r, d.bound) => Within(r, c.bound)
  BY <1>10
<1>12. \A i, j \in 1 .. n : j < i => \A p \in Touched(rd[i]) : p \notin Touched(wr[j])
  BY <1>7
<1>13. QED  BY <1>5, <1>6, <1>8, <1>9, <1>11, <1>12, LoopRuns

LEMMA ContractRuns ==
  ASSUME NEW x, NEW fn, NEW body, NEW R, NEW N, Fragment(x, body, R, N)
  PROVE  Fragment(x, Function(fn, Contract(R, N), body), R, N)
<1> DEFINE ct == Contract(R, N)
<1>1. ct.given = TRUE /\ ct.requires = R /\ ct.ensures = N /\ ct.sums = {}
  BY DEF Contract
<1>2. \A v, C : Holds(v, C) => Meets(v, C)
  BY DEF Holds, Meets
<1> HIDE DEF ct
<1>3. QED  BY <1>1, <1>2, FunctionRuns DEF ct

-------------------------------------------------------------------------------
(***************************************************************************)
(* The intervals that the operations leave, for the builds of params.h.    *)
(***************************************************************************)
Build ==
  /\ \/ K = 4 /\ L = 4
     \/ K = 6 /\ L = 5
     \/ K = 8 /\ L = 7
  /\ ETA \in {2, 4} /\ GAMMA1 \in {131072, 524288} /\ GAMMA2 \in {95232, 261888}
  /\ BETA \in Int /\ 0 <= BETA /\ BETA <= 1000
  /\ par.intt \in Int /\ 0 <= par.intt /\ par.intt <= 8380416 - ETA
  /\ par.backend = "c" => par.intt < 4211139

Native(x) == x.native = (par.backend # "c")

LEMMA PowersOfTwo ==
  /\ 2 ^ D = 8192 /\ 2 ^ (D - 1) = 4096 /\ 2 ^ 10 = 1024 /\ 2 ^ 13 = 8192
  /\ 2 ^ 17 = 131072 /\ 2 ^ 19 = 524288 /\ 2 ^ 18 = 262144 /\ 2 ^ 20 = 1048576
  /\ 2 ^ 3 = 8 /\ 2 ^ 4 = 16 /\ 2 ^ 6 = 64
BY SMT DEF D

LEMMA BuildHolds == par \in Params => Build
<1> SUFFICES ASSUME par \in Params PROVE Build
  OBVIOUS
<1>1. /\ <<K, L>> \in {<<4, 4>>, <<6, 5>>, <<8, 7>>}
      /\ ETA \in {2, 4} /\ GAMMA1 \in {2 ^ 17, 2 ^ 19}
      /\ GAMMA2 \in {(Q - 1) \div 88, (Q - 1) \div 32} /\ BETA \in 0 .. 1000
      /\ par.intt \in Nat /\ par.intt <= Q - 1 - ETA
      /\ par.backend = "c" => par.intt < MLD_INTT_BOUND
  BY ParamsAssumption DEF K, L, ETA, GAMMA1, GAMMA2, BETA
<1>2. (Q - 1) \div 88 = 95232 /\ (Q - 1) \div 32 = 261888 /\ Q - 1 = 8380416
  BY SMT DEF Q
<1>3. (K = 4 /\ L = 4) \/ (K = 6 /\ L = 5) \/ (K = 8 /\ L = 7)
  BY <1>1
<1>4. 0 <= BETA /\ BETA <= 1000 /\ BETA \in Int
  BY <1>1
<1>5. par.intt \in Int /\ 0 <= par.intt /\ par.intt <= 8380416 - ETA
  BY <1>1, <1>2
<1>6. QED  BY <1>1, <1>2, <1>3, <1>4, <1>5, PowersOfTwo DEF Build, MLD_INTT_BOUND

Is(r, lo, hi) == r \in Intervals /\ r.lo = lo /\ r.hi = hi

LEMMA IsInterval ==
  ASSUME NEW lo \in Int, NEW hi \in Int, lo <= hi
  PROVE  Is(Interval(lo, hi), lo, hi)
BY DEF Is, Interval, Intervals

LEMMA FixedBounds ==
  /\ Is(Reduced, -6283009, 6283008) /\ Is(Reducible, -2147483648, 2143289342)
  /\ Is(Canonical, 0, 8380416) /\ Is(BelowQ, -8380416, 8380416)
  /\ Is(NttOutput, -75423752, 75423752) /\ Is(InttOutput, -4211138, 4211138)
  /\ Is(T0Bound, -4095, 4096) /\ Is(T1Bound, 0, 1023) /\ Is(Bit, 0, 1)
  /\ Is(array_bound(-1, 2), -1, 1)
  /\ Is(array_bound(0, ((Q - 1) \div 2 ^ D) + 1), 0, 1023)
  /\ Is(Field(13), 0, 8191) /\ Is(Field(10), 0, 1023)
  /\ Is(Interval(0, Q - 1), 0, 8380416) /\ Is(Power2RoundLow, -4095, 4096)
<1>1. ((Q - 1) \div 2 ^ D) + 1 = 1024
  BY PowersOfTwo, SMT DEF Q
<1>2. \A lo, hi \in Int : lo <= hi => Is(Interval(lo, hi), lo, hi)
  BY IsInterval
<1>3. \A lo, hi \in Int : lo < hi => Is(array_bound(lo, hi), lo, hi - 1)
  BY <1>2 DEF array_bound
<1>4. \A b \in Int : 0 < b => Is(array_abs_bound(b), -b + 1, b - 1)
  BY <1>2 DEF array_abs_bound
<1>5. Is(Reduced, -6283009, 6283008) /\ Is(Reducible, -2147483648, 2143289342)
  BY <1>3 DEF Reduced, Reducible, REDUCE32_RANGE_MAX, REDUCE32_DOMAIN_MAX, INT32_MIN, INT32_MAX
<1>6. Is(Canonical, 0, 8380416) /\ Is(BelowQ, -8380416, 8380416)
  BY <1>3, <1>4 DEF Canonical, BelowQ, Q
<1>7. Is(NttOutput, -75423752, 75423752) /\ Is(InttOutput, -4211138, 4211138)
  BY <1>4 DEF NttOutput, InttOutput, MLD_NTT_BOUND, MLD_INTT_BOUND, Q
<1>8. /\ Is(T0Bound, -4095, 4096) /\ Is(T1Bound, 0, 1023) /\ Is(Bit, 0, 1)
      /\ Is(array_bound(-1, 2), -1, 1)
      /\ Is(array_bound(0, ((Q - 1) \div 2 ^ D) + 1), 0, 1023)
  BY <1>1, <1>3, PowersOfTwo DEF T0Bound, T1Bound, Bit
<1>9. /\ Is(Field(13), 0, 8191) /\ Is(Field(10), 0, 1023)
      /\ Is(Interval(0, Q - 1), 0, 8380416) /\ Is(Power2RoundLow, -4095, 4096)
  BY <1>2, PowersOfTwo DEF Field, Power2RoundLow, Q
<1>10. QED  BY <1>5, <1>6, <1>7, <1>8, <1>9

LEMMA ParBounds ==
  ASSUME Build
  PROVE  /\ Is(ZBound, -GAMMA1 + 1, GAMMA1) /\ Is(EtaBound, -ETA, ETA)
         /\ Is(LowBits, -GAMMA2, GAMMA2)
         /\ Is(HighBits, 0, IF GAMMA2 = 95232 THEN 43 ELSE 15)
         /\ Is(UnpackedEta, IF ETA = 2 THEN -5 ELSE -11, ETA)
         /\ Is(Field(EtaBits), 0, IF ETA = 2 THEN 7 ELSE 15)
         /\ Is(Field(ZBits), 0, 2 * GAMMA1 - 1)
         /\ Is(Field(W1Bits), 0, IF GAMMA2 = 95232 THEN 63 ELSE 15)
         /\ Is(Interval(0, (Q - 1) \div (2 * GAMMA2) - 1), 0, IF GAMMA2 = 95232 THEN 43 ELSE 15)
         /\ Is(Interval(-GAMMA2, GAMMA2), -GAMMA2, GAMMA2)
         /\ Is(Interval(-ETA, ETA), -ETA, ETA)
         /\ Is(Interval(-par.intt, par.intt), -par.intt, par.intt)
<1>2. \A lo, hi \in Int : lo <= hi => Is(Interval(lo, hi), lo, hi)
  BY IsInterval
<1>3. \A lo, hi \in Int : lo < hi => Is(array_bound(lo, hi), lo, hi - 1)
  BY <1>2 DEF array_bound
<1>4. \A b \in Int : 0 < b => Is(array_abs_bound(b), -b + 1, b - 1)
  BY <1>2 DEF array_abs_bound
<1>5. GAMMA1 \in {131072, 524288} /\ GAMMA2 \in {95232, 261888} /\ ETA \in {2, 4}
  BY DEF Build
<1>6. (Q - 1) \div (2 * GAMMA2) = (IF GAMMA2 = 95232 THEN 44 ELSE 16) /\ (Q - 1) \div 88 = 95232
  BY <1>5, SMT DEF Q
<1>7. Is(ZBound, -GAMMA1 + 1, GAMMA1)
  BY <1>3, <1>5 DEF ZBound
<1>8. Is(EtaBound, -ETA, ETA) /\ Is(LowBits, -GAMMA2, GAMMA2)
  BY <1>4, <1>5 DEF EtaBound, LowBits
<1>9. Is(HighBits, 0, IF GAMMA2 = 95232 THEN 43 ELSE 15)
  BY <1>3, <1>5, <1>6 DEF HighBits
<1>10. Is(UnpackedEta, IF ETA = 2 THEN -5 ELSE -11, ETA)
  BY <1>3, <1>5 DEF UnpackedEta, MLD_POLYETA_UNPACK_LOWER_BOUND
<1>11. Is(Field(EtaBits), 0, IF ETA = 2 THEN 7 ELSE 15)
  BY <1>2, <1>5, PowersOfTwo DEF Field, EtaBits
<1>12. Is(Field(ZBits), 0, 2 * GAMMA1 - 1)
  BY <1>2, <1>5, PowersOfTwo DEF Field, ZBits
<1>13. Is(Field(W1Bits), 0, IF GAMMA2 = 95232 THEN 63 ELSE 15)
  BY <1>2, <1>5, <1>6, PowersOfTwo DEF Field, W1Bits
<1>14. Is(Interval(0, (Q - 1) \div (2 * GAMMA2) - 1), 0, IF GAMMA2 = 95232 THEN 43 ELSE 15)
  BY <1>2, <1>5, <1>6
<1>15. Is(Interval(-GAMMA2, GAMMA2), -GAMMA2, GAMMA2) /\ Is(Interval(-ETA, ETA), -ETA, ETA)
  BY <1>2, <1>5
<1>16. Is(Interval(-par.intt, par.intt), -par.intt, par.intt)
  BY <1>2 DEF Build
<1>17. QED
  BY <1>7, <1>8, <1>9, <1>10, <1>11, <1>12, <1>13, <1>14, <1>15, <1>16

\* The result of mld_reduce32, and its quotient.
Reduction(a, q, r) ==
  /\ q \in Int /\ r \in Int /\ r = a - q * 8380417
  /\ q * 8388608 <= a + 4194304 /\ a + 4194304 < q * 8388608 + 8388608

LEMMA ReduceOne ==
  ASSUME NEW a \in Int
  PROVE  Reduction(a, Quotient(a), Reduce32(a))
<1>1. a + 4194304 \in Int
  BY SMT
<1>2. (a + 4194304) \div 8388608 \in Int
  BY <1>1, SMT
<1>3. QED  BY <1>1, <1>2, SMT DEF Quotient, Reduce32, Reduction, Q

LEMMA ReduceFits ==
  ASSUME NEW r \in Intervals, Within(r, Reducible)
  PROVE  ReduceInterval(r) \in Intervals /\ Within(ReduceInterval(r), Reduced)
<1> DEFINE first == Quotient(r.lo)   last == Quotient(r.hi)
           fall(t) == t * 8388608 - 4194304
           up == Reduce32(fall(first + 1))   down == Reduce32(fall(last) - 1)
           lo == Reduce32(r.lo)   hi == Reduce32(r.hi)
<1>1. r.lo \in Int /\ r.hi \in Int /\ r.lo <= r.hi
  BY DEF Intervals
<1>2. -2147483648 <= r.lo /\ r.hi <= 2143289342
  BY <1>1, FixedBounds DEF Is, Within
<1>3. Reduction(r.lo, first, lo)
  BY <1>1, ReduceOne
<1>4. Reduction(r.hi, last, hi)
  BY <1>1, ReduceOne
<1>5. up \in Int /\ up = 8191 * (first + 1) - 4194304
  <2> DEFINE f == fall(first + 1)
  <2>1. first \in Int /\ f \in Int /\ f = first * 8388608 + 4194304
    BY <1>3, SMT DEF Reduction
  <2>2. Reduction(f, Quotient(f), up)
    BY <2>1, ReduceOne
  <2> HIDE DEF first, up, f, fall
  <2>3. QED  BY <2>1, <2>2, SMT DEF Reduction
<1>6. down \in Int /\ down = 8191 * last - 8191 + 4194303
  <2> DEFINE f == fall(last) - 1
  <2>1. last \in Int /\ f \in Int /\ f = last * 8388608 - 4194305
    BY <1>4, SMT DEF Reduction
  <2>2. Reduction(f, Quotient(f), down)
    BY <2>1, ReduceOne
  <2> HIDE DEF last, down, f, fall
  <2>3. QED  BY <2>1, <2>2, SMT DEF Reduction
<1>7. ReduceInterval(r) = IF first = last THEN Interval(lo, hi)
                          ELSE Interval(Least(lo, up), Greatest(hi, down))
  BY DEF ReduceInterval
<1> HIDE DEF first, last, lo, hi, up, down, fall
<1>8. -256 <= first /\ first <= last /\ last <= 255
  BY <1>1, <1>2, <1>3, <1>4, SMT DEF Reduction
<1>9. -6283009 <= lo /\ lo <= 6283008 /\ -6283009 <= hi /\ hi <= 6283008
  BY <1>1, <1>2, <1>3, <1>4, <1>8, SMT DEF Reduction
<1>10. CASE first = last
  <2>1. lo <= hi
    BY <1>1, <1>3, <1>4, <1>10, SMT DEF Reduction
  <2>2. Is(ReduceInterval(r), lo, hi)
    BY <1>3, <1>4, <1>7, <1>10, <2>1, IsInterval, SMT DEF Reduction
  <2>3. QED  BY <2>2, <1>3, <1>4, <1>9, FixedBounds, SMT DEF Is, Within, Reduction
<1>11. CASE first # last
  <2> DEFINE b == Least(lo, up)   t == Greatest(hi, down)
  <2>1. b \in Int /\ t \in Int /\ b <= t /\ -6283009 <= b /\ t <= 6283008
    BY <1>3, <1>4, <1>5, <1>6, <1>8, <1>9, <1>11, SMT DEF Least, Greatest, Reduction
  <2> HIDE DEF b, t
  <2>2. Is(ReduceInterval(r), b, t)
    BY <1>7, <1>11, <2>1, IsInterval DEF b, t
  <2>3. QED  BY <2>1, <2>2, FixedBounds DEF Is, Within
<1>12. QED  BY <1>10, <1>11

LEMMA CaddqFits ==
  ASSUME NEW r \in Intervals, Within(r, BelowQ)
  PROVE  CaddqInterval(r) \in Intervals /\ Within(CaddqInterval(r), Canonical)
<1>1. r.lo \in Int /\ r.hi \in Int /\ r.lo <= r.hi
  BY DEF Intervals
<1>2. -8380416 <= r.lo /\ r.hi <= 8380416
  BY <1>1, FixedBounds DEF Is, Within
<1>3. CASE r.lo >= 0
  BY <1>1, <1>2, <1>3, FixedBounds DEF CaddqInterval, Is, Within
<1>4. CASE r.lo < 0 /\ r.hi < 0
  <2>1. CaddqInterval(r) = Interval(r.lo + Q, r.hi + Q)
    BY <1>1, <1>4 DEF CaddqInterval
  <2>2. r.lo + Q \in Int /\ r.hi + Q \in Int /\ r.lo + Q <= r.hi + Q
        /\ 0 <= r.lo + Q /\ r.hi + Q <= 8380416
    BY <1>1, <1>2, <1>4 DEF Q
  <2>3. Is(CaddqInterval(r), r.lo + Q, r.hi + Q)
    BY <2>1, <2>2, IsInterval
  <2>4. QED  BY <2>2, <2>3, FixedBounds DEF Is, Within
<1>5. CASE r.lo < 0 /\ r.hi >= 0
  <2> DEFINE b == Least(0, r.lo + Q)   t == Greatest(r.hi, Q - 1)
  <2>1. CaddqInterval(r) = Interval(b, t)
    BY <1>1, <1>5 DEF CaddqInterval
  <2>2. b = 0 /\ t = 8380416
    BY <1>1, <1>2, <1>5 DEF Q, Least, Greatest
  <2> HIDE DEF b, t
  <2>3. Is(CaddqInterval(r), 0, 8380416)
    BY <2>1, <2>2, IsInterval
  <2>4. QED  BY <2>3, FixedBounds DEF Is, Within
<1>6. QED  BY <1>1, <1>3, <1>4, <1>5

\* The ends of an interval within another.
Ends(r, lo, hi) == r.lo \in Int /\ r.hi \in Int /\ r.lo <= r.hi /\ lo <= r.lo /\ r.hi <= hi

LEMMA WithinEnds ==
  ASSUME NEW r \in Intervals, NEW b, NEW lo \in Int, NEW hi \in Int, Is(b, lo, hi)
  PROVE  Within(r, b) <=> Ends(r, lo, hi)
BY DEF Intervals, Within, Is, Ends

LEMMA IntervalWithin ==
  ASSUME NEW lo \in Int, NEW hi \in Int, lo <= hi,
         NEW b, NEW bl \in Int, NEW bh \in Int, Is(b, bl, bh), bl <= lo, hi <= bh
  PROVE  Interval(lo, hi) \in Intervals /\ Within(Interval(lo, hi), b)
BY IsInterval DEF Is, Within

LEMMA AddFits ==
  ASSUME NEW r \in Intervals, NEW s \in Intervals, NEW a, NEW b,
         NEW al \in Int, NEW ah \in Int, Is(a, al, ah), Within(r, a),
         NEW bl \in Int, NEW bh \in Int, Is(b, bl, bh), Within(s, b)
  PROVE  AddInterval(r, s) \in Intervals /\ Within(AddInterval(r, s), AddInterval(a, b))
<1>1. Ends(r, al, ah) /\ Ends(s, bl, bh) /\ al <= ah /\ bl <= bh
  BY WithinEnds DEF Is, Intervals
<1>2. AddInterval(a, b) = Interval(al + bl, ah + bh)
  BY DEF AddInterval, Is
<1>3. Is(AddInterval(a, b), al + bl, ah + bh)
  BY <1>1, <1>2, IsInterval
<1>4. r.lo + s.lo \in Int /\ r.hi + s.hi \in Int /\ r.lo + s.lo <= r.hi + s.hi
      /\ al + bl <= r.lo + s.lo /\ r.hi + s.hi <= ah + bh
  BY <1>1 DEF Ends
<1>5. QED  BY <1>3, <1>4, IntervalWithin DEF AddInterval

LEMMA SubFits ==
  ASSUME NEW r \in Intervals, NEW s \in Intervals, Within(r, BelowQ), Within(s, BelowQ)
  PROVE  SubInterval(r, s) \in Intervals /\ Within(SubInterval(r, s), Reducible)
<1>1. Ends(r, -8380416, 8380416) /\ Ends(s, -8380416, 8380416)
  BY FixedBounds, WithinEnds
<1>2. r.lo - s.hi \in Int /\ r.hi - s.lo \in Int /\ r.lo - s.hi <= r.hi - s.lo
      /\ -2147483648 <= r.lo - s.hi /\ r.hi - s.lo <= 2143289342
  BY <1>1 DEF Ends
<1>3. QED  BY <1>2, FixedBounds, IntervalWithin DEF SubInterval

LEMMA ShiftlFits ==
  ASSUME NEW r \in Intervals, Within(r, T1Bound)
  PROVE  ShiftlInterval(r) \in Intervals /\ Within(ShiftlInterval(r), Canonical)
<1>1. Ends(r, 0, 1023)
  BY FixedBounds, WithinEnds
<1>2. r.lo * 8192 \in Int /\ r.hi * 8192 \in Int /\ r.lo * 8192 <= r.hi * 8192
      /\ 0 <= r.lo * 8192 /\ r.hi * 8192 <= 8380416
  BY <1>1 DEF Ends
<1>3. QED  BY <1>2, FixedBounds, IntervalWithin, PowersOfTwo DEF ShiftlInterval

LEMMA NttFits ==
  ASSUME NEW r \in Intervals, Within(r, BelowQ)
  PROVE  NttInterval(r) \in Intervals /\ Within(NttInterval(r), NttOutput)
<1>1. Ends(r, -8380416, 8380416)
  BY FixedBounds, WithinEnds
<1>2. 8 * (Q - 1) = 67043328
  BY DEF Q
<1>3. r.lo - 67043328 \in Int /\ r.hi + 67043328 \in Int /\ r.lo - 67043328 <= r.hi + 67043328
      /\ -75423752 <= r.lo - 67043328 /\ r.hi + 67043328 <= 75423752
  BY <1>1 DEF Ends
<1>4. QED  BY <1>2, <1>3, FixedBounds, IntervalWithin DEF NttInterval

LEMMA Power2RoundFits ==
  ASSUME NEW r \in Intervals, Within(r, Canonical)
  PROVE  /\ Power2RoundHigh(r) \in Intervals
         /\ Within(Power2RoundHigh(r), array_bound(0, ((Q - 1) \div 2 ^ D) + 1))
<1>1. Ends(r, 0, 8380416)
  BY FixedBounds, WithinEnds
<1> DEFINE lo == (r.lo + 4095) \div 8192   hi == (r.hi + 4095) \div 8192
<1>2. lo \in Int /\ hi \in Int /\ lo <= hi /\ 0 <= lo /\ hi <= 1023
  BY <1>1, SMT DEF Ends
<1>3. Power2RoundHigh(r) = Interval(lo, hi)
  BY <1>1, PowersOfTwo DEF Power2RoundHigh, Ends
<1> HIDE DEF lo, hi
<1>4. QED  BY <1>2, <1>3, FixedBounds, IntervalWithin

LEMMA MontgomeryFits ==
  ASSUME NEW n \in 1 .. 7, NEW r \in Intervals, NEW s \in Intervals,
         Within(r, IF n = 1 THEN NttOutput ELSE Canonical), Within(s, NttOutput)
  PROVE  MontgomeryInterval(n, r, s) \in Intervals /\ Within(MontgomeryInterval(n, r, s), BelowQ)
<1> DEFINE m == Magnitude(r)
           multiple == (m + Q - 1) \div Q
           factor == n * Greatest(multiple, 1)
<1>1. Ends(s, -75423752, 75423752)
  BY FixedBounds, WithinEnds, SMT
<1>2. IF n = 1 THEN Ends(r, -75423752, 75423752) ELSE Ends(r, 0, 8380416)
  BY FixedBounds, WithinEnds, SMT
<1>3. m \in Int /\ 0 <= m /\ m <= IF n = 1 THEN 75423752 ELSE 8380416
  BY <1>2, SMT DEF Magnitude, Greatest, Ends
<1> HIDE DEF m
<1>4. multiple \in Int /\ multiple <= IF n = 1 THEN 9 ELSE 1
  BY <1>3, SMT DEF Q
<1> HIDE DEF multiple
<1>5. factor \in 1 .. 9
  <2>1. CASE n = 1
    BY <1>4, <2>1, SMT DEF Greatest
  <2>2. CASE n # 1
    <3>1. Greatest(multiple, 1) = 1
      BY <1>4, <2>2, SMT DEF Greatest
    <3>2. QED  BY <3>1, SMT
  <2>3. QED  BY <2>1, <2>2
<1> HIDE DEF factor
<1>6. INT32_MAX \div factor \in Int /\ 75423752 <= INT32_MAX \div factor
  <2>1. \A f \in 1 .. 9 : 2147483647 \div f \in Int /\ 75423752 <= 2147483647 \div f
    BY SMT
  <2>2. QED  BY <2>1, <1>5 DEF INT32_MAX
<1>7. Magnitude(s) \in Int /\ Magnitude(s) <= 75423752
  BY <1>1, SMT DEF Magnitude, Greatest, Ends
<1>8. Magnitude(s) <= INT32_MAX \div factor
  BY <1>6, <1>7, SMT
<1>9. r.lo > INT32_MIN /\ s.lo > INT32_MIN
  BY <1>1, <1>2, SMT DEF Ends, INT32_MIN
<1>10. StrongDomain(n, r, s)
  BY <1>8, <1>9 DEF StrongDomain, factor, multiple, m
<1>11. MontgomeryInterval(n, r, s) = Interval(-(Q - 1), Q - 1)
  BY <1>10 DEF MontgomeryInterval
<1>12. -(Q - 1) = -8380416 /\ Q - 1 = 8380416
  BY SMT DEF Q
<1>13. QED  BY <1>11, <1>12, FixedBounds, IntervalWithin, SMT

LEMMA MirrorFits ==
  ASSUME NEW base \in Int, NEW r \in Intervals,
         NEW lo \in Int, NEW hi \in Int, NEW a, Is(a, lo, hi), Within(r, a),
         NEW b, NEW bl \in Int, NEW bh \in Int, Is(b, bl, bh), bl <= base - hi, base - lo <= bh
  PROVE  Mirror(base, r) \in Intervals /\ Within(Mirror(base, r), b)
<1>1. Ends(r, lo, hi)
  BY WithinEnds
<1>2. base - r.hi \in Int /\ base - r.lo \in Int /\ base - r.hi <= base - r.lo
      /\ bl <= base - r.hi /\ base - r.lo <= bh
  BY <1>1 DEF Ends
<1>3. QED  BY <1>2, IntervalWithin DEF Mirror

\* The hulls of the operands from .. i, for every i up to to.
Hulls(v, in, from, to, g) ==
  g = [i \in from .. to |-> IF i = from THEN v[in[i]] ELSE Hull(g[i - 1], v[in[i]])]

LEMMA HullFits ==
  ASSUME NEW r \in Intervals, NEW s \in Intervals, NEW b \in Intervals, Within(r, b), Within(s, b)
  PROVE  Hull(r, s) \in Intervals /\ Within(Hull(r, s), b)
<1> DEFINE lo == Least(r.lo, s.lo)   hi == Greatest(r.hi, s.hi)
<1>1. b.lo \in Int /\ b.hi \in Int /\ Is(b, b.lo, b.hi)
  BY DEF Intervals, Is
<1>2. Ends(r, b.lo, b.hi) /\ Ends(s, b.lo, b.hi)
  BY <1>1, WithinEnds
<1>3. lo \in Int /\ hi \in Int /\ lo <= hi /\ b.lo <= lo /\ hi <= b.hi
  BY <1>1, <1>2 DEF Ends, Least, Greatest
<1>4. Hull(r, s) = Interval(lo, hi)
  BY DEF Hull
<1> HIDE DEF lo, hi
<1>5. QED  BY <1>1, <1>3, <1>4, IntervalWithin

LEMMA HullsFit ==
  ASSUME NEW v, NEW in, NEW from \in Int, NEW to \in Int, from <= to, NEW b \in Intervals,
         \A i \in from .. to : v[in[i]] \in Intervals /\ Within(v[in[i]], b)
  PROVE  HullOf(v, in, from, to) \in Intervals /\ Within(HullOf(v, in, from, to), b)
<1> DEFINE T == {m \in Nat : from + m <= to =>
                  \E g : /\ Hulls(v, in, from, from + m, g)
                         /\ \A i \in from .. from + m : g[i] \in Intervals /\ Within(g[i], b)}
<1>1. 0 \in T
  <2> DEFINE g == [i \in from .. from + 0 |-> v[in[i]]]
  <2>1. \A i \in from .. from + 0 : i = from /\ i \in from .. to
    OBVIOUS
  <2>2. Hulls(v, in, from, from + 0, g)
    BY <2>1 DEF Hulls
  <2>3. \A i \in from .. from + 0 : g[i] \in Intervals /\ Within(g[i], b)
    BY <2>1
  <2> HIDE DEF g
  <2>4. QED  BY <2>2, <2>3
<1>2. ASSUME NEW m \in Nat, m \in T PROVE m + 1 \in T
  <2>0. SUFFICES ASSUME from + (m + 1) <= to
                 PROVE  \E g : /\ Hulls(v, in, from, from + (m + 1), g)
                               /\ \A i \in from .. from + (m + 1) :
                                    g[i] \in Intervals /\ Within(g[i], b)
    OBVIOUS
  <2>1. PICK g : /\ Hulls(v, in, from, from + m, g)
                 /\ \A i \in from .. from + m : g[i] \in Intervals /\ Within(g[i], b)
    BY <1>2, <2>0
  <2> DEFINE e == from + (m + 1)
             new == Hull(g[from + m], v[in[e]])
             h == [i \in from .. e |-> IF i <= from + m THEN g[i] ELSE new]
  <2>2. e \in Int /\ e = from + m + 1 /\ e \in from .. to /\ from + m \in from .. from + m
    BY <2>0
  <2>3. new \in Intervals /\ Within(new, b)
    BY <2>1, <2>2, HullFits
  <2>4. \A i \in from .. from + m : h[i] = g[i]
    BY <2>2
  <2>5. h[e] = new /\ h = [i \in from .. e |-> h[i]]
    BY <2>2
  <2> HIDE DEF h
  <2>6. \A i \in from .. from + m : g[i] = IF i = from THEN v[in[i]] ELSE Hull(g[i - 1], v[in[i]])
    BY <2>1 DEF Hulls
  <2>7. ASSUME NEW i \in from .. e
        PROVE  h[i] = (IF i = from THEN v[in[i]] ELSE Hull(h[i - 1], v[in[i]]))
    <3>1. CASE i = e
      <4>1. i # from /\ i - 1 = from + m
        BY <3>1, <2>2
      <4>2. h[i] = new /\ h[i - 1] = g[from + m]
        BY <3>1, <4>1, <2>2, <2>4, <2>5
      <4>3. QED  BY <3>1, <4>1, <4>2
    <3>2. CASE i # e
      <4>1. i \in from .. from + m /\ (i # from => i - 1 \in from .. from + m)
        BY <3>2, <2>2
      <4>2. QED  BY <4>1, <2>4, <2>6
    <3>3. QED  BY <3>1, <3>2
  <2>8. \A i \in from .. e : h[i] \in Intervals /\ Within(h[i], b)
    <3>1. \A i \in from .. e : i = e \/ i \in from .. from + m
      BY <2>2
    <3>2. QED  BY <3>1, <2>1, <2>3, <2>4, <2>5
  <2> HIDE DEF e, new
  <2>9. Hulls(v, in, from, e, h)
    <3>1. h = [i \in from .. e |-> IF i = from THEN v[in[i]] ELSE Hull(h[i - 1], v[in[i]])]
      BY <2>5, <2>7
    <3>2. QED  BY <3>1 DEF Hulls
  <2>10. QED  BY <2>8, <2>9 DEF e
<1> HIDE DEF T
<1>3. Nat \subseteq T
  BY <1>1, <1>2, Induction
<1>4. to - from \in Nat /\ from + (to - from) = to
  OBVIOUS
<1>5. PICK g : /\ Hulls(v, in, from, to, g)
               /\ \A i \in from .. to : g[i] \in Intervals /\ Within(g[i], b)
  BY <1>3, <1>4 DEF T
<1> DEFINE h == CHOOSE f : Hulls(v, in, from, to, f)
<1>6. Hulls(v, in, from, to, h)
  BY <1>5
<1>7. HullOf(v, in, from, to) = h[to]
  BY DEF HullOf, Hulls
<1> HIDE DEF h
<1>8. \A i \in from .. to : h[i] = IF i = from THEN v[in[i]] ELSE Hull(h[i - 1], v[in[i]])
  BY <1>6 DEF Hulls
<1> DEFINE X == {m \in Nat : from + m <= to => h[from + m] \in Intervals /\ Within(h[from + m], b)}
<1>9. 0 \in X
  <2>1. from + 0 = from /\ from \in from .. to
    OBVIOUS
  <2>2. h[from] \in Intervals /\ Within(h[from], b)
    BY <2>1, <1>8
  <2>3. QED  BY <2>1, <2>2
<1>10. ASSUME NEW m \in Nat, m \in X PROVE m + 1 \in X
  <2>1. SUFFICES ASSUME from + (m + 1) <= to
                 PROVE  h[from + (m + 1)] \in Intervals /\ Within(h[from + (m + 1)], b)
    OBVIOUS
  <2> DEFINE e == from + (m + 1)
  <2>2. e \in from .. to /\ e # from /\ e - 1 = from + m /\ from + m <= to
    BY <2>1
  <2>3. h[e - 1] \in Intervals /\ Within(h[e - 1], b)
    BY <1>10, <2>2
  <2> HIDE DEF e
  <2>4. h[e] = Hull(h[e - 1], v[in[e]])
    BY <1>8, <2>2
  <2>5. h[e] \in Intervals /\ Within(h[e], b)
    BY <2>2, <2>3, <2>4, HullFits
  <2>6. QED  BY <2>5 DEF e
<1> HIDE DEF X
<1>11. Nat \subseteq X
  BY <1>9, <1>10, Induction
<1>12. QED  BY <1>4, <1>7, <1>11 DEF X

-------------------------------------------------------------------------------
(***************************************************************************)
(* The functions of poly.c.                                                *)
(***************************************************************************)
LEMMA HoldsOne ==
  ASSUME NEW x, NEW v \in Memories(x), NEW p, NEW b
  PROVE  /\ Holds(v, {Lies(p, b)}) <=> p \in DOMAIN v /\ Within(v[p], b)
         /\ Holds(v, {Lies(p, b)}) => v[p] \in Intervals
BY DEF Holds, Lies, Memories

LEMMA HoldsTwo ==
  ASSUME NEW x, NEW v \in Memories(x), NEW p, NEW a, NEW q, NEW b,
         Holds(v, {Lies(p, a), Lies(q, b)})
  PROVE  /\ v[p] \in Intervals /\ Within(v[p], a)
         /\ v[q] \in Intervals /\ Within(v[q], b)
BY DEF Holds, Lies, Memories

LEMMA ProduceRuns ==
  ASSUME NEW x, NEW R, NEW a, NEW r \in Intervals, NEW b, Within(r, b)
  PROVE  Fragment(x, <<Produce(a, r)>>, R, {Lies(a, b)})
<1> DEFINE s == Produce(a, r)
<1>1. s.kind = "work" /\ s.out = a /\ \A v : Result(s, v) = r
  BY DEF Produce, Work, Result
<1> HIDE DEF s
<1>2. QED  BY <1>1, WorkRuns DEF s

LEMMA WorkFields ==
  ASSUME NEW op, NEW out, NEW in, NEW arg
  PROVE  /\ Work(op, out, in, arg).kind = "work" /\ Work(op, out, in, arg).op = op
         /\ Work(op, out, in, arg).out = out /\ Work(op, out, in, arg).in = in
         /\ Work(op, out, in, arg).arg = arg
BY DEF Work

LEMMA ReduceRuns ==
  ASSUME NEW x, NEW a
  PROVE  Fragment(x, poly_reduce(a), {Lies(a, Reducible)}, {Lies(a, Reduced)})
<1> DEFINE s == Work("reduce", a, <<a>>, 0)
<1>1. s.kind = "work" /\ s.out = a /\ \A v : Result(s, v) = ReduceInterval(v[a])
  BY WorkFields DEF Result
<1> HIDE DEF s
<1>2. Fragment(x, <<s>>, {Lies(a, Reducible)}, {Lies(a, Reduced)})
  <2>1. ASSUME NEW v \in Memories(x), Holds(v, {Lies(a, Reducible)})
        PROVE  Result(s, v) \in Intervals /\ Within(Result(s, v), Reduced)
    BY <1>1, <2>1, HoldsOne, ReduceFits
  <2>2. QED  BY <1>1, <2>1, WorkRuns
<1>3. QED  BY <1>2, ContractRuns DEF poly_reduce, poly_reduce_h, s

LEMMA CaddqRuns ==
  ASSUME NEW x, NEW a
  PROVE  Fragment(x, poly_caddq(a), {Lies(a, BelowQ)}, {Lies(a, Canonical)})
<1> DEFINE s == Work("caddq", a, <<a>>, 0)
<1>1. s.kind = "work" /\ s.out = a /\ \A v : Result(s, v) = CaddqInterval(v[a])
  BY WorkFields DEF Result
<1> HIDE DEF s
<1>2. Fragment(x, <<s>>, {Lies(a, BelowQ)}, {Lies(a, Canonical)})
  <2>1. ASSUME NEW v \in Memories(x), Holds(v, {Lies(a, BelowQ)})
        PROVE  Result(s, v) \in Intervals /\ Within(Result(s, v), Canonical)
    BY <1>1, <2>1, HoldsOne, CaddqFits
  <2>2. QED  BY <1>1, <2>1, WorkRuns
<1>3. QED  BY <1>2, ContractRuns DEF poly_caddq, poly_caddq_h, s

LEMMA SubRuns ==
  ASSUME NEW x, NEW a, NEW b
  PROVE  Fragment(x, poly_sub(a, b), {Lies(a, BelowQ), Lies(b, BelowQ)}, {Lies(a, Reducible)})
<1> DEFINE s == Work("sub", a, <<a, b>>, 0)
<1>1. s.kind = "work" /\ s.out = a /\ \A v : Result(s, v) = SubInterval(v[a], v[b])
  BY WorkFields DEF Result
<1> HIDE DEF s
<1>2. Fragment(x, <<s>>, {Lies(a, BelowQ), Lies(b, BelowQ)}, {Lies(a, Reducible)})
  <2>1. ASSUME NEW v \in Memories(x), Holds(v, {Lies(a, BelowQ), Lies(b, BelowQ)})
        PROVE  Result(s, v) \in Intervals /\ Within(Result(s, v), Reducible)
    BY <1>1, <2>1, HoldsTwo, SubFits
  <2>2. QED  BY <1>1, <2>1, WorkRuns
<1>3. QED  BY <1>2, ContractRuns DEF poly_sub, poly_sub_h, s

LEMMA ShiftlRuns ==
  ASSUME NEW x, NEW a
  PROVE  Fragment(x, poly_shiftl(a), {Lies(a, T1Bound)}, {Lies(a, Canonical)})
<1> DEFINE s == Work("shiftl", a, <<a>>, 0)
<1>1. s.kind = "work" /\ s.out = a /\ \A v : Result(s, v) = ShiftlInterval(v[a])
  BY WorkFields DEF Result
<1> HIDE DEF s
<1>2. Fragment(x, <<s>>, {Lies(a, T1Bound)}, {Lies(a, Canonical)})
  <2>1. ASSUME NEW v \in Memories(x), Holds(v, {Lies(a, T1Bound)})
        PROVE  Result(s, v) \in Intervals /\ Within(Result(s, v), Canonical)
    BY <1>1, <2>1, HoldsOne, ShiftlFits
  <2>2. QED  BY <1>1, <2>1, WorkRuns
<1>3. QED  BY <1>2, ContractRuns DEF poly_shiftl, poly_shiftl_h, s

LEMMA NttRuns ==
  ASSUME NEW x, NEW a
  PROVE  Fragment(x, poly_ntt(a), {Lies(a, BelowQ)}, {Lies(a, NttOutput)})
<1> DEFINE s == Work("ntt", a, <<a>>, 0)
<1>1. s.kind = "work" /\ s.out = a /\ \A v : Result(s, v) = NttInterval(v[a])
  BY WorkFields DEF Result
<1> HIDE DEF s
<1>2. Fragment(x, <<s>>, {Lies(a, BelowQ)}, {Lies(a, NttOutput)})
  <2>1. ASSUME NEW v \in Memories(x), Holds(v, {Lies(a, BelowQ)})
        PROVE  Result(s, v) \in Intervals /\ Within(Result(s, v), NttOutput)
    BY <1>1, <2>1, HoldsOne, NttFits
  <2>2. QED  BY <1>1, <2>1, WorkRuns
<1>3. NttOutput \in Intervals /\ Within(NttOutput, NttOutput)
  BY FixedBounds, SMT DEF Is, Within
<1>4. Fragment(x, <<Produce(a, NttOutput)>>, {Lies(a, BelowQ)}, {Lies(a, NttOutput)})
  BY <1>3, ProduceRuns
<1>5. QED  BY <1>2, <1>4, ContractRuns DEF poly_ntt, poly_ntt_h, s

LEMMA PointwiseRuns ==
  ASSUME NEW x, NEW c, NEW a, NEW b
  PROVE  Fragment(x, poly_pointwise_montgomery(c, a, b),
                  {Lies(a, NttOutput), Lies(b, NttOutput)}, {Lies(c, BelowQ)})
<1> DEFINE s == Work("montgomery", c, <<a, b>>, 1)
<1>1. s.kind = "work" /\ s.out = c /\ \A v : Result(s, v) = MontgomeryInterval(1, v[a], v[b])
  BY WorkFields DEF Result
<1>2. 1 \in 1 .. 7
  OBVIOUS
<1> HIDE DEF s
<1>3. Fragment(x, <<s>>, {Lies(a, NttOutput), Lies(b, NttOutput)}, {Lies(c, BelowQ)})
  <2>1. ASSUME NEW v \in Memories(x), Holds(v, {Lies(a, NttOutput), Lies(b, NttOutput)})
        PROVE  Result(s, v) \in Intervals /\ Within(Result(s, v), BelowQ)
    BY <1>1, <1>2, <2>1, HoldsTwo, MontgomeryFits
  <2>2. QED  BY <1>1, <2>1, WorkRuns
<1>4. QED  BY <1>3, ContractRuns DEF poly_pointwise_montgomery, poly_pointwise_montgomery_h, s

\* The inverse NTT of the native code is exempt from its contract.
LEMMA InvnttRuns ==
  ASSUME NEW x, NEW a, Build, Native(x)
  PROVE  Fragment(x, poly_invntt_tomont(a), {Lies(a, BelowQ)},
                  {Lies(a, Interval(-par.intt, par.intt))})
<1> DEFINE r == Interval(-par.intt, par.intt)   ct == poly_invntt_tomont_h(a)
<1>1. Is(r, -par.intt, par.intt) /\ par.intt \in Int
  BY ParBounds DEF Build
<1>2. r \in Intervals /\ Within(r, r)
  BY <1>1 DEF Is, Within
<1>3. ASSUME ~x.native PROVE Within(r, InttOutput)
  <2>1. par.backend = "c"
    BY <1>3 DEF Native
  <2>2. 0 <= par.intt /\ par.intt < 4211139
    BY <2>1 DEF Build
  <2> HIDE DEF r
  <2>3. QED  BY <1>1, <2>2, FixedBounds, SMT DEF Is, Within
<1> HIDE DEF r
<1>4. Fragment(x, <<Produce(a, r)>>, {Lies(a, BelowQ)}, {Lies(a, r)})
  BY <1>2, ProduceRuns
<1>5. /\ ct.given = TRUE /\ ct.requires = {Lies(a, BelowQ)} /\ ct.sums = {}
      /\ ct.ensures = {Lies(a, InttOutput)}
  BY DEF poly_invntt_tomont_h, Contract
<1> HIDE DEF ct
<1>6. \A v, C : Holds(v, C) => Meets(v, C)
  BY DEF Holds, Meets
<1>7. ASSUME ~x.native, NEW w \in Memories(x), Holds(w, {Lies(a, r)}) PROVE Meets(w, ct.ensures)
  <2>1. a \in DOMAIN w /\ Within(w[a], r) /\ w[a] \in Intervals
    BY <1>7, HoldsOne
  <2>2. Within(w[a], InttOutput)
    BY <1>1, <1>3, <1>7, <2>1, FixedBounds, SMT DEF Is, Within, Intervals, r
  <2>3. QED  BY <2>1, <2>2, <1>5, <1>6, HoldsOne
<1>8. x.native \/ ~x.native
  OBVIOUS
<1>9. "poly_invntt_tomont" \in InverseNtts
  BY DEF InverseNtts
<1>10. Fragment(x, Function("poly_invntt_tomont", ct, <<Produce(a, r)>>), {Lies(a, BelowQ)},
               {Lies(a, r)})
  BY <1>4, <1>5, <1>6, <1>7, <1>9, FunctionRuns
<1>11. QED  BY <1>10 DEF poly_invntt_tomont, ct, r

LEMMA HoldsMeets == \A v, C : Holds(v, C) => Meets(v, C)
BY DEF Holds, Meets

LEMMA AddRuns ==
  ASSUME NEW x, NEW r, NEW b, NEW br, NEW bb,
         NEW al \in Int, NEW ah \in Int, Is(br, al, ah), NEW bl \in Int, NEW bh \in Int, Is(bb, bl, bh),
         Within(AddInterval(br, bb), Reducible)
  PROVE  Fragment(x, poly_add(r, b), {Lies(r, br), Lies(b, bb)}, {Lies(r, AddInterval(br, bb))})
<1> DEFINE s == Work("add", r, <<r, b>>, 0)   sum == AddInterval(br, bb)   R == {Lies(r, br), Lies(b, bb)}
           t == SumOf(<<r>>, <<b>>, Reducible)   ct == poly_add_h(r, b)
<1>1. s.kind = "work" /\ s.out = r /\ \A v : Result(s, v) = AddInterval(v[r], v[b])
  BY WorkFields DEF Result
<1> HIDE DEF s
<1>2. ASSUME NEW v \in Memories(x), Holds(v, R)
      PROVE  /\ v[r] \in Intervals /\ Within(v[r], br) /\ v[b] \in Intervals /\ Within(v[b], bb)
             /\ Ends(v[r], al, ah) /\ Ends(v[b], bl, bh)
  <2>1. v[r] \in Intervals /\ Within(v[r], br) /\ v[b] \in Intervals /\ Within(v[b], bb)
    BY <1>2, HoldsTwo
  <2>2. QED  BY <2>1, WithinEnds
<1>3. ASSUME NEW v \in Memories(x), Holds(v, R)
      PROVE  Result(s, v) \in Intervals /\ Within(Result(s, v), sum)
  <2>1. AddInterval(v[r], v[b]) \in Intervals /\ Within(AddInterval(v[r], v[b]), sum)
    BY <1>2, <1>3, AddFits
  <2>2. QED  BY <1>1, <2>1
<1> HIDE DEF R, sum
<1>4. Fragment(x, <<s>>, R, {Lies(r, sum)})
  <2>1. Fragment(x, <<s>>, R, {Lies(s.out, sum)})
    BY <1>1, <1>3, WorkRuns
  <2>2. QED  BY <1>1, <2>1
<1>5. /\ ct.given = TRUE /\ ct.requires = {} /\ ct.ensures = {Lies(r, Reducible)} /\ ct.sums = {t}
  BY DEF poly_add_h, WithSum, Contract
<1>6. t.left = <<r>> /\ t.right = <<b>> /\ t.bound = Reducible
  BY DEF SumOf
<1> HIDE DEF ct, t
<1>7. ASSUME NEW v \in Memories(x), Holds(v, R) PROVE SumsWithin(v, t)
  <2>1. Ends(v[r], al, ah) /\ Ends(v[b], bl, bh)
    BY <1>2, <1>7
  <2>2. Reducible.lo \in Int /\ Reducible.hi \in Int
    BY FixedBounds DEF Is, Intervals
  <2>3. v[r].lo >= Reducible.lo - v[b].lo /\ v[r].hi <= Reducible.hi - v[b].hi
    <3>1. Reducible.lo <= al + bl /\ ah + bh <= Reducible.hi
      BY DEF Is, AddInterval, Interval, Within
    <3>2. QED  BY <2>1, <2>2, <3>1, SMT DEF Ends
  <2>4. \A i \in DOMAIN t.left : t.left[i] = r /\ t.right[i] = b
    BY <1>6
  <2>5. \A i \in DOMAIN t.left :
          /\ v[t.left[i]].lo >= t.bound.lo - v[t.right[i]].lo
          /\ v[t.left[i]].hi <= t.bound.hi - v[t.right[i]].hi
    BY <2>3, <2>4, <1>6
  <2>6. QED  BY <2>5 DEF SumsWithin
<1>8. ASSUME NEW w \in Memories(x), Holds(w, {Lies(r, sum)}) PROVE Meets(w, ct.ensures)
  <2>1. r \in DOMAIN w /\ Within(w[r], sum) /\ w[r] \in Intervals
    BY <1>8, HoldsOne
  <2>2. Reducible \in Intervals /\ sum \in Intervals /\ Within(sum, Reducible)
    <3>1. al <= ah /\ bl <= bh
      BY DEF Is, Intervals
    <3>2. Is(sum, al + bl, ah + bh)
      BY <3>1, IsInterval DEF AddInterval, Is, sum
    <3>3. QED  BY <3>2, FixedBounds DEF Is, sum
  <2>3. Within(w[r], Reducible)
    BY <2>1, <2>2, SMT DEF Within, Intervals
  <2>4. QED  BY <2>1, <2>3, <1>5, HoldsOne, HoldsMeets
<1>9. \A v \in Memories(x) : Holds(v, R) =>
        Meets(v, ct.requires) /\ \A o \in ct.sums : SumsWithin(v, o)
  BY <1>5, <1>7 DEF Meets
<1>10. Fragment(x, Function("poly_add", ct, <<s>>), R, {Lies(r, sum)})
  BY <1>4, <1>5, <1>8, <1>9, FunctionRuns
<1>11. QED  BY <1>10 DEF poly_add, ct, s, R, sum

LEMMA Pair ==
  ASSUME NEW s, NEW t
  PROVE  <<s>> \o <<t>> = <<s, t>>
<1>1. <<s>> \in Seq({s, t}) /\ <<t>> \in Seq({s, t}) /\ Len(<<s>>) = 1 /\ Len(<<t>>) = 1
  OBVIOUS
<1>2. /\ <<s>> \o <<t>> \in Seq({s, t}) /\ Len(<<s>> \o <<t>>) = 2
      /\ (<<s>> \o <<t>>)[1] = s /\ (<<s>> \o <<t>>)[2] = t
  BY <1>1
<1>3. <<s, t>> \in Seq({s, t}) /\ Len(<<s, t>>) = 2 /\ <<s, t>>[1] = s /\ <<s, t>>[2] = t
  OBVIOUS
<1>4. <<s>> \o <<t>> = [i \in 1 .. 2 |-> (<<s>> \o <<t>>)[i]]
  BY <1>2
<1>5. <<s, t>> = [i \in 1 .. 2 |-> <<s, t>>[i]]
  BY <1>3
<1>6. \A i \in 1 .. 2 : (<<s>> \o <<t>>)[i] = <<s, t>>[i]
  <2>1. \A i \in 1 .. 2 : i = 1 \/ i = 2
    OBVIOUS
  <2>2. QED  BY <2>1, <1>2, <1>3
<1>7. QED  BY <1>4, <1>5, <1>6

\* Two results, one after the other.
LEMMA TwoRuns ==
  ASSUME NEW x, NEW s, NEW t, NEW R, NEW p, NEW a, NEW q, NEW b, p # q,
         Fragment(x, <<s>>, R, {Lies(p, a)}), Fragment(x, <<t>>, {}, {Lies(q, b)})
  PROVE  Fragment(x, <<s, t>>, R, {Lies(q, b), Lies(p, a)})
<1> DEFINE N1 == {Lies(p, a)}   N2 == {Lies(q, b)}   N == {Lies(q, b), Lies(p, a)}
<1>1. Touched(N1) = {p} /\ Touched(N2) = {q} /\ Touched(N) = {p, q}
  BY DEF Touched, Lies
<1>2. /\ \A w : Holds(w, N1) <=> p \in DOMAIN w /\ Within(w[p], a)
      /\ \A w : Holds(w, N2) <=> q \in DOMAIN w /\ Within(w[q], b)
      /\ \A w : Holds(w, N) <=> /\ p \in DOMAIN w /\ Within(w[p], a)
                                /\ q \in DOMAIN w /\ Within(w[q], b)
  BY DEF Holds, Lies
<1> HIDE DEF N1, N2, N
<1>3. ASSUME NEW u \in Memories(x), NEW v \in Memories(x), NEW w \in Memories(x),
             Holds(v, N1), Kept(u, v, N1), Holds(w, N2), Kept(v, w, N2)
      PROVE  Holds(w, N) /\ Kept(u, w, N)
  <2>1. DOMAIN u = x.polys /\ DOMAIN v = x.polys /\ DOMAIN w = x.polys
    BY DEF Memories
  <2>2. w[p] = v[p]
    BY <1>1, <1>2, <1>3 DEF Kept
  <2>3. Holds(w, N)
    BY <1>2, <1>3, <2>1, <2>2
  <2>4. Kept(u, w, N)
    BY <1>1, <1>3, <2>1 DEF Kept
  <2>5. QED  BY <2>3, <2>4
<1>4. \A v : Holds(v, {})
  BY DEF Holds
<1>5. Fragment(x, <<s>> \o <<t>>, R, N)
  BY <1>3, <1>4, FragmentConcat DEF N1, N2
<1>6. <<s>> \o <<t>> = <<s, t>>
  BY Pair
<1>7. QED  BY <1>5, <1>6 DEF N

LEMMA Power2RoundRuns ==
  ASSUME NEW x, NEW a1, NEW a0, NEW a, a1 # a0
  PROVE  Fragment(x, poly_power2round(a1, a0, a), {Lies(a, Canonical)},
                  {Lies(a0, T0Bound), Lies(a1, array_bound(0, ((Q - 1) \div 2 ^ D) + 1))})
<1> DEFINE s == Work("power2round", a1, <<a>>, 0)   t == Produce(a0, Power2RoundLow)
           high == array_bound(0, ((Q - 1) \div 2 ^ D) + 1)
<1>1. s.kind = "work" /\ s.out = a1 /\ \A v : Result(s, v) = Power2RoundHigh(v[a])
  BY WorkFields DEF Result
<1> HIDE DEF s
<1>2. ASSUME NEW v \in Memories(x), Holds(v, {Lies(a, Canonical)})
      PROVE  Result(s, v) \in Intervals /\ Within(Result(s, v), high)
  BY <1>1, <1>2, HoldsOne, Power2RoundFits
<1> HIDE DEF high
<1>3. Fragment(x, <<s>>, {Lies(a, Canonical)}, {Lies(a1, high)})
  BY <1>1, <1>2, WorkRuns
<1>4. Power2RoundLow \in Intervals /\ Within(Power2RoundLow, T0Bound)
  BY FixedBounds, SMT DEF Is, Within
<1>5. Fragment(x, <<t>>, {}, {Lies(a0, T0Bound)})
  BY <1>4, ProduceRuns
<1> HIDE DEF t
<1>6. Fragment(x, <<s, t>>, {Lies(a, Canonical)}, {Lies(a0, T0Bound), Lies(a1, high)})
  BY <1>3, <1>5, TwoRuns
<1>7. QED  BY <1>6, ContractRuns DEF poly_power2round, poly_power2round_h, s, t, high

LEMMA DecomposeRuns ==
  ASSUME NEW x, NEW a1, NEW a0, NEW a, a1 # a0, Build
  PROVE  Fragment(x, poly_decompose(a1, a0, a), {Lies(a, Canonical)},
                  {Lies(a1, HighBits), Lies(a0, LowBits)})
<1> DEFINE r1 == Interval(0, (Q - 1) \div (2 * GAMMA2) - 1)   r0 == Interval(-GAMMA2, GAMMA2)
           s == Produce(a1, r1)   t == Produce(a0, r0)
<1>1. GAMMA2 \in Int
  BY SMT DEF Build
<1>2. r1 \in Intervals /\ Within(r1, HighBits)
  <2>1. Is(r1, 0, IF GAMMA2 = 95232 THEN 43 ELSE 15)
        /\ Is(HighBits, 0, IF GAMMA2 = 95232 THEN 43 ELSE 15)
    BY ParBounds
  <2> HIDE DEF r1
  <2>2. QED  BY <2>1, SMT DEF Is, Within
<1>3. r0 \in Intervals /\ Within(r0, LowBits)
  <2>1. Is(r0, -GAMMA2, GAMMA2) /\ Is(LowBits, -GAMMA2, GAMMA2)
    BY ParBounds
  <2> HIDE DEF r0
  <2>2. QED  BY <1>1, <2>1, SMT DEF Is, Within
<1> HIDE DEF r1, r0
<1>4. Fragment(x, <<s>>, {Lies(a, Canonical)}, {Lies(a1, HighBits)})
  BY <1>2, ProduceRuns
<1>5. Fragment(x, <<t>>, {}, {Lies(a0, LowBits)})
  BY <1>3, ProduceRuns
<1> HIDE DEF s, t
<1>6. Fragment(x, <<s, t>>, {Lies(a, Canonical)}, {Lies(a0, LowBits), Lies(a1, HighBits)})
  BY <1>4, <1>5, TwoRuns
<1>7. {Lies(a0, LowBits), Lies(a1, HighBits)} = {Lies(a1, HighBits), Lies(a0, LowBits)}
  OBVIOUS
<1>8. QED  BY <1>6, <1>7, ContractRuns DEF poly_decompose, poly_decompose_h, s, t, r1, r0

\* Functions whose result does not depend on what they are given.
LEMMA FunctionProduces ==
  ASSUME NEW x, NEW fn, NEW R, NEW a, NEW r \in Intervals, NEW b, Within(r, b)
  PROVE  Fragment(x, Function(fn, Contract(R, {Lies(a, b)}), <<Produce(a, r)>>), R, {Lies(a, b)})
BY ProduceRuns, ContractRuns

LEMMA MakeHintRuns ==
  ASSUME NEW x, NEW h
  PROVE  Fragment(x, poly_make_hint(h), {}, {Lies(h, Bit)})
<1>1. Interval(0, 1) \in Intervals /\ Within(Interval(0, 1), Bit)
  BY FixedBounds, IntervalWithin, SMT
<1>2. QED  BY <1>1, FunctionProduces DEF poly_make_hint, poly_make_hint_h

LEMMA UseHintRuns ==
  ASSUME NEW x, NEW b, NEW a, NEW h, Build
  PROVE  Fragment(x, poly_use_hint(b, a, h), {Lies(a, Canonical), Lies(h, Bit)}, {Lies(b, HighBits)})
<1> DEFINE r == Interval(0, (Q - 1) \div (2 * GAMMA2) - 1)
<1>1. r \in Intervals /\ Within(r, HighBits)
  <2>1. Is(r, 0, IF GAMMA2 = 95232 THEN 43 ELSE 15)
        /\ Is(HighBits, 0, IF GAMMA2 = 95232 THEN 43 ELSE 15)
    BY ParBounds
  <2> HIDE DEF r
  <2>2. QED  BY <2>1, SMT DEF Is, Within
<1> HIDE DEF r
<1>2. QED  BY <1>1, FunctionProduces DEF poly_use_hint, poly_use_hint_h, r

LEMMA ChknormRuns ==
  ASSUME NEW x, NEW a, NEW b, NormBound(b)
  PROVE  Fragment(x, poly_chknorm(a, b), {Lies(a, Reduced)}, {})
<1> DEFINE ct == poly_chknorm_h(a, b)
<1>1. ct.given /\ ct.requires = {Lies(a, Reduced)} /\ ct.ensures = {} /\ ct.sums = {}
  BY DEF poly_chknorm_h, Given, Contract
<1> HIDE DEF ct
<1>2. \A w : Meets(w, {})
  BY DEF Meets
<1>3. Fragment(x, Function("poly_chknorm", ct, <<>>), {Lies(a, Reduced)}, {})
  BY <1>1, <1>2, NothingRuns, HoldsMeets, FunctionRuns
<1>4. QED  BY <1>3 DEF poly_chknorm, ct

LEMMA UniformRuns ==
  ASSUME NEW x, NEW a
  PROVE  /\ Fragment(x, poly_uniform(a), {}, {Lies(a, Canonical)})
         /\ Fragment(x, <<Produce(a, Interval(0, Q - 1))>>, {}, {Lies(a, Canonical)})
<1> DEFINE r == Interval(0, Q - 1)
<1>1. r \in Intervals /\ Within(r, Canonical)
  BY FixedBounds, SMT DEF Is, Within
<1> HIDE DEF r
<1>2. QED  BY <1>1, FunctionProduces, ProduceRuns DEF poly_uniform, poly_uniform_h, r

LEMMA EtaRuns ==
  ASSUME NEW x, NEW a, Build
  PROVE  Fragment(x, <<Produce(a, Interval(-ETA, ETA))>>, {}, {Lies(a, EtaBound)})
<1> DEFINE r == Interval(-ETA, ETA)
<1>1. Is(r, -ETA, ETA) /\ Is(EtaBound, -ETA, ETA)
  BY ParBounds
<1> HIDE DEF r
<1>2. ETA \in Int
  BY DEF Build
<1>3. r \in Intervals /\ Within(r, EtaBound)
  BY <1>1, <1>2 DEF Is, Within
<1>4. QED  BY <1>3, ProduceRuns DEF r

LEMMA HintBitRuns ==
  ASSUME NEW x, NEW a
  PROVE  Fragment(x, <<Produce(a, Interval(0, 1))>>, {}, {Lies(a, Bit)})
<1>1. Interval(0, 1) \in Intervals /\ Within(Interval(0, 1), Bit)
  BY FixedBounds, IntervalWithin, SMT
<1>2. QED  BY <1>1, ProduceRuns

LEMMA ChallengeRuns ==
  ASSUME NEW x, NEW c
  PROVE  Fragment(x, poly_challenge(c), {}, {Lies(c, array_bound(-1, 2))})
<1> DEFINE b == array_bound(-1, 2)
<1>1. Interval(-1, 1) \in Intervals /\ Within(Interval(-1, 1), b)
  BY FixedBounds, IntervalWithin, SMT
<1> HIDE DEF b
<1>2. QED  BY <1>1, FunctionProduces DEF poly_challenge, poly_challenge_h, b

LEMMA UnpackRuns ==
  ASSUME NEW x, NEW fn, NEW a, NEW base \in Int, NEW bits, NEW top \in Int, Is(Field(bits), 0, top),
         NEW b, NEW lo \in Int, NEW hi \in Int, Is(b, lo, hi), lo <= base - top, base <= hi
  PROVE  Fragment(x, Unpack(fn, Contract({}, {Lies(a, b)}), a, base, bits), {}, {Lies(a, b)})
<1> DEFINE r == Mirror(base, Field(bits))
<1>1. 0 <= top /\ Field(bits) \in Intervals /\ Within(Field(bits), Field(bits))
  BY DEF Is, Intervals, Within
<1>2. r \in Intervals /\ Within(r, b)
  BY <1>1, MirrorFits
<1> HIDE DEF r
<1>3. QED  BY <1>2, FunctionProduces DEF Unpack, r

\* Whatever the width of its fields, less than 2^20 is packed.
LEMMA WidestField == Is(Field(20), 0, 1048575)
BY IsInterval, PowersOfTwo DEF Field

LEMMA PackRuns ==
  ASSUME NEW x, NEW fn, NEW a, NEW base \in Int, NEW bits, NEW top \in Int, Is(Field(bits), 0, top),
         Within(Field(bits), Field(20)),
         NEW b, NEW lo \in Int, NEW hi \in Int, Is(b, lo, hi), 0 <= base - hi, base - lo <= top
  PROVE  Fragment(x, Pack(fn, Contract({Lies(a, b)}, {}), a, base, bits), {Lies(a, b)},
                  {Lies(Packed, Field(20))})
<1> DEFINE s == Work("mirror", Packed, <<a>>, base)   f == Field(bits)   wide == Field(20)
           ret == Return(fn, {Lies(Packed, f)})   R == {Lies(a, b)}   N == {Lies(Packed, wide)}
           ct == Contract(R, {})
<1>1. s.kind = "work" /\ s.out = Packed /\ \A v : Result(s, v) = Mirror(base, v[a])
  BY WorkFields DEF Result
<1> HIDE DEF s
<1>2. ASSUME NEW v \in Memories(x), Holds(v, R)
      PROVE  Result(s, v) \in Intervals /\ Within(Result(s, v), f)
  <2>1. v[a] \in Intervals /\ Within(v[a], b)
    BY <1>2, HoldsOne
  <2>2. QED  BY <1>1, <2>1, MirrorFits
<1> HIDE DEF R
<1>3. Fragment(x, <<s>>, R, {Lies(Packed, f)})
  BY <1>1, <1>2, WorkRuns
<1>4. Fragment(x, <<ret>>, {Lies(Packed, f)}, {})
  BY HoldsMeets, ReturnRuns
<1>5. f \in Intervals /\ wide \in Intervals /\ Within(f, wide)
  BY WidestField DEF Is
<1> HIDE DEF f, wide, ret
<1>6. \A r \in Intervals : Within(r, f) => Within(r, wide)
  BY <1>5 DEF Within, Intervals
<1>7. ASSUME NEW u \in Memories(x), NEW v \in Memories(x), NEW w \in Memories(x),
             Holds(v, {Lies(Packed, f)}), Kept(u, v, {Lies(Packed, f)}),
             Holds(w, {}), Kept(v, w, {})
      PROVE  Holds(w, N) /\ Kept(u, w, N)
  <2>1. Touched({Lies(Packed, f)}) = {Packed} /\ Touched(N) = {Packed} /\ Touched({}) = {}
    BY DEF Touched, Lies
  <2>2. DOMAIN u = x.polys /\ DOMAIN v = x.polys /\ DOMAIN w = x.polys
    BY DEF Memories
  <2>3. Packed \in DOMAIN v /\ Within(v[Packed], f) /\ v[Packed] \in Intervals
    BY <1>7, HoldsOne
  <2>4. w[Packed] = v[Packed]
    BY <1>7, <2>1, <2>3 DEF Kept
  <2>5. Holds(w, N)
    BY <1>6, <2>2, <2>3, <2>4, HoldsOne
  <2>6. Kept(u, w, N)
    BY <1>7, <2>1, <2>2 DEF Kept
  <2>7. QED  BY <2>5, <2>6
<1>8. Fragment(x, <<s>> \o <<ret>>, R, N)
  BY <1>3, <1>4, <1>7, FragmentConcat
<1>9. Fragment(x, <<s, ret>>, R, N)
  BY <1>8, Pair
<1> HIDE DEF N
<1>10. ct.given = TRUE /\ ct.requires = R /\ ct.ensures = {} /\ ct.sums = {}
  BY DEF Contract
<1> HIDE DEF ct
<1>11. \A w : Meets(w, {})
  BY DEF Meets
<1>12. Fragment(x, Function(fn, ct, <<s, ret>>), R, N)
  BY <1>9, <1>10, <1>11, HoldsMeets, FunctionRuns
<1>13. QED  BY <1>12 DEF Pack, ct, s, ret, f, wide, R, N

LEMMA PackPlainRuns ==
  ASSUME NEW x, NEW fn, NEW a, NEW b \in Intervals, NEW bits, Field(bits) \in Intervals,
         Within(b, Field(bits))
  PROVE  Fragment(x, PackPlain(fn, Contract({Lies(a, b)}, {}), a, bits), {Lies(a, b)}, {})
<1> DEFINE f == Field(bits)   R == {Lies(a, b)}   ct == Contract(R, {})
           ret == Return(fn, {Lies(a, f)})
<1> HIDE DEF f
<1>1. ASSUME NEW v \in Memories(x), Holds(v, R) PROVE Meets(v, {Lies(a, f)})
  <2>1. a \in DOMAIN v /\ Within(v[a], b) /\ v[a] \in Intervals
    BY <1>1, HoldsOne
  <2>2. Within(v[a], f)
    BY <2>1 DEF Within, Intervals, f
  <2>3. QED  BY <2>1, <2>2, HoldsOne, HoldsMeets
<1> HIDE DEF R
<1>2. Fragment(x, <<ret>>, R, {})
  BY <1>1, ReturnRuns
<1> HIDE DEF ret
<1>3. Fragment(x, Function(fn, ct, <<ret>>), R, {})
  BY <1>2, ContractRuns
<1>4. QED  BY <1>3 DEF PackPlain, ct, ret, f, R

LEMMA PackedPolynomials ==
  ASSUME NEW x, NEW a, Build
  PROVE  /\ Fragment(x, polyeta_pack(a), {Lies(a, EtaBound)}, {Lies(Packed, Field(20))})
         /\ Fragment(x, polyt0_pack(a), {Lies(a, T0Bound)}, {Lies(Packed, Field(20))})
         /\ Fragment(x, polyz_pack(a), {Lies(a, ZBound)}, {Lies(Packed, Field(20))})
<1>1. ETA \in {2, 4} /\ GAMMA1 \in {131072, 524288}
  BY DEF Build
<1>2. \A bits : \A top \in Int : Is(Field(bits), 0, top) /\ top <= 1048575
                                   => Within(Field(bits), Field(20))
  BY WidestField, SMT DEF Is, Within
<1>3. Fragment(x, polyeta_pack(a), {Lies(a, EtaBound)}, {Lies(Packed, Field(20))})
  <2> DEFINE top == IF ETA = 2 THEN 7 ELSE 15
  <2>1. Is(Field(EtaBits), 0, top) /\ Is(EtaBound, -ETA, ETA)
    BY ParBounds
  <2>2. top \in Int /\ top <= 1048575 /\ ETA \in Int /\ -ETA \in Int /\ 0 <= ETA - ETA
        /\ ETA - (-ETA) <= top
    BY <1>1, SMT
  <2> HIDE DEF top
  <2>3. Within(Field(EtaBits), Field(20))
    BY <1>2, <2>1, <2>2
  <2>4. QED  BY <2>1, <2>2, <2>3, PackRuns DEF polyeta_pack, polyeta_pack_h
<1>4. Fragment(x, polyt0_pack(a), {Lies(a, T0Bound)}, {Lies(Packed, Field(20))})
  <2> DEFINE base == 2 ^ (D - 1)
  <2>1. Is(Field(13), 0, 8191) /\ Is(T0Bound, -4095, 4096)
    BY FixedBounds
  <2>2. Within(Field(13), Field(20))
    BY <1>2, <2>1, SMT
  <2>3. base = 4096
    BY PowersOfTwo
  <2> HIDE DEF base
  <2>4. base \in Int /\ 0 <= base - 4096 /\ base - (-4095) <= 8191 /\ -4095 \in Int
    BY <2>3, SMT
  <2>5. QED  BY <2>1, <2>2, <2>4, PackRuns DEF polyt0_pack, polyt0_pack_h, base
<1>5. Fragment(x, polyz_pack(a), {Lies(a, ZBound)}, {Lies(Packed, Field(20))})
  <2> DEFINE top == 2 * GAMMA1 - 1
  <2>1. Is(Field(ZBits), 0, top) /\ Is(ZBound, -GAMMA1 + 1, GAMMA1)
    BY ParBounds
  <2>2. top \in Int /\ top <= 1048575 /\ GAMMA1 \in Int /\ -GAMMA1 + 1 \in Int
        /\ 0 <= GAMMA1 - GAMMA1 /\ GAMMA1 - (-GAMMA1 + 1) <= top
    BY <1>1, SMT
  <2> HIDE DEF top
  <2>3. Within(Field(ZBits), Field(20))
    BY <1>2, <2>1, <2>2, SMT
  <2>4. QED  BY <2>1, <2>2, <2>3, PackRuns DEF polyz_pack, polyz_pack_h
<1>6. QED  BY <1>3, <1>4, <1>5

LEMMA UnpackedPolynomials ==
  ASSUME NEW x, NEW a, Build
  PROVE  /\ Fragment(x, polyeta_unpack(a), {}, {Lies(a, UnpackedEta)})
         /\ Fragment(x, polyt0_unpack(a), {}, {Lies(a, T0Bound)})
         /\ Fragment(x, polyz_unpack(a), {}, {Lies(a, ZBound)})
         /\ Fragment(x, polyt1_unpack(a), {}, {Lies(a, T1Bound)})
<1>1. ETA \in {2, 4} /\ GAMMA1 \in {131072, 524288}
  BY DEF Build
<1>2. Fragment(x, polyeta_unpack(a), {}, {Lies(a, UnpackedEta)})
  <2> DEFINE top == IF ETA = 2 THEN 7 ELSE 15   lo == IF ETA = 2 THEN -5 ELSE -11
  <2>1. Is(Field(EtaBits), 0, top) /\ Is(UnpackedEta, lo, ETA)
    BY ParBounds
  <2>2. top \in Int /\ lo \in Int /\ ETA \in Int /\ lo <= ETA - top /\ ETA <= ETA
    BY <1>1, SMT
  <2> HIDE DEF top, lo
  <2>3. QED  BY <2>1, <2>2, UnpackRuns DEF polyeta_unpack, polyeta_unpack_h
<1>3. Fragment(x, polyt0_unpack(a), {}, {Lies(a, T0Bound)})
  <2> DEFINE base == 2 ^ (D - 1)
  <2>1. Is(Field(13), 0, 8191) /\ Is(T0Bound, -4095, 4096)
    BY FixedBounds
  <2>2. base = 4096
    BY PowersOfTwo
  <2> HIDE DEF base
  <2>3. base \in Int /\ -4095 \in Int /\ -4095 <= base - 8191 /\ base <= 4096
    BY <2>2, SMT
  <2>4. QED  BY <2>1, <2>3, UnpackRuns DEF polyt0_unpack, polyt0_unpack_h, base
<1>4. Fragment(x, polyz_unpack(a), {}, {Lies(a, ZBound)})
  <2> DEFINE top == 2 * GAMMA1 - 1   lo == -GAMMA1 + 1
  <2>1. Is(Field(ZBits), 0, top) /\ Is(ZBound, lo, GAMMA1)
    BY ParBounds
  <2>2. top \in Int /\ lo \in Int /\ GAMMA1 \in Int /\ lo <= GAMMA1 - top /\ GAMMA1 <= GAMMA1
    BY <1>1, SMT
  <2> HIDE DEF top, lo
  <2>3. QED  BY <2>1, <2>2, UnpackRuns DEF polyz_unpack, polyz_unpack_h
<1>5. Fragment(x, polyt1_unpack(a), {}, {Lies(a, T1Bound)})
  <2>1. Field(10) \in Intervals /\ Within(Field(10), T1Bound)
    BY FixedBounds, SMT DEF Is, Within
  <2>2. QED  BY <2>1, FunctionProduces DEF polyt1_unpack, polyt1_unpack_h
<1>6. QED  BY <1>2, <1>3, <1>4, <1>5

LEMMA PlainPolynomials ==
  ASSUME NEW x, NEW a, Build
  PROVE  /\ Fragment(x, polyt1_pack(a), {Lies(a, T1Bound)}, {})
         /\ Fragment(x, polyw1_pack(a), {Lies(a, HighBits)}, {})
<1>1. Fragment(x, polyt1_pack(a), {Lies(a, T1Bound)}, {})
  <2>1. T1Bound \in Intervals /\ Field(10) \in Intervals /\ Within(T1Bound, Field(10))
    BY FixedBounds, SMT DEF Is, Within
  <2>2. QED  BY <2>1, PackPlainRuns DEF polyt1_pack, polyt1_pack_h
<1>2. Fragment(x, polyw1_pack(a), {Lies(a, HighBits)}, {})
  <2>1. Is(Field(W1Bits), 0, IF GAMMA2 = 95232 THEN 63 ELSE 15)
        /\ Is(HighBits, 0, IF GAMMA2 = 95232 THEN 43 ELSE 15)
    BY ParBounds
  <2>2. HighBits \in Intervals /\ Field(W1Bits) \in Intervals /\ Within(HighBits, Field(W1Bits))
    BY <2>1, SMT DEF Is, Within
  <2>3. QED  BY <2>2, PackPlainRuns DEF polyw1_pack, polyw1_pack_h
<1>3. QED  BY <1>1, <1>2

LEMMA Gamma1Runs ==
  ASSUME NEW x, NEW a, Build
  PROVE  Fragment(x, poly_uniform_gamma1(a), {}, {Lies(a, ZBound)})
BY UnpackedPolynomials, ContractRuns DEF poly_uniform_gamma1, poly_uniform_gamma1_h

-------------------------------------------------------------------------------
(***************************************************************************)
(* The vectors of sign.c, by name: where their polynomials are, and slots, *)
(* which put a bound on all polynomials of one vector.                     *)
(***************************************************************************)
Length(name) ==
  IF name = "mat" THEN K * L
  ELSE IF name \in {"cp", "field"} THEN 1
  ELSE IF name \in {"s1", "s1hat", "y", "z"} THEN L ELSE K

Place(name) == Vector(name, Length(name))

Slot(name, b) == [name |-> name, vec |-> Place(name), bound |-> b]

AreSlots(ES) == \A q \in ES : q.vec = Place(q.name)

LEMMA LengthIsNat ==
  ASSUME Build
  PROVE  /\ K \in 1 .. 8 /\ L \in 1 .. 7 /\ K * L \in {16, 30, 56}
         /\ \A n : Length(n) \in Nat
<1>1. K \in 1 .. 8 /\ L \in 1 .. 7
  BY DEF Build
<1>2. K * L \in {16, 30, 56}
  <2>1. CASE K = 4 /\ L = 4
    BY <2>1, SMT
  <2>2. CASE K = 6 /\ L = 5
    BY <2>2, SMT
  <2>3. CASE K = 8 /\ L = 7
    BY <2>3, SMT
  <2>4. QED  BY <2>1, <2>2, <2>3 DEF Build
<1>3. \A n : Length(n) \in {K * L, 1, L, K}
  BY DEF Length
<1>4. QED  BY <1>1, <1>2, <1>3

LEMMA PlaceFields ==
  ASSUME Build, NEW n
  PROVE  /\ DOMAIN Place(n) = 1 .. Length(n)
         /\ \A i \in 1 .. Length(n) : Place(n)[i] = <<n, i - 1>>
BY LengthIsNat DEF Place, Vector

LEMMA PlacesApart ==
  ASSUME Build, NEW m, NEW n, NEW i \in 1 .. Length(m), NEW j \in 1 .. Length(n),
         Place(m)[i] = Place(n)[j]
  PROVE  m = n /\ i = j
<1>1. <<m, i - 1>> = <<n, j - 1>>
  BY PlaceFields
<1>2. m = n /\ i - 1 = j - 1
  BY <1>1
<1>3. QED  BY <1>2, LengthIsNat

LEMMA SlotFields ==
  \A n, b : Slot(n, b).name = n /\ Slot(n, b).vec = Place(n) /\ Slot(n, b).bound = b
BY DEF Slot

LEMMA NoSlot == AllOf({}) = {} /\ \A i : At({}, i) = {}
BY DEF AllOf, At

LEMMA OneSlot ==
  ASSUME NEW n, NEW b
  PROVE  /\ AllOf({Slot(n, b)}) = {All(Place(n), b)}
         /\ \A i : At({Slot(n, b)}, i) = {Lies(Place(n)[i], b)}
BY SlotFields DEF AllOf, At

\* A loop over named vectors of the same length.
LEMMA SlotLoop ==
  ASSUME Build, NEW x, NEW fs, NEW len \in Nat, fs = [i \in 1 .. len |-> fs[i]], NEW RS, NEW NS,
         AreSlots(RS), AreSlots(NS),
         \A q \in RS : Length(q.name) = len, \A q \in NS : Length(q.name) = len,
         \A i \in 1 .. len : Fragment(x, fs[i], At(RS, i), At(NS, i)),
         \A o, q \in NS : o.name = q.name => o.bound = q.bound
  PROVE  Fragment(x, FlattenSeq(fs), AllOf(RS), AllOf(NS))
<1>1. /\ \A q \in RS : q.vec = Place(q.name) /\ DOMAIN q.vec = 1 .. len
      /\ \A q \in NS : q.vec = Place(q.name) /\ DOMAIN q.vec = 1 .. len
  BY PlaceFields DEF AreSlots
<1>2. \A q \in RS : \A o \in NS : \A i, j \in 1 .. len : j < i => q.vec[i] # o.vec[j]
  <2>1. ASSUME NEW q \in RS, NEW o \in NS, NEW i \in 1 .. len, NEW j \in 1 .. len,
               q.vec[i] = o.vec[j]
        PROVE  i = j
    BY <2>1, <1>1, PlacesApart
  <2>2. QED  BY <2>1
<1>3. \A o, q \in NS : \A i, j \in 1 .. len : o.vec[i] = q.vec[j] => o.bound = q.bound
  BY <1>1, PlacesApart
<1>4. QED  BY <1>1, <1>2, <1>3, VectorLoop

\* Its shapes: how many vectors it reads and writes.
LEMMA LoopUpdates ==
  ASSUME Build, NEW x, NEW fs, NEW n, NEW a, NEW m, NEW b, Length(m) = Length(n),
         fs = [i \in 1 .. Length(n) |-> fs[i]],
         \A i \in 1 .. Length(n) :
           Fragment(x, fs[i], {Lies(Place(n)[i], a)}, {Lies(Place(m)[i], b)})
  PROVE  Fragment(x, FlattenSeq(fs), {All(Place(n), a)}, {All(Place(m), b)})
<1> DEFINE RS == {Slot(n, a)}   NS == {Slot(m, b)}
<1>1. /\ AllOf(RS) = {All(Place(n), a)} /\ AllOf(NS) = {All(Place(m), b)}
      /\ \A i : At(RS, i) = {Lies(Place(n)[i], a)} /\ At(NS, i) = {Lies(Place(m)[i], b)}
  BY OneSlot
<1>2. /\ AreSlots(RS) /\ AreSlots(NS)
      /\ \A q \in RS : Length(q.name) = Length(n)
      /\ \A q \in NS : Length(q.name) = Length(n)
      /\ \A o, q \in NS : o.name = q.name => o.bound = q.bound
  BY SlotFields DEF AreSlots
<1> HIDE DEF RS, NS
<1>3. \A i \in 1 .. Length(n) : Fragment(x, fs[i], At(RS, i), At(NS, i))
  BY <1>1
<1>4. Length(n) \in Nat
  BY LengthIsNat
<1>5. Fragment(x, FlattenSeq(fs), AllOf(RS), AllOf(NS))
  BY <1>2, <1>3, <1>4, SlotLoop
<1>6. QED  BY <1>1, <1>5

LEMMA LoopReads ==
  ASSUME Build, NEW x, NEW fs, NEW n, NEW a,
         fs = [i \in 1 .. Length(n) |-> fs[i]],
         \A i \in 1 .. Length(n) : Fragment(x, fs[i], {Lies(Place(n)[i], a)}, {})
  PROVE  Fragment(x, FlattenSeq(fs), {All(Place(n), a)}, {})
<1> DEFINE RS == {Slot(n, a)}
<1>1. /\ AllOf(RS) = {All(Place(n), a)} /\ AllOf({}) = {}
      /\ \A i : At(RS, i) = {Lies(Place(n)[i], a)} /\ At({}, i) = {}
  BY OneSlot, NoSlot
<1>2. /\ AreSlots(RS) /\ AreSlots({}) /\ \A q \in RS : Length(q.name) = Length(n)
  BY SlotFields DEF AreSlots
<1> HIDE DEF RS
<1>3. \A i \in 1 .. Length(n) : Fragment(x, fs[i], At(RS, i), At({}, i))
  BY <1>1
<1>4. Length(n) \in Nat
  BY LengthIsNat
<1>5. Fragment(x, FlattenSeq(fs), AllOf(RS), AllOf({}))
  BY <1>2, <1>3, <1>4, SlotLoop
<1>6. QED  BY <1>1, <1>5

LEMMA LoopWrites ==
  ASSUME Build, NEW x, NEW fs, NEW n, NEW b,
         fs = [i \in 1 .. Length(n) |-> fs[i]],
         \A i \in 1 .. Length(n) : Fragment(x, fs[i], {}, {Lies(Place(n)[i], b)})
  PROVE  Fragment(x, FlattenSeq(fs), {}, {All(Place(n), b)})
<1> DEFINE NS == {Slot(n, b)}
<1>1. /\ AllOf(NS) = {All(Place(n), b)} /\ AllOf({}) = {}
      /\ \A i : At(NS, i) = {Lies(Place(n)[i], b)} /\ At({}, i) = {}
  BY OneSlot, NoSlot
<1>2. /\ AreSlots(NS) /\ AreSlots({}) /\ \A q \in NS : Length(q.name) = Length(n)
      /\ \A o, q \in NS : o.name = q.name => o.bound = q.bound
  BY SlotFields DEF AreSlots
<1> HIDE DEF NS
<1>3. \A i \in 1 .. Length(n) : Fragment(x, fs[i], At({}, i), At(NS, i))
  BY <1>1
<1>4. Length(n) \in Nat
  BY LengthIsNat
<1>5. Fragment(x, FlattenSeq(fs), AllOf({}), AllOf(NS))
  BY <1>2, <1>3, <1>4, SlotLoop
<1>6. QED  BY <1>1, <1>5

LEMMA LoopCombines ==
  ASSUME Build, NEW x, NEW fs, NEW n, NEW a, NEW m, NEW b, NEW t, NEW c,
         Length(m) = Length(n), Length(t) = Length(n),
         fs = [i \in 1 .. Length(n) |-> fs[i]],
         \A i \in 1 .. Length(n) :
           Fragment(x, fs[i], {Lies(Place(n)[i], a), Lies(Place(m)[i], b)}, {Lies(Place(t)[i], c)})
  PROVE  Fragment(x, FlattenSeq(fs), {All(Place(n), a), All(Place(m), b)}, {All(Place(t), c)})
<1> DEFINE RS == {Slot(n, a), Slot(m, b)}   NS == {Slot(t, c)}
<1>1. /\ AllOf(RS) = {All(Place(n), a), All(Place(m), b)} /\ AllOf(NS) = {All(Place(t), c)}
      /\ \A i : At(RS, i) = {Lies(Place(n)[i], a), Lies(Place(m)[i], b)}
      /\ \A i : At(NS, i) = {Lies(Place(t)[i], c)}
  <2>1. /\ AllOf(RS) = {All(Place(n), a), All(Place(m), b)}
        /\ \A i : At(RS, i) = {Lies(Place(n)[i], a), Lies(Place(m)[i], b)}
    <3>1. AllOf(RS) = {All(Place(n), a), All(Place(m), b)}
      BY SlotFields DEF AllOf
    <3>2. ASSUME NEW i PROVE At(RS, i) = {Lies(Place(n)[i], a), Lies(Place(m)[i], b)}
      BY SlotFields DEF At
    <3>3. QED  BY <3>1, <3>2
  <2>2. AllOf(NS) = {All(Place(t), c)} /\ \A i : At(NS, i) = {Lies(Place(t)[i], c)}
    BY OneSlot
  <2>3. QED  BY <2>1, <2>2
<1>2. /\ AreSlots(RS) /\ AreSlots(NS)
      /\ \A q \in RS : Length(q.name) = Length(n)
      /\ \A q \in NS : Length(q.name) = Length(n)
      /\ \A o, q \in NS : o.name = q.name => o.bound = q.bound
  BY SlotFields DEF AreSlots
<1> HIDE DEF RS, NS
<1>3. \A i \in 1 .. Length(n) : Fragment(x, fs[i], At(RS, i), At(NS, i))
  BY <1>1
<1>4. Length(n) \in Nat
  BY LengthIsNat
<1>5. Fragment(x, FlattenSeq(fs), AllOf(RS), AllOf(NS))
  BY <1>2, <1>3, <1>4, SlotLoop
<1>6. QED  BY <1>1, <1>5

LEMMA LoopSplits ==
  ASSUME Build, NEW x, NEW fs, NEW n, NEW a, NEW m, NEW b, NEW t, NEW c,
         Length(m) = Length(n), Length(t) = Length(n), m # t,
         fs = [i \in 1 .. Length(n) |-> fs[i]],
         \A i \in 1 .. Length(n) :
           Fragment(x, fs[i], {Lies(Place(n)[i], a)}, {Lies(Place(m)[i], b), Lies(Place(t)[i], c)})
  PROVE  Fragment(x, FlattenSeq(fs), {All(Place(n), a)}, {All(Place(m), b), All(Place(t), c)})
<1> DEFINE RS == {Slot(n, a)}   NS == {Slot(m, b), Slot(t, c)}
<1>1. /\ AllOf(RS) = {All(Place(n), a)} /\ AllOf(NS) = {All(Place(m), b), All(Place(t), c)}
      /\ \A i : At(RS, i) = {Lies(Place(n)[i], a)}
      /\ \A i : At(NS, i) = {Lies(Place(m)[i], b), Lies(Place(t)[i], c)}
  <2>1. AllOf(RS) = {All(Place(n), a)} /\ \A i : At(RS, i) = {Lies(Place(n)[i], a)}
    BY OneSlot
  <2>2. /\ AllOf(NS) = {All(Place(m), b), All(Place(t), c)}
        /\ \A i : At(NS, i) = {Lies(Place(m)[i], b), Lies(Place(t)[i], c)}
    <3>1. AllOf(NS) = {All(Place(m), b), All(Place(t), c)}
      BY SlotFields DEF AllOf
    <3>2. ASSUME NEW i PROVE At(NS, i) = {Lies(Place(m)[i], b), Lies(Place(t)[i], c)}
      BY SlotFields DEF At
    <3>3. QED  BY <3>1, <3>2
  <2>3. QED  BY <2>1, <2>2
<1>2. /\ AreSlots(RS) /\ AreSlots(NS)
      /\ \A q \in RS : Length(q.name) = Length(n)
      /\ \A q \in NS : Length(q.name) = Length(n)
      /\ \A o, q \in NS : o.name = q.name => o.bound = q.bound
  BY SlotFields DEF AreSlots
<1> HIDE DEF RS, NS
<1>3. \A i \in 1 .. Length(n) : Fragment(x, fs[i], At(RS, i), At(NS, i))
  BY <1>1
<1>4. Length(n) \in Nat
  BY LengthIsNat
<1>5. Fragment(x, FlattenSeq(fs), AllOf(RS), AllOf(NS))
  BY <1>2, <1>3, <1>4, SlotLoop
<1>6. QED  BY <1>1, <1>5

LEMMA VectorReduceRuns ==
  ASSUME Build, NEW x, NEW n
  PROVE  /\ Fragment(x, polyvecl_reduce(Place(n)), {All(Place(n), Reducible)},
                     {All(Place(n), Reduced)})
         /\ Fragment(x, polyveck_reduce(Place(n)), {All(Place(n), Reducible)},
                     {All(Place(n), Reduced)})
<1> DEFINE fs == [i \in DOMAIN Place(n) |-> poly_reduce(Place(n)[i])]
<1>1. /\ fs = [i \in 1 .. Length(n) |-> fs[i]]
      /\ \A i \in 1 .. Length(n) : fs[i] = poly_reduce(Place(n)[i])
      /\ Each(Place(n), poly_reduce) = FlattenSeq(fs)
  BY PlaceFields DEF Each
<1> HIDE DEF fs
<1>2. \A i \in 1 .. Length(n) :
        Fragment(x, fs[i], {Lies(Place(n)[i], Reducible)}, {Lies(Place(n)[i], Reduced)})
  BY <1>1, ReduceRuns
<1>3. Fragment(x, FlattenSeq(fs), {All(Place(n), Reducible)}, {All(Place(n), Reduced)})
  BY <1>1, <1>2, LoopUpdates
<1>4. QED
  BY <1>1, <1>3, ContractRuns
  DEF polyvecl_reduce, polyveck_reduce, polyvecl_reduce_h, polyveck_reduce_h

LEMMA VectorCaddqRuns ==
  ASSUME Build, NEW x, NEW n
  PROVE  Fragment(x, polyveck_caddq(Place(n)), {All(Place(n), BelowQ)}, {All(Place(n), Canonical)})
<1> DEFINE fs == [i \in DOMAIN Place(n) |-> poly_caddq(Place(n)[i])]
<1>1. /\ fs = [i \in 1 .. Length(n) |-> fs[i]]
      /\ \A i \in 1 .. Length(n) : fs[i] = poly_caddq(Place(n)[i])
      /\ Each(Place(n), poly_caddq) = FlattenSeq(fs)
  BY PlaceFields DEF Each
<1> HIDE DEF fs
<1>2. \A i \in 1 .. Length(n) :
        Fragment(x, fs[i], {Lies(Place(n)[i], BelowQ)}, {Lies(Place(n)[i], Canonical)})
  BY <1>1, CaddqRuns
<1>3. Fragment(x, FlattenSeq(fs), {All(Place(n), BelowQ)}, {All(Place(n), Canonical)})
  BY <1>1, <1>2, LoopUpdates
<1>4. QED
  BY <1>1, <1>3, ContractRuns
  DEF polyveck_caddq, polyveck_caddq_h

LEMMA VectorShiftlRuns ==
  ASSUME Build, NEW x, NEW n
  PROVE  Fragment(x, polyveck_shiftl(Place(n)), {All(Place(n), T1Bound)}, {All(Place(n), Canonical)})
<1> DEFINE fs == [i \in DOMAIN Place(n) |-> poly_shiftl(Place(n)[i])]
<1>1. /\ fs = [i \in 1 .. Length(n) |-> fs[i]]
      /\ \A i \in 1 .. Length(n) : fs[i] = poly_shiftl(Place(n)[i])
      /\ Each(Place(n), poly_shiftl) = FlattenSeq(fs)
  BY PlaceFields DEF Each
<1> HIDE DEF fs
<1>2. \A i \in 1 .. Length(n) :
        Fragment(x, fs[i], {Lies(Place(n)[i], T1Bound)}, {Lies(Place(n)[i], Canonical)})
  BY <1>1, ShiftlRuns
<1>3. Fragment(x, FlattenSeq(fs), {All(Place(n), T1Bound)}, {All(Place(n), Canonical)})
  BY <1>1, <1>2, LoopUpdates
<1>4. QED
  BY <1>1, <1>3, ContractRuns
  DEF polyveck_shiftl, polyveck_shiftl_h

LEMMA VectorNttRuns ==
  ASSUME Build, NEW x, NEW n
  PROVE  /\ Fragment(x, polyvecl_ntt(Place(n)), {All(Place(n), BelowQ)}, {All(Place(n), NttOutput)})
         /\ Fragment(x, polyveck_ntt(Place(n)), {All(Place(n), BelowQ)}, {All(Place(n), NttOutput)})
<1> DEFINE fs == [i \in DOMAIN Place(n) |-> poly_ntt(Place(n)[i])]
<1>1. /\ fs = [i \in 1 .. Length(n) |-> fs[i]]
      /\ \A i \in 1 .. Length(n) : fs[i] = poly_ntt(Place(n)[i])
      /\ Each(Place(n), poly_ntt) = FlattenSeq(fs)
  BY PlaceFields DEF Each
<1> HIDE DEF fs
<1>2. \A i \in 1 .. Length(n) :
        Fragment(x, fs[i], {Lies(Place(n)[i], BelowQ)}, {Lies(Place(n)[i], NttOutput)})
  BY <1>1, NttRuns
<1>3. Fragment(x, FlattenSeq(fs), {All(Place(n), BelowQ)}, {All(Place(n), NttOutput)})
  BY <1>1, <1>2, LoopUpdates
<1>4. QED
  BY <1>1, <1>3, ContractRuns
  DEF polyvecl_ntt, polyveck_ntt, polyvecl_ntt_h, polyveck_ntt_h

LEMMA VectorMakeHintRuns ==
  ASSUME Build, NEW x, NEW n
  PROVE  Fragment(x, polyveck_make_hint(Place(n)), {}, {All(Place(n), Bit)})
<1> DEFINE fs == [i \in DOMAIN Place(n) |-> poly_make_hint(Place(n)[i])]
<1>1. /\ fs = [i \in 1 .. Length(n) |-> fs[i]]
      /\ \A i \in 1 .. Length(n) : fs[i] = poly_make_hint(Place(n)[i])
      /\ Each(Place(n), poly_make_hint) = FlattenSeq(fs)
  BY PlaceFields DEF Each
<1> HIDE DEF fs
<1>2. \A i \in 1 .. Length(n) : Fragment(x, fs[i], {}, {Lies(Place(n)[i], Bit)})
  BY <1>1, MakeHintRuns
<1>3. Fragment(x, FlattenSeq(fs), {}, {All(Place(n), Bit)})
  BY <1>1, <1>2, LoopWrites
<1>4. QED
  BY <1>1, <1>3, ContractRuns
  DEF polyveck_make_hint, polyveck_make_hint_h

LEMMA UnpackEtaRuns ==
  ASSUME Build, NEW x, NEW n
  PROVE  /\ Fragment(x, polyvecl_unpack_eta(Place(n)), {}, {All(Place(n), UnpackedEta)})
         /\ Fragment(x, polyveck_unpack_eta(Place(n)), {}, {All(Place(n), UnpackedEta)})
<1> DEFINE fs == [i \in DOMAIN Place(n) |-> polyeta_unpack(Place(n)[i])]
<1>1. /\ fs = [i \in 1 .. Length(n) |-> fs[i]]
      /\ \A i \in 1 .. Length(n) : fs[i] = polyeta_unpack(Place(n)[i])
      /\ Each(Place(n), polyeta_unpack) = FlattenSeq(fs)
  BY PlaceFields DEF Each
<1> HIDE DEF fs
<1>2. \A i \in 1 .. Length(n) : Fragment(x, fs[i], {}, {Lies(Place(n)[i], UnpackedEta)})
  BY <1>1, UnpackedPolynomials
<1>3. Fragment(x, FlattenSeq(fs), {}, {All(Place(n), UnpackedEta)})
  BY <1>1, <1>2, LoopWrites
<1>4. QED
  BY <1>1, <1>3, ContractRuns
  DEF polyvecl_unpack_eta, polyveck_unpack_eta, polyvecl_unpack_eta_h, polyveck_unpack_eta_h

LEMMA UnpackT0Runs ==
  ASSUME Build, NEW x, NEW n
  PROVE  Fragment(x, polyveck_unpack_t0(Place(n)), {}, {All(Place(n), T0Bound)})
<1> DEFINE fs == [i \in DOMAIN Place(n) |-> polyt0_unpack(Place(n)[i])]
<1>1. /\ fs = [i \in 1 .. Length(n) |-> fs[i]]
      /\ \A i \in 1 .. Length(n) : fs[i] = polyt0_unpack(Place(n)[i])
      /\ Each(Place(n), polyt0_unpack) = FlattenSeq(fs)
  BY PlaceFields DEF Each
<1> HIDE DEF fs
<1>2. \A i \in 1 .. Length(n) : Fragment(x, fs[i], {}, {Lies(Place(n)[i], T0Bound)})
  BY <1>1, UnpackedPolynomials
<1>3. Fragment(x, FlattenSeq(fs), {}, {All(Place(n), T0Bound)})
  BY <1>1, <1>2, LoopWrites
<1>4. QED
  BY <1>1, <1>3, ContractRuns
  DEF polyveck_unpack_t0, polyveck_unpack_t0_h

LEMMA UnpackZRuns ==
  ASSUME Build, NEW x, NEW n
  PROVE  Fragment(x, polyvecl_unpack_z(Place(n)), {}, {All(Place(n), ZBound)})
<1> DEFINE fs == [i \in DOMAIN Place(n) |-> polyz_unpack(Place(n)[i])]
<1>1. /\ fs = [i \in 1 .. Length(n) |-> fs[i]]
      /\ \A i \in 1 .. Length(n) : fs[i] = polyz_unpack(Place(n)[i])
      /\ Each(Place(n), polyz_unpack) = FlattenSeq(fs)
  BY PlaceFields DEF Each
<1> HIDE DEF fs
<1>2. \A i \in 1 .. Length(n) : Fragment(x, fs[i], {}, {Lies(Place(n)[i], ZBound)})
  BY <1>1, UnpackedPolynomials
<1>3. Fragment(x, FlattenSeq(fs), {}, {All(Place(n), ZBound)})
  BY <1>1, <1>2, LoopWrites
<1>4. QED
  BY <1>1, <1>3, ContractRuns
  DEF polyvecl_unpack_z, polyvecl_unpack_z_h

LEMMA UnpackPkRuns ==
  ASSUME Build, NEW x, NEW n
  PROVE  Fragment(x, unpack_pk(Place(n)), {}, {All(Place(n), T1Bound)})
<1> DEFINE fs == [i \in DOMAIN Place(n) |-> polyt1_unpack(Place(n)[i])]
<1>1. /\ fs = [i \in 1 .. Length(n) |-> fs[i]]
      /\ \A i \in 1 .. Length(n) : fs[i] = polyt1_unpack(Place(n)[i])
      /\ Each(Place(n), polyt1_unpack) = FlattenSeq(fs)
  BY PlaceFields DEF Each
<1> HIDE DEF fs
<1>2. \A i \in 1 .. Length(n) : Fragment(x, fs[i], {}, {Lies(Place(n)[i], T1Bound)})
  BY <1>1, UnpackedPolynomials
<1>3. Fragment(x, FlattenSeq(fs), {}, {All(Place(n), T1Bound)})
  BY <1>1, <1>2, LoopWrites
<1>4. QED
  BY <1>1, <1>3, ContractRuns
  DEF unpack_pk, unpack_pk_h

LEMMA PackPkRuns ==
  ASSUME Build, NEW x, NEW n
  PROVE  Fragment(x, pack_pk(Place(n)), {All(Place(n), T1Bound)}, {})
<1> DEFINE fs == [i \in DOMAIN Place(n) |-> polyt1_pack(Place(n)[i])]
<1>1. /\ fs = [i \in 1 .. Length(n) |-> fs[i]]
      /\ \A i \in 1 .. Length(n) : fs[i] = polyt1_pack(Place(n)[i])
      /\ Each(Place(n), polyt1_pack) = FlattenSeq(fs)
  BY PlaceFields DEF Each
<1> HIDE DEF fs
<1>2. \A i \in 1 .. Length(n) : Fragment(x, fs[i], {Lies(Place(n)[i], T1Bound)}, {})
  BY <1>1, PlainPolynomials
<1>3. Fragment(x, FlattenSeq(fs), {All(Place(n), T1Bound)}, {})
  BY <1>1, <1>2, LoopReads
<1>4. QED
  BY <1>1, <1>3, ContractRuns
  DEF pack_pk, pack_pk_h

LEMMA PackW1Runs ==
  ASSUME Build, NEW x, NEW n
  PROVE  Fragment(x, polyveck_pack_w1(Place(n)), {All(Place(n), HighBits)}, {})
<1> DEFINE fs == [i \in DOMAIN Place(n) |-> polyw1_pack(Place(n)[i])]
<1>1. /\ fs = [i \in 1 .. Length(n) |-> fs[i]]
      /\ \A i \in 1 .. Length(n) : fs[i] = polyw1_pack(Place(n)[i])
      /\ Each(Place(n), polyw1_pack) = FlattenSeq(fs)
  BY PlaceFields DEF Each
<1> HIDE DEF fs
<1>2. \A i \in 1 .. Length(n) : Fragment(x, fs[i], {Lies(Place(n)[i], HighBits)}, {})
  BY <1>1, PlainPolynomials
<1>3. Fragment(x, FlattenSeq(fs), {All(Place(n), HighBits)}, {})
  BY <1>1, <1>2, LoopReads
<1>4. QED
  BY <1>1, <1>3, ContractRuns
  DEF polyveck_pack_w1, polyveck_pack_w1_h

\* A function whose contract promises nothing of what its body leaves.
LEMMA SilentRuns ==
  ASSUME NEW x, NEW fn, NEW ct, NEW body, NEW R, NEW N, Fragment(x, body, R, N),
         ct.given, ct.requires = R, ct.ensures = {}, ct.sums = {}
  PROVE  Fragment(x, Function(fn, ct, body), R, N)
<1>1. \A w : Meets(w, {})
  BY DEF Meets
<1>2. QED  BY <1>1, HoldsMeets, FunctionRuns

LEMMA VectorChknormRuns ==
  ASSUME Build, NEW x, NEW n, NEW b, NormBound(b)
  PROVE  /\ Fragment(x, polyvecl_chknorm(Place(n), b), {All(Place(n), Reduced)}, {})
         /\ Fragment(x, polyveck_chknorm(Place(n), b), {All(Place(n), Reduced)}, {})
<1> DEFINE fs == [i \in DOMAIN Place(n) |-> poly_chknorm(Place(n)[i], b)]
           cl == polyvecl_chknorm_h(Place(n), b)   ck == polyveck_chknorm_h(Place(n), b)
<1>1. /\ fs = [i \in 1 .. Length(n) |-> fs[i]]
      /\ \A i \in 1 .. Length(n) : fs[i] = poly_chknorm(Place(n)[i], b)
      /\ Each(Place(n), LAMBDA a : poly_chknorm(a, b)) = FlattenSeq(fs)
  BY PlaceFields DEF Each
<1>2. /\ cl.given /\ cl.requires = {All(Place(n), Reduced)} /\ cl.ensures = {} /\ cl.sums = {}
      /\ ck.given /\ ck.requires = {All(Place(n), Reduced)} /\ ck.ensures = {} /\ ck.sums = {}
  BY DEF polyvecl_chknorm_h, polyveck_chknorm_h, Given, Contract
<1> HIDE DEF fs, cl, ck
<1>3. \A i \in 1 .. Length(n) : Fragment(x, fs[i], {Lies(Place(n)[i], Reduced)}, {})
  BY <1>1, ChknormRuns
<1>4. Fragment(x, FlattenSeq(fs), {All(Place(n), Reduced)}, {})
  BY <1>1, <1>3, LoopReads
<1>5. /\ Fragment(x, Function("polyvecl_chknorm", cl, FlattenSeq(fs)), {All(Place(n), Reduced)}, {})
      /\ Fragment(x, Function("polyveck_chknorm", ck, FlattenSeq(fs)), {All(Place(n), Reduced)}, {})
  BY <1>2, <1>4, SilentRuns
<1>6. QED  BY <1>1, <1>5 DEF polyvecl_chknorm, polyveck_chknorm, cl, ck

LEMMA VectorInvnttRuns ==
  ASSUME Build, NEW x, NEW n, Native(x)
  PROVE  LET r == Interval(-par.intt, par.intt)
         IN  /\ Fragment(x, polyvecl_invntt_tomont(Place(n)), {All(Place(n), BelowQ)},
                         {All(Place(n), r)})
             /\ Fragment(x, polyveck_invntt_tomont(Place(n)), {All(Place(n), BelowQ)},
                         {All(Place(n), r)})
<1> DEFINE r == Interval(-par.intt, par.intt)
           fs == [i \in DOMAIN Place(n) |-> poly_invntt_tomont(Place(n)[i])]
           R == {All(Place(n), BelowQ)}   N == {All(Place(n), r)}   S == {All(Place(n), InttOutput)}
           ct == Contract(R, S)
<1>1. /\ fs = [i \in 1 .. Length(n) |-> fs[i]]
      /\ \A i \in 1 .. Length(n) : fs[i] = poly_invntt_tomont(Place(n)[i])
      /\ Each(Place(n), poly_invntt_tomont) = FlattenSeq(fs)
  BY PlaceFields DEF Each
<1> HIDE DEF fs
<1>2. \A i \in 1 .. Length(n) :
        Fragment(x, fs[i], {Lies(Place(n)[i], BelowQ)}, {Lies(Place(n)[i], r)})
  BY <1>1, InvnttRuns
<1>3. Is(r, -par.intt, par.intt) /\ par.intt \in Int
  BY ParBounds DEF Build
<1>4. ASSUME ~x.native
      PROVE  \A s \in Intervals : Within(s, r) => Within(s, InttOutput)
  <2>1. par.backend = "c"
    BY <1>4 DEF Native
  <2>2. 0 <= par.intt /\ par.intt < 4211139
    BY <2>1 DEF Build
  <2> HIDE DEF r
  <2>3. QED  BY <1>3, <2>2, FixedBounds, SMT DEF Is, Within, Intervals
<1> HIDE DEF r
<1>5. Fragment(x, FlattenSeq(fs), R, N)
  BY <1>1, <1>2, LoopUpdates
<1>6. ct.given = TRUE /\ ct.requires = R /\ ct.ensures = S /\ ct.sums = {}
  BY DEF Contract
<1> HIDE DEF ct
<1>7. ASSUME ~x.native, NEW w \in Memories(x), Holds(w, N) PROVE Meets(w, S)
  <2>1. \A p \in All(Place(n), r).polys : w[p] \in Intervals /\ Within(w[p], r)
    BY <1>7 DEF Holds, Memories, All
  <2>2. All(Place(n), r).polys = All(Place(n), InttOutput).polys
        /\ All(Place(n), InttOutput).bound = InttOutput
    BY DEF All
  <2>3. QED  BY <1>4, <1>7, <2>1, <2>2 DEF Meets
<1> HIDE DEF R, N, S
<1>8. {"polyvecl_invntt_tomont", "polyveck_invntt_tomont"} \subseteq InverseNtts
  BY DEF InverseNtts
<1>9. x.native \/ ~x.native
  OBVIOUS
<1>10. \A fn \in {"polyvecl_invntt_tomont", "polyveck_invntt_tomont"} :
         Fragment(x, Function(fn, ct, FlattenSeq(fs)), R, N)
  BY <1>5, <1>6, <1>7, <1>8, <1>9, HoldsMeets, FunctionRuns
<1>11. QED
  BY <1>1, <1>10 DEF polyvecl_invntt_tomont, polyveck_invntt_tomont, polyvecl_invntt_tomont_h,
                     polyveck_invntt_tomont_h, ct, R, N, S, r

LEMMA AssignRuns ==
  ASSUME Build, NEW x, NEW m, NEW n, NEW b, Length(m) = Length(n)
  PROVE  Fragment(x, Assign(Place(m), Place(n)), {All(Place(n), b)}, {All(Place(m), b)})
<1> DEFINE fs == [i \in DOMAIN Place(n) |-> <<Work("copy", Place(m)[i], <<Place(n)[i]>>, 0)>>]
<1>1. /\ fs = [i \in 1 .. Length(n) |-> fs[i]]
      /\ \A i \in 1 .. Length(n) : fs[i] = <<Work("copy", Place(m)[i], <<Place(n)[i]>>, 0)>>
      /\ Assign(Place(m), Place(n)) = FlattenSeq(fs)
  BY PlaceFields DEF Assign, Each2
<1> HIDE DEF fs
<1>2. ASSUME NEW i \in 1 .. Length(n)
      PROVE  Fragment(x, fs[i], {Lies(Place(n)[i], b)}, {Lies(Place(m)[i], b)})
  <2> DEFINE p == Place(n)[i]   o == Place(m)[i]   s == Work("copy", o, <<p>>, 0)
  <2>1. s.kind = "work" /\ s.out = o /\ \A v : Result(s, v) = v[p]
    BY WorkFields DEF Result
  <2> HIDE DEF s, p, o
  <2>2. ASSUME NEW v \in Memories(x), Holds(v, {Lies(p, b)})
        PROVE  Result(s, v) \in Intervals /\ Within(Result(s, v), b)
    BY <2>1, <2>2, HoldsOne
  <2>3. Fragment(x, <<s>>, {Lies(p, b)}, {Lies(o, b)})
    BY <2>1, <2>2, WorkRuns
  <2>4. QED  BY <2>3, <1>1 DEF s, p, o
<1>3. Fragment(x, FlattenSeq(fs), {All(Place(n), b)}, {All(Place(m), b)})
  BY <1>1, <1>2, LoopUpdates
<1>4. QED  BY <1>1, <1>3

LEMMA VectorSubRuns ==
  ASSUME Build, NEW x, NEW m, NEW n, Length(m) = Length(n)
  PROVE  Fragment(x, polyveck_sub(Place(m), Place(n)),
                  {All(Place(m), BelowQ), All(Place(n), BelowQ)}, {All(Place(m), Reducible)})
<1> DEFINE fs == [i \in DOMAIN Place(n) |-> poly_sub(Place(m)[i], Place(n)[i])]
<1>1. /\ fs = [i \in 1 .. Length(m) |-> fs[i]]
      /\ \A i \in 1 .. Length(m) : fs[i] = poly_sub(Place(m)[i], Place(n)[i])
      /\ Each2(Place(m), Place(n), poly_sub) = FlattenSeq(fs)
  BY PlaceFields DEF Each2
<1> HIDE DEF fs
<1>2. \A i \in 1 .. Length(m) :
        Fragment(x, fs[i], {Lies(Place(m)[i], BelowQ), Lies(Place(n)[i], BelowQ)},
                 {Lies(Place(m)[i], Reducible)})
  BY <1>1, SubRuns
<1>3. Fragment(x, FlattenSeq(fs), {All(Place(m), BelowQ), All(Place(n), BelowQ)},
               {All(Place(m), Reducible)})
  BY <1>1, <1>2, LoopCombines
<1>4. QED  BY <1>1, <1>3, ContractRuns DEF polyveck_sub, polyveck_sub_h

LEMMA VectorUseHintRuns ==
  ASSUME Build, NEW x, NEW t, NEW m, NEW n, Length(m) = Length(n), Length(t) = Length(n)
  PROVE  Fragment(x, polyveck_use_hint(Place(t), Place(m), Place(n)),
                  {All(Place(m), Canonical), All(Place(n), Bit)}, {All(Place(t), HighBits)})
<1> DEFINE fs == [i \in DOMAIN Place(m) |-> poly_use_hint(Place(t)[i], Place(m)[i], Place(n)[i])]
<1>1. /\ fs = [i \in 1 .. Length(m) |-> fs[i]]
      /\ \A i \in 1 .. Length(m) : fs[i] = poly_use_hint(Place(t)[i], Place(m)[i], Place(n)[i])
      /\ Each3(Place(t), Place(m), Place(n), poly_use_hint) = FlattenSeq(fs)
  BY PlaceFields DEF Each3
<1> HIDE DEF fs
<1>2. \A i \in 1 .. Length(m) :
        Fragment(x, fs[i], {Lies(Place(m)[i], Canonical), Lies(Place(n)[i], Bit)},
                 {Lies(Place(t)[i], HighBits)})
  BY <1>1, UseHintRuns
<1>3. Fragment(x, FlattenSeq(fs), {All(Place(m), Canonical), All(Place(n), Bit)},
               {All(Place(t), HighBits)})
  BY <1>1, <1>2, LoopCombines
<1>4. QED  BY <1>1, <1>3, ContractRuns DEF polyveck_use_hint, polyveck_use_hint_h

LEMMA VectorPower2RoundRuns ==
  ASSUME Build, NEW x, NEW m, NEW t, NEW n, Length(m) = Length(n), Length(t) = Length(n), m # t
  PROVE  Fragment(x, polyveck_power2round(Place(m), Place(t), Place(n)), {All(Place(n), Canonical)},
                  {All(Place(t), T0Bound),
                   All(Place(m), array_bound(0, ((Q - 1) \div 2 ^ D) + 1))})
<1> DEFINE fs == [i \in DOMAIN Place(n) |-> poly_power2round(Place(m)[i], Place(t)[i], Place(n)[i])]
           high == array_bound(0, ((Q - 1) \div 2 ^ D) + 1)
<1>1. /\ fs = [i \in 1 .. Length(n) |-> fs[i]]
      /\ \A i \in 1 .. Length(n) : fs[i] = poly_power2round(Place(m)[i], Place(t)[i], Place(n)[i])
      /\ Each3(Place(m), Place(t), Place(n), poly_power2round) = FlattenSeq(fs)
  BY PlaceFields DEF Each3
<1> HIDE DEF fs
<1>2. \A i \in 1 .. Length(n) : Place(m)[i] # Place(t)[i]
  BY PlacesApart
<1>3. ASSUME NEW i \in 1 .. Length(n)
      PROVE  Fragment(x, fs[i], {Lies(Place(n)[i], Canonical)},
                      {Lies(Place(t)[i], T0Bound), Lies(Place(m)[i], high)})
  BY <1>1, <1>2, Power2RoundRuns
<1> HIDE DEF high
<1>4. Fragment(x, FlattenSeq(fs), {All(Place(n), Canonical)},
               {All(Place(t), T0Bound), All(Place(m), high)})
  BY <1>1, <1>3, LoopSplits
<1>5. QED  BY <1>1, <1>4, ContractRuns DEF polyveck_power2round, polyveck_power2round_h, high

LEMMA VectorDecomposeRuns ==
  ASSUME Build, NEW x, NEW m, NEW t, NEW n, Length(m) = Length(n), Length(t) = Length(n), m # t
  PROVE  Fragment(x, polyveck_decompose(Place(m), Place(t), Place(n)), {All(Place(n), Canonical)},
                  {All(Place(m), HighBits), All(Place(t), LowBits)})
<1> DEFINE fs == [i \in DOMAIN Place(n) |-> poly_decompose(Place(m)[i], Place(t)[i], Place(n)[i])]
<1>1. /\ fs = [i \in 1 .. Length(n) |-> fs[i]]
      /\ \A i \in 1 .. Length(n) : fs[i] = poly_decompose(Place(m)[i], Place(t)[i], Place(n)[i])
      /\ Each3(Place(m), Place(t), Place(n), poly_decompose) = FlattenSeq(fs)
  BY PlaceFields DEF Each3
<1> HIDE DEF fs
<1>2. \A i \in 1 .. Length(n) : Place(m)[i] # Place(t)[i]
  BY PlacesApart
<1>3. ASSUME NEW i \in 1 .. Length(n)
      PROVE  Fragment(x, fs[i], {Lies(Place(n)[i], Canonical)},
                      {Lies(Place(m)[i], HighBits), Lies(Place(t)[i], LowBits)})
  BY <1>1, <1>2, DecomposeRuns
<1>4. Fragment(x, FlattenSeq(fs), {All(Place(n), Canonical)},
               {All(Place(m), HighBits), All(Place(t), LowBits)})
  BY <1>1, <1>3, LoopSplits
<1>5. QED  BY <1>1, <1>4, ContractRuns DEF polyveck_decompose, polyveck_decompose_h

LEMMA VectorAddRuns ==
  ASSUME Build, NEW x, NEW m, NEW n, Length(m) = Length(n), NEW br, NEW bb,
         NEW al \in Int, NEW ah \in Int, Is(br, al, ah), NEW bl \in Int, NEW bh \in Int, Is(bb, bl, bh),
         Within(AddInterval(br, bb), Reducible)
  PROVE  /\ Fragment(x, polyvecl_add(Place(m), Place(n)), {All(Place(m), br), All(Place(n), bb)},
                     {All(Place(m), AddInterval(br, bb))})
         /\ Fragment(x, polyveck_add(Place(m), Place(n)), {All(Place(m), br), All(Place(n), bb)},
                     {All(Place(m), AddInterval(br, bb))})
<1> DEFINE fs == [i \in DOMAIN Place(n) |-> poly_add(Place(m)[i], Place(n)[i])]
           sum == AddInterval(br, bb)   R == {All(Place(m), br), All(Place(n), bb)}
           N == {All(Place(m), sum)}   t == SumOf(Place(m), Place(n), Reducible)
           cl == polyvecl_add_h(Place(m), Place(n))   ck == polyveck_add_h(Place(m), Place(n))
<1>1. /\ fs = [i \in 1 .. Length(m) |-> fs[i]]
      /\ \A i \in 1 .. Length(m) : fs[i] = poly_add(Place(m)[i], Place(n)[i])
      /\ Each2(Place(m), Place(n), poly_add) = FlattenSeq(fs)
  BY PlaceFields DEF Each2
<1>2. /\ cl.given = TRUE /\ cl.requires = {} /\ cl.sums = {t}
      /\ cl.ensures = {All(Place(m), Reducible)}
      /\ ck.given = TRUE /\ ck.requires = {} /\ ck.sums = {t} /\ ck.ensures = {}
  BY DEF polyvecl_add_h, polyveck_add_h, WithSum, Contract
<1>3. t.left = Place(m) /\ t.right = Place(n) /\ t.bound = Reducible
  BY DEF SumOf
<1> HIDE DEF fs, cl, ck, t
<1>4. ASSUME NEW i \in 1 .. Length(m)
      PROVE  Fragment(x, fs[i], {Lies(Place(m)[i], br), Lies(Place(n)[i], bb)},
                      {Lies(Place(m)[i], sum)})
  BY <1>1, AddRuns
<1>5. Fragment(x, FlattenSeq(fs), R, N)
  <2> HIDE DEF sum
  <2>1. QED  BY <1>1, <1>4, LoopCombines
<1>6. ASSUME NEW v \in Memories(x), Holds(v, R) PROVE SumsWithin(v, t)
  <2>1. DOMAIN t.left = 1 .. Length(m) /\ Length(m) = Length(n)
    BY <1>3, PlaceFields
  <2>2. ASSUME NEW i \in DOMAIN t.left
        PROVE  /\ v[t.left[i]].lo >= t.bound.lo - v[t.right[i]].lo
               /\ v[t.left[i]].hi <= t.bound.hi - v[t.right[i]].hi
    <3> DEFINE p == Place(m)[i]   q == Place(n)[i]
    <3>1. t.left[i] = p /\ t.right[i] = q
      BY <1>3
    <3>2. p \in All(Place(m), br).polys /\ q \in All(Place(n), bb).polys
          /\ All(Place(m), br).bound = br /\ All(Place(n), bb).bound = bb
      BY <2>1, PlaceFields DEF All
    <3> HIDE DEF p, q
    <3>3. /\ v[p] \in Intervals /\ Within(v[p], br) /\ v[q] \in Intervals /\ Within(v[q], bb)
      BY <3>2, <1>6 DEF Holds, Memories
    <3>4. Ends(v[p], al, ah) /\ Ends(v[q], bl, bh)
      BY <3>3, WithinEnds
    <3>5. Reducible.lo \in Int /\ Reducible.hi \in Int
      BY FixedBounds DEF Is, Intervals
    <3>6. Reducible.lo <= al + bl /\ ah + bh <= Reducible.hi
      BY DEF Is, AddInterval, Interval, Within
    <3>7. v[p].lo >= Reducible.lo - v[q].lo /\ v[p].hi <= Reducible.hi - v[q].hi
      BY <3>4, <3>5, <3>6, SMT DEF Ends
    <3>8. QED  BY <3>1, <3>7, <1>3
  <2>3. QED  BY <2>2 DEF SumsWithin
<1>7. ASSUME NEW w \in Memories(x), Holds(w, N) PROVE Meets(w, {All(Place(m), Reducible)})
  <2>1. \A p \in All(Place(m), sum).polys : w[p] \in Intervals /\ Within(w[p], sum)
    BY <1>7 DEF Holds, Memories, All
  <2>2. All(Place(m), sum).polys = All(Place(m), Reducible).polys
        /\ All(Place(m), Reducible).bound = Reducible
    BY DEF All
  <2>3. Reducible \in Intervals /\ sum \in Intervals /\ Within(sum, Reducible)
    <3>1. al <= ah /\ bl <= bh
      BY DEF Is, Intervals
    <3>2. Is(sum, al + bl, ah + bh)
      BY <3>1, IsInterval DEF AddInterval, Is
    <3>3. QED  BY <3>2, FixedBounds DEF Is
  <2> HIDE DEF sum
  <2>4. \A r \in Intervals : Within(r, sum) => Within(r, Reducible)
    BY <2>3, SMT DEF Within, Intervals
  <2>5. QED  BY <2>1, <2>2, <2>4 DEF Meets
<1> HIDE DEF R, N
<1>8. \A v : Meets(v, {})
  BY DEF Meets
<1>9. Fragment(x, Function("polyvecl_add", cl, FlattenSeq(fs)), R, N)
  BY <1>2, <1>5, <1>6, <1>7, <1>8, FunctionRuns
<1>10. Fragment(x, Function("polyveck_add", ck, FlattenSeq(fs)), R, N)
  BY <1>2, <1>5, <1>6, <1>8, FunctionRuns
<1>11. QED  BY <1>1, <1>9, <1>10 DEF polyvecl_add, polyveck_add, cl, ck, R, N

\* One polynomial in the place of a vector.
Single(p, len) == [i \in 1 .. len |-> p]

LEMMA SingleIsOne ==
  ASSUME NEW p, NEW b, NEW len \in Nat, len # 0
  PROVE  All(Single(p, len), b) = Lies(p, b)
<1>1. {Single(p, len)[i] : i \in DOMAIN Single(p, len)} = {p}
  <2>1. 1 \in 1 .. len
    OBVIOUS
  <2>2. QED  BY <2>1 DEF Single
<1>2. QED  BY <1>1 DEF All, Lies

LEMMA LengthIsPositive ==
  ASSUME Build, NEW n
  PROVE  Length(n) \in Nat /\ Length(n) # 0
BY LengthIsNat DEF Length

LEMMA PointwisePolyRuns ==
  ASSUME Build, NEW x, NEW a, NEW m, NEW n, Length(m) = Length(n),
         \A j \in 1 .. Length(m) : Place(m)[j] # a
  PROVE  /\ Fragment(x, polyvecl_pointwise_poly_montgomery(Place(m), a, Place(n)),
                     {Lies(a, NttOutput), All(Place(n), NttOutput)}, {All(Place(m), BelowQ)})
         /\ Fragment(x, polyveck_pointwise_poly_montgomery(Place(m), a, Place(n)),
                     {Lies(a, NttOutput), All(Place(n), NttOutput)}, {All(Place(m), BelowQ)})
<1> DEFINE fs == [i \in DOMAIN Place(n) |->
                    poly_pointwise_montgomery(Place(m)[i], a, Place(n)[i])]
           len == Length(n)   u == Single(a, len)
           RS == {Vec(u, NttOutput), Vec(Place(n), NttOutput)}   NS == {Vec(Place(m), BelowQ)}
<1>1. /\ fs = [i \in 1 .. len |-> fs[i]]
      /\ \A i \in 1 .. len : fs[i] = poly_pointwise_montgomery(Place(m)[i], a, Place(n)[i])
      /\ Each2(Place(m), Place(n), LAMBDA c, b : poly_pointwise_montgomery(c, a, b)) = FlattenSeq(fs)
  BY PlaceFields DEF Each2
<1> HIDE DEF fs
<1>2. len \in Nat /\ len # 0
  BY LengthIsPositive
<1>3. DOMAIN u = 1 .. len /\ (\A i \in 1 .. len : u[i] = a) /\ All(u, NttOutput) = Lies(a, NttOutput)
  BY <1>2, SingleIsOne DEF Single
<1> HIDE DEF u
<1>4. /\ AllOf(RS) = {Lies(a, NttOutput), All(Place(n), NttOutput)}
      /\ \A i \in 1 .. len : At(RS, i) = {Lies(a, NttOutput), Lies(Place(n)[i], NttOutput)}
  <2>1. AllOf(RS) = {All(u, NttOutput), All(Place(n), NttOutput)}
    BY VecFields DEF AllOf
  <2>2. ASSUME NEW i \in 1 .. len
        PROVE  At(RS, i) = {Lies(u[i], NttOutput), Lies(Place(n)[i], NttOutput)}
    BY VecFields DEF At
  <2>3. QED  BY <2>1, <2>2, <1>3
<1>5. /\ AllOf(NS) = {All(Place(m), BelowQ)}
      /\ \A i \in 1 .. len : At(NS, i) = {Lies(Place(m)[i], BelowQ)}
  BY VecFields DEF AllOf, At
<1>6. /\ \A q \in RS : q.vec = u \/ q.vec = Place(n)
      /\ \A q \in NS : q.vec = Place(m) /\ q.bound = BelowQ
  BY VecFields
<1> HIDE DEF RS, NS
<1>7. ASSUME NEW i \in 1 .. len PROVE Fragment(x, fs[i], At(RS, i), At(NS, i))
  <2>1. Fragment(x, poly_pointwise_montgomery(Place(m)[i], a, Place(n)[i]),
                 {Lies(a, NttOutput), Lies(Place(n)[i], NttOutput)}, {Lies(Place(m)[i], BelowQ)})
    BY PointwiseRuns
  <2>2. fs[i] = poly_pointwise_montgomery(Place(m)[i], a, Place(n)[i])
    BY <1>1
  <2>3. QED  BY <2>1, <2>2, <1>4, <1>5
<1>8. /\ \A q \in RS : DOMAIN q.vec = 1 .. len
      /\ \A q \in NS : DOMAIN q.vec = 1 .. len
  BY <1>3, <1>6, PlaceFields
<1>9. \A q \in RS : \A o \in NS : \A i, j \in 1 .. len : j < i => q.vec[i] # o.vec[j]
  <2>1. ASSUME NEW i \in 1 .. len, NEW j \in 1 .. len, j < i
        PROVE  u[i] # Place(m)[j] /\ Place(n)[i] # Place(m)[j]
    BY <2>1, <1>3, PlacesApart
  <2>2. QED  BY <2>1, <1>6
<1>10. Fragment(x, FlattenSeq(fs), AllOf(RS), AllOf(NS))
  <2>1. \A o, q \in NS : \A i, j \in 1 .. len : o.vec[i] = q.vec[j] => o.bound = q.bound
    BY <1>6
  <2> HIDE DEF len
  <2>2. QED  BY <1>1, <1>2, <1>7, <1>8, <1>9, <2>1, VectorLoop
<1>11. QED
  BY <1>1, <1>4, <1>5, <1>10, ContractRuns
  DEF polyvecl_pointwise_poly_montgomery, polyveck_pointwise_poly_montgomery,
      polyvecl_pointwise_poly_montgomery_h, polyveck_pointwise_poly_montgomery_h

\* A loop that packs a vector.
LEMMA LoopPacks ==
  ASSUME Build, NEW x, NEW fs, NEW n, NEW a, n # "field",
         fs = [i \in 1 .. Length(n) |-> fs[i]],
         \A i \in 1 .. Length(n) :
           Fragment(x, fs[i], {Lies(Place(n)[i], a)}, {Lies(Packed, Field(20))})
  PROVE  Fragment(x, FlattenSeq(fs), {All(Place(n), a)}, {Lies(Packed, Field(20))})
<1> DEFINE len == Length(n)   u == Single(Packed, len)   f == Field(20)
           RS == {Vec(Place(n), a)}   NS == {Vec(u, f)}
<1>1. len \in Nat /\ len # 0
  BY LengthIsPositive
<1>2. DOMAIN u = 1 .. len /\ (\A i \in 1 .. len : u[i] = Packed) /\ All(u, f) = Lies(Packed, f)
  BY <1>1, SingleIsOne DEF Single
<1> HIDE DEF u, f
<1>3. /\ AllOf(RS) = {All(Place(n), a)} /\ AllOf(NS) = {Lies(Packed, f)}
      /\ \A i \in 1 .. len : At(RS, i) = {Lies(Place(n)[i], a)} /\ At(NS, i) = {Lies(Packed, f)}
  <2>1. AllOf(RS) = {All(Place(n), a)} /\ AllOf(NS) = {All(u, f)}
    BY VecFields DEF AllOf
  <2>2. ASSUME NEW i \in 1 .. len
        PROVE  At(RS, i) = {Lies(Place(n)[i], a)} /\ At(NS, i) = {Lies(u[i], f)}
    BY VecFields DEF At
  <2>3. QED  BY <2>1, <2>2, <1>2
<1>4. /\ \A q \in RS : q.vec = Place(n)
      /\ \A q \in NS : q.vec = u /\ q.bound = f
  BY VecFields
<1> HIDE DEF RS, NS
<1>5. \A i \in 1 .. len : Fragment(x, fs[i], At(RS, i), At(NS, i))
  BY <1>3 DEF f
<1>6. /\ \A q \in RS : DOMAIN q.vec = 1 .. len
      /\ \A q \in NS : DOMAIN q.vec = 1 .. len
  BY <1>2, <1>4, PlaceFields
<1>7. \A q \in RS : \A o \in NS : \A i, j \in 1 .. len : j < i => q.vec[i] # o.vec[j]
  <2>1. \A i \in 1 .. len : Place(n)[i] # Packed
    BY PlaceFields DEF Packed
  <2>2. QED  BY <2>1, <1>2, <1>4
<1>8. Fragment(x, FlattenSeq(fs), AllOf(RS), AllOf(NS))
  BY <1>1, <1>4, <1>5, <1>6, <1>7, VectorLoop
<1>9. QED  BY <1>3, <1>8 DEF f

LEMMA PackEtaRuns ==
  ASSUME Build, NEW x, NEW n, n # "field"
  PROVE  /\ Fragment(x, polyvecl_pack_eta(Place(n)), {All(Place(n), EtaBound)},
                     {Lies(Packed, Field(20))})
         /\ Fragment(x, polyveck_pack_eta(Place(n)), {All(Place(n), EtaBound)},
                     {Lies(Packed, Field(20))})
<1> DEFINE fs == [i \in DOMAIN Place(n) |-> polyeta_pack(Place(n)[i])]
<1>1. /\ fs = [i \in 1 .. Length(n) |-> fs[i]]
      /\ \A i \in 1 .. Length(n) : fs[i] = polyeta_pack(Place(n)[i])
      /\ Each(Place(n), polyeta_pack) = FlattenSeq(fs)
  BY PlaceFields DEF Each
<1> HIDE DEF fs
<1>2. \A i \in 1 .. Length(n) :
        Fragment(x, fs[i], {Lies(Place(n)[i], EtaBound)}, {Lies(Packed, Field(20))})
  BY <1>1, PackedPolynomials
<1>3. Fragment(x, FlattenSeq(fs), {All(Place(n), EtaBound)}, {Lies(Packed, Field(20))})
  BY <1>1, <1>2, LoopPacks
<1>4. /\ polyvecl_pack_eta_h(Place(n)).given /\ polyveck_pack_eta_h(Place(n)).given
      /\ polyvecl_pack_eta_h(Place(n)).requires = {All(Place(n), EtaBound)}
      /\ polyveck_pack_eta_h(Place(n)).requires = {All(Place(n), EtaBound)}
      /\ polyvecl_pack_eta_h(Place(n)).ensures = {} /\ polyveck_pack_eta_h(Place(n)).ensures = {}
      /\ polyvecl_pack_eta_h(Place(n)).sums = {} /\ polyveck_pack_eta_h(Place(n)).sums = {}
  BY DEF polyvecl_pack_eta_h, polyveck_pack_eta_h, Contract
<1>5. QED  BY <1>1, <1>3, <1>4, SilentRuns DEF polyvecl_pack_eta, polyveck_pack_eta

LEMMA PackT0Runs ==
  ASSUME Build, NEW x, NEW n, n # "field"
  PROVE  Fragment(x, polyveck_pack_t0(Place(n)), {All(Place(n), T0Bound)}, {Lies(Packed, Field(20))})
<1> DEFINE fs == [i \in DOMAIN Place(n) |-> polyt0_pack(Place(n)[i])]
<1>1. /\ fs = [i \in 1 .. Length(n) |-> fs[i]]
      /\ \A i \in 1 .. Length(n) : fs[i] = polyt0_pack(Place(n)[i])
      /\ Each(Place(n), polyt0_pack) = FlattenSeq(fs)
  BY PlaceFields DEF Each
<1> HIDE DEF fs
<1>2. \A i \in 1 .. Length(n) :
        Fragment(x, fs[i], {Lies(Place(n)[i], T0Bound)}, {Lies(Packed, Field(20))})
  BY <1>1, PackedPolynomials
<1>3. Fragment(x, FlattenSeq(fs), {All(Place(n), T0Bound)}, {Lies(Packed, Field(20))})
  BY <1>1, <1>2, LoopPacks
<1>4. /\ polyveck_pack_t0_h(Place(n)).given
      /\ polyveck_pack_t0_h(Place(n)).requires = {All(Place(n), T0Bound)}
      /\ polyveck_pack_t0_h(Place(n)).ensures = {} /\ polyveck_pack_t0_h(Place(n)).sums = {}
  BY DEF polyveck_pack_t0_h, Contract
<1>5. QED  BY <1>1, <1>3, <1>4, SilentRuns DEF polyveck_pack_t0

LEMMA PackZRuns ==
  ASSUME Build, NEW x, NEW n, n # "field"
  PROVE  Fragment(x, polyvecl_pack_z(Place(n)), {All(Place(n), ZBound)}, {Lies(Packed, Field(20))})
<1> DEFINE fs == [i \in DOMAIN Place(n) |-> polyz_pack(Place(n)[i])]
<1>1. /\ fs = [i \in 1 .. Length(n) |-> fs[i]]
      /\ \A i \in 1 .. Length(n) : fs[i] = polyz_pack(Place(n)[i])
      /\ Each(Place(n), polyz_pack) = FlattenSeq(fs)
  BY PlaceFields DEF Each
<1> HIDE DEF fs
<1>2. \A i \in 1 .. Length(n) :
        Fragment(x, fs[i], {Lies(Place(n)[i], ZBound)}, {Lies(Packed, Field(20))})
  BY <1>1, PackedPolynomials
<1>3. Fragment(x, FlattenSeq(fs), {All(Place(n), ZBound)}, {Lies(Packed, Field(20))})
  BY <1>1, <1>2, LoopPacks
<1>4. /\ polyvecl_pack_z_h(Place(n)).given
      /\ polyvecl_pack_z_h(Place(n)).requires = {All(Place(n), ZBound)}
      /\ polyvecl_pack_z_h(Place(n)).ensures = {} /\ polyvecl_pack_z_h(Place(n)).sums = {}
  BY DEF polyvecl_pack_z_h, Contract
<1>5. QED  BY <1>1, <1>3, <1>4, SilentRuns DEF polyvecl_pack_z

-------------------------------------------------------------------------------
(***************************************************************************)
(* Batches: programs that read nothing and put one bound on a set of       *)
(* polynomials.                                                            *)
(***************************************************************************)
Clause(P, b) == [polys |-> P, bound |-> b]

Fills(x, prog, P, b) == Fragment(x, prog, {}, {Clause(P, b)})

LEMMA ClauseFields ==
  ASSUME NEW P, NEW b
  PROVE  /\ Touched({Clause(P, b)}) = P
         /\ \A w : Holds(w, {Clause(P, b)}) <=> \A p \in P : p \in DOMAIN w /\ Within(w[p], b)
         /\ \A w : Holds(w, {})
BY DEF Clause, Touched, Holds

LEMMA FillsBoth ==
  ASSUME NEW x, NEW p, NEW q, NEW P, NEW S, NEW b, Fills(x, p, P, b), Fills(x, q, S, b)
  PROVE  Fills(x, p \o q, P \cup S, b)
<1> DEFINE N1 == {Clause(P, b)}   N2 == {Clause(S, b)}   N == {Clause(P \cup S, b)}
<1>1. /\ Touched(N1) = P /\ Touched(N2) = S /\ Touched(N) = P \cup S
      /\ \A w : Holds(w, N1) <=> \A o \in P : o \in DOMAIN w /\ Within(w[o], b)
      /\ \A w : Holds(w, N2) <=> \A o \in S : o \in DOMAIN w /\ Within(w[o], b)
      /\ \A w : Holds(w, N) <=> \A o \in P \cup S : o \in DOMAIN w /\ Within(w[o], b)
      /\ \A w : Holds(w, {})
  BY ClauseFields
<1>2. Fragment(x, p, {}, N1) /\ Fragment(x, q, {}, N2)
  BY DEF Fills
<1> HIDE DEF N1, N2, N
<1>3. ASSUME NEW u \in Memories(x), NEW v \in Memories(x), NEW w \in Memories(x),
             Holds(v, N1), Kept(u, v, N1), Holds(w, N2), Kept(v, w, N2)
      PROVE  Holds(w, N) /\ Kept(u, w, N)
  <2>1. DOMAIN u = x.polys /\ DOMAIN v = x.polys /\ DOMAIN w = x.polys
    BY DEF Memories
  <2>2. \A o \in P : o \in S \/ w[o] = v[o]
    BY <1>1, <1>3, <2>1 DEF Kept
  <2>3. Holds(w, N)
    BY <1>1, <1>3, <2>1, <2>2
  <2>4. Kept(u, w, N)
    BY <1>1, <1>3, <2>1 DEF Kept
  <2>5. QED  BY <2>3, <2>4
<1>4. Fragment(x, p \o q, {}, N)
  BY <1>1, <1>2, <1>3, FragmentConcat
<1>5. QED  BY <1>4 DEF Fills, N

LEMMA FillsAll ==
  ASSUME NEW x, NEW fs, NEW n \in Nat, fs = [i \in 1 .. n |-> fs[i]], NEW P, NEW b, NEW S,
         \A i \in 1 .. n : Fills(x, fs[i], P[i], b),
         \A p : p \in S <=> \E i \in 1 .. n : p \in P[i]
  PROVE  Fills(x, FlattenSeq(fs), S, b)
<1> DEFINE N == {Clause(S, b)}   rd == [i \in 1 .. n |-> {}]   wr == [i \in 1 .. n |-> {Clause(P[i], b)}]
<1>1. /\ Touched(N) = S /\ \A c \in N : c.polys = S /\ c.bound = b
      /\ Touched({}) = {} /\ \A w : Holds(w, {})
  BY DEF Clause, Touched, Holds
<1>2. ASSUME NEW i \in 1 .. n
      PROVE  /\ rd[i] = {} /\ Touched(wr[i]) = P[i] /\ \A c \in wr[i] : c.bound = b
             /\ Fragment(x, fs[i], rd[i], wr[i])
  BY DEF Clause, Touched, Fills
<1> HIDE DEF N, rd, wr
<1>3. Fragment(x, FlattenSeq(fs), {}, N)
  <2>1. \A i \in 1 .. n : Fragment(x, fs[i], rd[i], wr[i])
    BY <1>2
  <2>2. \A i \in 1 .. n : \A v \in Memories(x) : Holds(v, {}) => Holds(v, rd[i])
    BY <1>2
  <2>3. \A i, j \in 1 .. n : j < i => \A p \in Touched(rd[i]) : p \notin Touched(wr[j])
    BY <1>1, <1>2
  <2>4. \A c \in N : \A p \in c.polys : \E i \in 1 .. n : p \in Touched(wr[i])
    BY <1>1, <1>2
  <2>5. \A i \in 1 .. n : Touched(wr[i]) \subseteq Touched(N)
    BY <1>1, <1>2
  <2>6. \A i \in 1 .. n : \A d \in wr[i] : \A c \in N : \A p \in c.polys : \A r \in Intervals :
          p \in d.polys /\ Within(r, d.bound) => Within(r, c.bound)
    BY <1>1, <1>2
  <2>7. QED  BY <2>1, <2>2, <2>3, <2>4, <2>5, <2>6, LoopRuns
<1>4. QED  BY <1>3 DEF Fills, N

LEMMA FillsVector ==
  ASSUME NEW v, NEW b
  PROVE  /\ All(v, b) = Clause({v[i] : i \in DOMAIN v}, b)
         /\ \A p : Lies(p, b) = Clause({p}, b)
BY DEF All, Lies, Clause

LEMMA FillsEach ==
  ASSUME NEW x, NEW fs, NEW n \in Nat, NEW v, DOMAIN v = 1 .. n, NEW b,
         fs = [i \in 1 .. n |-> fs[i]], \A i \in 1 .. n : Fragment(x, fs[i], {}, {Lies(v[i], b)})
  PROVE  Fragment(x, FlattenSeq(fs), {}, {All(v, b)})
<1> DEFINE S == {v[i] : i \in DOMAIN v}   P == [i \in 1 .. n |-> {v[i]}]
<1>1. \A i \in 1 .. n : P[i] = {v[i]}
  OBVIOUS
<1>2. \A p : p \in S <=> \E i \in 1 .. n : p \in P[i]
  BY <1>1
<1> HIDE DEF P
<1>3. \A i \in 1 .. n : Fills(x, fs[i], P[i], b)
  BY <1>1, FillsVector DEF Fills
<1>4. All(v, b) = Clause(S, b)
  BY FillsVector
<1> HIDE DEF S
<1>5. Fills(x, FlattenSeq(fs), S, b)
  BY <1>2, <1>3, FillsAll
<1>6. QED  BY <1>4, <1>5 DEF Fills

LEMMA BatchesRun ==
  ASSUME NEW x, NEW v, NEW n \in Nat, DOMAIN v = 1 .. n, Build
  PROVE  /\ Fragment(x, poly_uniform_4x(v), {}, {All(v, Canonical)})
         /\ Fragment(x, poly_uniform_eta_4x(v), {}, {All(v, EtaBound)})
         /\ Fragment(x, poly_uniform_gamma1_4x(v), {}, {All(v, ZBound)})
<1>1. Fragment(x, poly_uniform_4x(v), {}, {All(v, Canonical)})
  <2> DEFINE fs == [i \in DOMAIN v |-> <<Produce(v[i], Interval(0, Q - 1))>>]
  <2>1. /\ fs = [i \in 1 .. n |-> fs[i]]
        /\ \A i \in 1 .. n : fs[i] = <<Produce(v[i], Interval(0, Q - 1))>>
        /\ Each(v, LAMBDA a : <<Produce(a, Interval(0, Q - 1))>>) = FlattenSeq(fs)
    BY DEF Each
  <2> HIDE DEF fs
  <2>2. \A i \in 1 .. n : Fragment(x, fs[i], {}, {Lies(v[i], Canonical)})
    BY <2>1, UniformRuns
  <2>3. Fragment(x, FlattenSeq(fs), {}, {All(v, Canonical)})
    BY <2>1, <2>2, FillsEach
  <2>4. QED  BY <2>1, <2>3, ContractRuns DEF poly_uniform_4x, poly_uniform_4x_h
<1>2. Fragment(x, poly_uniform_eta_4x(v), {}, {All(v, EtaBound)})
  <2> DEFINE fs == [i \in DOMAIN v |-> <<Produce(v[i], Interval(-ETA, ETA))>>]
  <2>1. /\ fs = [i \in 1 .. n |-> fs[i]]
        /\ \A i \in 1 .. n : fs[i] = <<Produce(v[i], Interval(-ETA, ETA))>>
        /\ Each(v, LAMBDA a : <<Produce(a, Interval(-ETA, ETA))>>) = FlattenSeq(fs)
    BY DEF Each
  <2> HIDE DEF fs
  <2>2. \A i \in 1 .. n : Fragment(x, fs[i], {}, {Lies(v[i], EtaBound)})
    BY <2>1, EtaRuns
  <2>3. Fragment(x, FlattenSeq(fs), {}, {All(v, EtaBound)})
    BY <2>1, <2>2, FillsEach
  <2>4. QED  BY <2>1, <2>3, ContractRuns DEF poly_uniform_eta_4x, poly_uniform_eta_4x_h
<1>3. Fragment(x, poly_uniform_gamma1_4x(v), {}, {All(v, ZBound)})
  <2> DEFINE fs == [i \in DOMAIN v |-> polyz_unpack(v[i])]
  <2>1. /\ fs = [i \in 1 .. n |-> fs[i]]
        /\ \A i \in 1 .. n : fs[i] = polyz_unpack(v[i])
        /\ Each(v, polyz_unpack) = FlattenSeq(fs)
    BY DEF Each
  <2> HIDE DEF fs
  <2>2. \A i \in 1 .. n : Fragment(x, fs[i], {}, {Lies(v[i], ZBound)})
    BY <2>1, UnpackedPolynomials
  <2>3. Fragment(x, FlattenSeq(fs), {}, {All(v, ZBound)})
    BY <2>1, <2>2, FillsEach
  <2>4. QED  BY <2>1, <2>3, ContractRuns DEF poly_uniform_gamma1_4x, poly_uniform_gamma1_4x_h
<1>4. QED  BY <1>1, <1>2, <1>3

\* The matrix, row after row.
LEMMA MatrixCells ==
  ASSUME Build, NEW k, k \in 0 .. K * L - 1
  PROVE  \E i \in 1 .. K, j \in 1 .. L :
           (k \div L) + 1 = i /\ (k % L) + 1 = j /\ k = (i - 1) * L + (j - 1)
<1> DEFINE i == (k \div L) + 1   j == (k % L) + 1
<1>1. i \in 1 .. K /\ j \in 1 .. L /\ k = (i - 1) * L + (j - 1)
  <2>1. CASE K = 4 /\ L = 4
    BY <2>1, SMT
  <2>2. CASE K = 6 /\ L = 5
    BY <2>2, SMT
  <2>3. CASE K = 8 /\ L = 7
    BY <2>3, SMT
  <2>4. QED  BY <2>1, <2>2, <2>3 DEF Build
<1>2. QED  BY <1>1

LEMMA MatrixFields ==
  ASSUME Build
  PROVE  /\ DOMAIN Matrix = 1 .. K
         /\ \A i \in 1 .. K : /\ DOMAIN Matrix[i] = 1 .. L
                              /\ \A j \in 1 .. L : Matrix[i][j] = <<"mat", (i - 1) * L + (j - 1)>>
BY LengthIsNat DEF Matrix

LEMMA EntryIs ==
  ASSUME Build, NEW k \in 0 .. K * L - 1
  PROVE  Entry(k) = <<"mat", k>>
<1>1. PICK i \in 1 .. K, j \in 1 .. L :
        (k \div L) + 1 = i /\ (k % L) + 1 = j /\ k = (i - 1) * L + (j - 1)
  BY MatrixCells
<1>2. Entry(k) = Matrix[i][j]
  BY <1>1 DEF Entry
<1>3. Matrix[i][j] = <<"mat", (i - 1) * L + (j - 1)>>
  BY MatrixFields
<1>4. QED  BY <1>1, <1>2, <1>3

LEMMA MatPlace ==
  ASSUME Build
  PROVE  /\ Length("mat") = K * L /\ DOMAIN Place("mat") = 1 .. K * L
         /\ \A i \in 1 .. K * L : Place("mat")[i] = <<"mat", i - 1>>
BY PlaceFields DEF Length

LEMMA RowsOfMatrix ==
  ASSUME Build, NEW b
  PROVE  Rows(Matrix, b) = All(Place("mat"), b)
<1> DEFINE P == UNION {{Matrix[i][j] : j \in DOMAIN Matrix[i]} : i \in DOMAIN Matrix}
           S == {Place("mat")[i] : i \in DOMAIN Place("mat")}
<1>1. ASSUME NEW p \in P PROVE p \in S
  <2>1. PICK i \in 1 .. K : p \in {Matrix[i][j] : j \in DOMAIN Matrix[i]}
    BY MatrixFields
  <2>2. PICK j \in 1 .. L : p = Matrix[i][j]
    BY <2>1, MatrixFields
  <2> DEFINE k == (i - 1) * L + (j - 1)
  <2>3. k + 1 \in 1 .. K * L
    <3>1. CASE K = 4 /\ L = 4
      BY <3>1, SMT
    <3>2. CASE K = 6 /\ L = 5
      BY <3>2, SMT
    <3>3. CASE K = 8 /\ L = 7
      BY <3>3, SMT
    <3>4. QED  BY <3>1, <3>2, <3>3 DEF Build
  <2>4. p = <<"mat", k>>
    BY <2>2, MatrixFields
  <2>5. (k + 1) - 1 = k
    BY LengthIsNat
  <2> HIDE DEF k
  <2>6. p = Place("mat")[k + 1] /\ k + 1 \in DOMAIN Place("mat")
    BY <2>3, <2>4, <2>5, MatPlace
  <2>7. QED  BY <2>6
<1>2. ASSUME NEW p \in S PROVE p \in P
  <2>1. PICK m \in 1 .. K * L : p = Place("mat")[m]
    BY MatPlace
  <2>2. p = <<"mat", m - 1>>
    BY <2>1, MatPlace
  <2>3. m - 1 \in 0 .. K * L - 1
    BY LengthIsNat
  <2>4. PICK i \in 1 .. K, j \in 1 .. L : m - 1 = (i - 1) * L + (j - 1)
    BY <2>3, MatrixCells
  <2>5. p = Matrix[i][j] /\ i \in DOMAIN Matrix /\ j \in DOMAIN Matrix[i]
    BY <2>2, <2>4, MatrixFields
  <2>6. QED  BY <2>5
<1>3. P = S
  BY <1>1, <1>2
<1>4. QED  BY <1>3 DEF Rows, All

LEMMA ExpandRuns ==
  ASSUME Build, NEW x
  PROVE  Fragment(x, polyvec_matrix_expand, {}, {All(Place("mat"), Canonical)})
<1> DEFINE groups == (K * L) \div 4   rest == (K * L) % 4
           batch(g) == [j \in 1 .. 4 |-> Entry(4 * (g - 1) + j - 1)]
           fs == [g \in 1 .. groups |-> poly_uniform_4x(batch(g))]
           gs == [i \in 1 .. rest |-> poly_uniform(Entry(4 * groups + i - 1))]
           P == [g \in 1 .. groups |-> {batch(g)[j] : j \in 1 .. 4}]
           O == [i \in 1 .. rest |-> {Entry(4 * groups + i - 1)}]
           PS == UNION {P[g] : g \in 1 .. groups}   OS == UNION {O[i] : i \in 1 .. rest}
           S == {Place("mat")[i] : i \in DOMAIN Place("mat")}
<1>1. K * L \in {16, 30, 56}
  BY LengthIsNat
<1>2. groups \in Nat /\ rest \in Nat /\ K * L = 4 * groups + rest
  BY <1>1, SMT
<1>3. PS \cup OS = S
  <2>1. \A k \in 0 .. K * L - 1 : Entry(k) = <<"mat", k>> /\ Place("mat")[k + 1] = <<"mat", k>>
    <3>1. ASSUME NEW k \in 0 .. K * L - 1
          PROVE  Entry(k) = <<"mat", k>> /\ Place("mat")[k + 1] = <<"mat", k>>
      <4>1. k + 1 \in 1 .. K * L /\ (k + 1) - 1 = k
        BY <1>1
      <4>2. QED  BY <4>1, EntryIs, MatPlace
    <3>2. QED  BY <3>1
  <2>2. ASSUME NEW p \in PS PROVE p \in S
    <3>1. PICK g \in 1 .. groups : p \in P[g]
      OBVIOUS
    <3>2. PICK j \in 1 .. 4 : p = Entry(4 * (g - 1) + j - 1)
      BY <3>1
    <3>3. 4 * (g - 1) + j - 1 \in 0 .. K * L - 1 /\ (4 * (g - 1) + j - 1) + 1 \in 1 .. K * L
      <4> HIDE DEF groups, rest
      <4>1. QED  BY <1>2
    <3>4. QED  BY <2>1, <3>2, <3>3, MatPlace
  <2>3. ASSUME NEW p \in OS PROVE p \in S
    <3>1. PICK i \in 1 .. rest : p = Entry(4 * groups + i - 1)
      OBVIOUS
    <3>2. 4 * groups + i - 1 \in 0 .. K * L - 1 /\ (4 * groups + i - 1) + 1 \in 1 .. K * L
      <4> HIDE DEF groups, rest
      <4>1. QED  BY <1>2
    <3>3. QED  BY <2>1, <3>1, <3>2, MatPlace
  <2>4. ASSUME NEW p \in S PROVE p \in PS \cup OS
    <3>1. PICK m \in 1 .. K * L : p = Place("mat")[m]
      BY MatPlace
    <3>2. m - 1 \in 0 .. K * L - 1 /\ (m - 1) + 1 = m
      BY <1>1
    <3>3. p = Entry(m - 1)
      BY <2>1, <3>1, <3>2
    <3>4. CASE m <= 4 * groups
      <4>1. PICK g \in 1 .. groups, j \in 1 .. 4 : m - 1 = 4 * (g - 1) + j - 1
        <5> DEFINE g == ((m - 1) \div 4) + 1   j == ((m - 1) % 4) + 1
        <5>1. g \in 1 .. groups /\ j \in 1 .. 4 /\ m - 1 = 4 * (g - 1) + j - 1
          <6> HIDE DEF groups, rest
          <6>1. QED  BY <1>2, <3>4, SMT
        <5>2. QED  BY <5>1
      <4>2. p \in P[g]
        BY <3>3, <4>1
      <4>3. QED  BY <4>2
    <3>5. CASE ~(m <= 4 * groups)
      <4>1. m - 4 * groups \in 1 .. rest /\ m - 1 = 4 * groups + (m - 4 * groups) - 1
        <5> HIDE DEF groups, rest
        <5>1. QED  BY <1>2, <3>5
      <4>2. p \in O[m - 4 * groups]
        BY <3>3, <4>1
      <4>3. QED  BY <4>1, <4>2
    <3>6. QED  BY <3>4, <3>5
  <2>5. QED  BY <2>2, <2>3, <2>4
<1>4. ASSUME NEW g \in 1 .. groups PROVE Fills(x, fs[g], P[g], Canonical)
  <2> DEFINE v == batch(g)
  <2>1. DOMAIN v = 1 .. 4
    OBVIOUS
  <2>2. P[g] = {v[j] : j \in DOMAIN v} /\ fs[g] = poly_uniform_4x(v)
    OBVIOUS
  <2> HIDE DEF v, fs, P
  <2>3. Fragment(x, poly_uniform_4x(v), {}, {All(v, Canonical)})
    BY <2>1, BatchesRun
  <2>4. QED  BY <2>2, <2>3, FillsVector DEF Fills
<1>5. ASSUME NEW i \in 1 .. rest PROVE Fills(x, gs[i], O[i], Canonical)
  <2> DEFINE e == Entry(4 * groups + i - 1)
  <2>1. O[i] = {e} /\ gs[i] = poly_uniform(e)
    OBVIOUS
  <2> HIDE DEF e, gs, O
  <2>2. Fragment(x, poly_uniform(e), {}, {Lies(e, Canonical)})
    BY UniformRuns
  <2>3. Lies(e, Canonical) = Clause({e}, Canonical)
    BY FillsVector
  <2>4. QED  BY <2>1, <2>2, <2>3 DEF Fills
<1>6. fs = [g \in 1 .. groups |-> fs[g]] /\ gs = [i \in 1 .. rest |-> gs[i]]
  OBVIOUS
<1>7. \A p : p \in PS <=> \E g \in 1 .. groups : p \in P[g]
  OBVIOUS
<1>8. \A p : p \in OS <=> \E i \in 1 .. rest : p \in O[i]
  OBVIOUS
<1>9. All(Place("mat"), Canonical) = Clause(S, Canonical)
  BY FillsVector
<1>10. polyvec_matrix_expand = Function("polyvec_matrix_expand", polyvec_matrix_expand_h(Matrix),
                                        FlattenSeq(fs) \o FlattenSeq(gs))
  BY DEF polyvec_matrix_expand
<1> HIDE DEF groups, rest, fs, gs, P, O, PS, OS, S
<1>11. Fills(x, FlattenSeq(fs), PS, Canonical)
  BY <1>2, <1>4, <1>6, <1>7, FillsAll
<1>12. Fills(x, FlattenSeq(gs), OS, Canonical)
  BY <1>2, <1>5, <1>6, <1>8, FillsAll
<1>13. Fills(x, FlattenSeq(fs) \o FlattenSeq(gs), S, Canonical)
  BY <1>3, <1>11, <1>12, FillsBoth
<1>14. polyvec_matrix_expand_h(Matrix) = Contract({}, {All(Place("mat"), Canonical)})
  BY RowsOfMatrix DEF polyvec_matrix_expand_h
<1>15. QED  BY <1>9, <1>10, <1>13, <1>14, ContractRuns DEF Fills

Elements(v) == {v[i] : i \in DOMAIN v}

Segment(v, from, to) == {v[i] : i \in from .. to}

LEMMA SubSeqRange ==
  ASSUME NEW v, NEW from \in Nat, NEW to \in Nat, from <= to
  PROVE  /\ DOMAIN SubSeq(v, from, to) = 1 .. to - from + 1 /\ to - from + 1 \in Nat
         /\ Elements(SubSeq(v, from, to)) = Segment(v, from, to)
<1> DEFINE u == SubSeq(v, from, to)
<1>1. /\ DOMAIN u = 1 .. to - from + 1
      /\ \A i \in 1 .. to - from + 1 : u[i] = v[from + i - 1]
  OBVIOUS
<1>2. to - from + 1 \in Nat
  OBVIOUS
<1> HIDE DEF u
<1>3. ASSUME NEW i \in 1 .. to - from + 1 PROVE u[i] \in {v[j] : j \in from .. to}
  <2>1. u[i] = v[from + i - 1]
    BY <1>1
  <2>2. from + i - 1 \in from .. to
    OBVIOUS
  <2>3. QED  BY <2>1, <2>2
<1>4. ASSUME NEW i \in from .. to PROVE v[i] \in {u[j] : j \in DOMAIN u}
  <2>1. i - from + 1 \in 1 .. to - from + 1 /\ from + (i - from + 1) - 1 = i
    OBVIOUS
  <2>2. u[i - from + 1] = v[i] /\ i - from + 1 \in DOMAIN u
    BY <2>1, <1>1
  <2>3. QED  BY <2>2
<1>5. {u[i] : i \in DOMAIN u} = {v[i] : i \in from .. to}
  BY <1>1, <1>3, <1>4
<1>6. QED  BY <1>1, <1>2, <1>5 DEF u, Elements, Segment

LEMMA Gamma1VectorRuns ==
  ASSUME Build, NEW x, NEW n, Length(n) = L
  PROVE  Fragment(x, polyvecl_uniform_gamma1(Place(n)), {}, {All(Place(n), ZBound)})
<1> DEFINE v == Place(n)   S == {v[i] : i \in DOMAIN v}
           body == CASE L = 4 -> poly_uniform_gamma1_4x(v)
                     [] L = 5 -> poly_uniform_gamma1_4x(SubSeq(v, 1, 4)) \o poly_uniform_gamma1(v[5])
                     [] L = 7 -> poly_uniform_gamma1_4x(SubSeq(v, 1, 4))
                                   \o poly_uniform_gamma1_4x(SubSeq(v, 4, 7))
<1>1. DOMAIN v = 1 .. L /\ L \in Nat
  BY PlaceFields, LengthIsNat
<1>2. All(v, ZBound) = Clause(S, ZBound)
  BY FillsVector
<1> HIDE DEF v
<1>4. ASSUME NEW from \in Nat, NEW to \in Nat, from <= to
      PROVE  Fills(x, poly_uniform_gamma1_4x(SubSeq(v, from, to)), Segment(v, from, to), ZBound)
  <2> DEFINE u == SubSeq(v, from, to)
  <2>1. /\ DOMAIN u = 1 .. to - from + 1 /\ to - from + 1 \in Nat
        /\ Elements(u) = Segment(v, from, to)
    <3>1. from <= to
      BY <1>4
    <3>2. QED  BY <3>1, SubSeqRange
  <2> HIDE DEF u
  <2>2. Fragment(x, poly_uniform_gamma1_4x(u), {}, {All(u, ZBound)})
    BY <2>1, BatchesRun
  <2>3. All(u, ZBound) = Clause(Elements(u), ZBound)
    BY DEF All, Clause, Elements
  <2>4. QED  BY <2>1, <2>2, <2>3 DEF Fills, u
<1>5. Fills(x, poly_uniform_gamma1(v[5]), {v[5]}, ZBound)
  BY Gamma1Runs, FillsVector DEF Fills
<1>6. Fills(x, body, S, ZBound)
  <2>1. CASE L = 4
    <3>1. body = poly_uniform_gamma1_4x(v)
      BY <2>1
    <3>2. QED  BY <3>1, <1>1, <1>2, BatchesRun DEF Fills
  <2>2. CASE L = 5
    <3>1. body = poly_uniform_gamma1_4x(SubSeq(v, 1, 4)) \o poly_uniform_gamma1(v[5])
      BY <2>2
    <3>2. S = Segment(v, 1, 4) \cup {v[5]}
      BY <1>1, <2>2 DEF Segment
    <3>3. Fills(x, poly_uniform_gamma1_4x(SubSeq(v, 1, 4)), Segment(v, 1, 4), ZBound)
      BY <1>4
    <3> HIDE DEF body, S
    <3>4. QED  BY <3>1, <3>2, <3>3, <1>5, FillsBoth
  <2>3. CASE L = 7
    <3>1. body = poly_uniform_gamma1_4x(SubSeq(v, 1, 4)) \o poly_uniform_gamma1_4x(SubSeq(v, 4, 7))
      BY <2>3
    <3>2. S = Segment(v, 1, 4) \cup Segment(v, 4, 7)
      BY <1>1, <2>3 DEF Segment
    <3>3. Fills(x, poly_uniform_gamma1_4x(SubSeq(v, 1, 4)), Segment(v, 1, 4), ZBound)
      BY <1>4
    <3>4. Fills(x, poly_uniform_gamma1_4x(SubSeq(v, 4, 7)), Segment(v, 4, 7), ZBound)
      BY <1>4
    <3> HIDE DEF body, S
    <3>5. QED  BY <3>1, <3>2, <3>3, <3>4, FillsBoth
  <2>4. QED  BY <2>1, <2>2, <2>3 DEF Build
<1>7. QED  BY <1>2, <1>6, ContractRuns DEF Fills, polyvecl_uniform_gamma1, polyvecl_uniform_gamma1_h, v

IsVector(u, n) == u = [j \in 1 .. n |-> u[j]]

LEMMA VectorIsSeq ==
  ASSUME NEW u, NEW n \in Nat, IsVector(u, n)
  PROVE  Len(u) = n /\ IsSeq(u)
<1> DEFINE T == {u[j] : j \in 1 .. n}
<1>1. u \in [1 .. n -> T]
  BY DEF IsVector
<1> HIDE DEF T
<1>2. u \in Seq(T) /\ Len(u) = n
  BY <1>1
<1>3. QED  BY <1>2 DEF IsSeq

LEMMA JoinedVectors ==
  ASSUME NEW u, NEW v, NEW n, NEW m, Len(u) = n, IsSeq(u), Len(v) = m, IsSeq(v)
  PROVE  /\ \A i \in 1 .. n : (u \o v)[i] = u[i]
         /\ \A i \in 1 .. m : (u \o v)[n + i] = v[i]
BY Concat

LEMMA SampleRuns ==
  ASSUME Build, NEW x
  PROVE  Fragment(x, sample_s1_s2(Place("s1"), Place("s2")), {},
                  {All(Place("s1"), EtaBound), All(Place("s2"), EtaBound)})
<1> DEFINE s1 == Place("s1")   s2 == Place("s2")   v == s1 \o s2
           first == CASE K = 4 -> <<1, 5>> [] K = 6 -> <<1, 5, 8>> [] K = 8 -> <<1, 5, 8, 12>>
           n == IF K = 4 THEN 2 ELSE IF K = 6 THEN 3 ELSE 4
           fs == [i \in DOMAIN first |-> poly_uniform_eta_4x(SubSeq(v, first[i], first[i] + 3))]
           P == [i \in 1 .. n |-> Segment(v, first[i], first[i] + 3)]
           S == {v[j] : j \in 1 .. L + K}
           body == Each(first, LAMBDA b : poly_uniform_eta_4x(SubSeq(v, b, b + 3)))
<1>1. /\ DOMAIN s1 = 1 .. L /\ DOMAIN s2 = 1 .. K /\ L \in Nat /\ K \in Nat
      /\ s1 = [i \in 1 .. L |-> <<"s1", i - 1>>] /\ s2 = [i \in 1 .. K |-> <<"s2", i - 1>>]
  BY LengthIsNat DEF Length, Place, Vector
<1>2. /\ \A i \in 1 .. L : v[i] = s1[i]
      /\ \A i \in 1 .. K : v[L + i] = s2[i]
  <2>1. Len(s1) = L /\ Len(s2) = K /\ IsSeq(s1) /\ IsSeq(s2)
    <3>1. IsVector(s1, L) /\ IsVector(s2, K)
      BY <1>1 DEF IsVector
    <3> HIDE DEF s1, s2
    <3>2. QED  BY <1>1, <3>1, VectorIsSeq
  <2> HIDE DEF s1, s2
  <2>2. QED  BY <2>1, JoinedVectors
<1> HIDE DEF v
<1>3. DOMAIN first = 1 .. n /\ n \in Nat
  <2>1. CASE K = 4
    BY <2>1
  <2>2. CASE K = 6
    BY <2>2
  <2>3. CASE K = 8
    BY <2>3
  <2>4. QED  BY <2>1, <2>2, <2>3 DEF Build
<1>4. \A i \in 1 .. n : first[i] \in Nat
  <2>1. CASE K = 4
    BY <2>1
  <2>2. CASE K = 6
    BY <2>2
  <2>3. CASE K = 8
    BY <2>3
  <2>4. QED  BY <2>1, <2>2, <2>3 DEF Build
<1>5. \A j : j \in 1 .. L + K <=> \E i \in 1 .. n : j \in first[i] .. first[i] + 3
  <2>1. CASE K = 4 /\ L = 4
    <3>1. n = 2 /\ first[1] = 1 /\ first[2] = 5
      BY <2>1
    <3> HIDE DEF first, n
    <3>2. \A j : j \in 1 .. L + K <=> j \in 1 .. 4 \/ j \in 5 .. 8
      BY <2>1
    <3>3. \A j : (\E i \in 1 .. n : j \in first[i] .. first[i] + 3)
                    <=> j \in 1 .. 4 \/ j \in 5 .. 8
      <4>1. \A i : i \in 1 .. n <=> i = 1 \/ i = 2
        BY <3>1
      <4>2. 1 + 3 = 4 /\ 5 + 3 = 8
        OBVIOUS
      <4>3. QED  BY <3>1, <4>1, <4>2, Zenon
    <3>4. QED  BY <3>2, <3>3
  <2>2. CASE K = 6 /\ L = 5
    <3>1. n = 3 /\ first[1] = 1 /\ first[2] = 5 /\ first[3] = 8
      BY <2>2
    <3> HIDE DEF first, n
    <3>2. \A j : j \in 1 .. L + K <=> j \in 1 .. 4 \/ j \in 5 .. 8 \/ j \in 8 .. 11
      BY <2>2
    <3>3. \A j : (\E i \in 1 .. n : j \in first[i] .. first[i] + 3)
                    <=> j \in 1 .. 4 \/ j \in 5 .. 8 \/ j \in 8 .. 11
      <4>1. \A i : i \in 1 .. n <=> i = 1 \/ i = 2 \/ i = 3
        BY <3>1
      <4>2. 1 + 3 = 4 /\ 5 + 3 = 8 /\ 8 + 3 = 11
        OBVIOUS
      <4>3. QED  BY <3>1, <4>1, <4>2, Zenon
    <3>4. QED  BY <3>2, <3>3
  <2>3. CASE K = 8 /\ L = 7
    <3>1. n = 4 /\ first[1] = 1 /\ first[2] = 5 /\ first[3] = 8 /\ first[4] = 12
      BY <2>3
    <3> HIDE DEF first, n
    <3>2. \A j : j \in 1 .. L + K <=> j \in 1 .. 4 \/ j \in 5 .. 8 \/ j \in 8 .. 11 \/ j \in 12 .. 15
      BY <2>3
    <3>3. \A j : (\E i \in 1 .. n : j \in first[i] .. first[i] + 3)
                    <=> j \in 1 .. 4 \/ j \in 5 .. 8 \/ j \in 8 .. 11 \/ j \in 12 .. 15
      <4>1. \A i : i \in 1 .. n <=> i = 1 \/ i = 2 \/ i = 3 \/ i = 4
        BY <3>1
      <4>2. 1 + 3 = 4 /\ 5 + 3 = 8 /\ 8 + 3 = 11 /\ 12 + 3 = 15
        OBVIOUS
      <4>3. QED  BY <3>1, <4>1, <4>2, Zenon
    <3>4. QED  BY <3>2, <3>3
  <2>4. QED  BY <2>1, <2>2, <2>3 DEF Build
<1>6. /\ fs = [i \in 1 .. n |-> fs[i]] /\ body = FlattenSeq(fs)
      /\ \A i \in 1 .. n : fs[i] = poly_uniform_eta_4x(SubSeq(v, first[i], first[i] + 3))
  <2> HIDE DEF first, n
  <2>1. QED  BY <1>3 DEF Each
<1>7. sample_s1_s2(s1, s2) = Function("sample_s1_s2",
                               Contract({}, {All(s1, EtaBound), All(s2, EtaBound)}), body)
  BY DEF sample_s1_s2, v
<1> HIDE DEF first, n, fs, body
<1>8. ASSUME NEW i \in 1 .. n PROVE Fills(x, fs[i], P[i], EtaBound)
  <2> DEFINE b == first[i]   u == SubSeq(v, b, b + 3)
  <2>1. b \in Nat /\ b + 3 \in Nat /\ b <= b + 3
    BY <1>4
  <2>2. /\ DOMAIN u = 1 .. (b + 3) - b + 1 /\ (b + 3) - b + 1 \in Nat
        /\ Elements(u) = Segment(v, b, b + 3)
    <3> HIDE DEF b
    <3>1. QED  BY <2>1, SubSeqRange
  <2>3. P[i] = Elements(u) /\ fs[i] = poly_uniform_eta_4x(u)
    BY <2>2, <1>6
  <2> HIDE DEF u, b, P
  <2>4. Fragment(x, poly_uniform_eta_4x(u), {}, {All(u, EtaBound)})
    BY <2>2, BatchesRun
  <2>5. All(u, EtaBound) = Clause(Elements(u), EtaBound)
    BY DEF All, Clause, Elements
  <2>6. QED  BY <2>3, <2>4, <2>5 DEF Fills
<1>9. \A p : p \in S <=> \E i \in 1 .. n : p \in P[i]
  BY <1>5 DEF Segment
<1>10. \A p : p \in S <=> (\E i \in 1 .. L : p = s1[i]) \/ (\E i \in 1 .. K : p = s2[i])
  <2>1. ASSUME NEW i \in 1 .. L PROVE s1[i] \in S
    <3>1. i \in 1 .. L + K
      BY <1>1
    <3>2. QED  BY <3>1, <1>2
  <2>2. ASSUME NEW i \in 1 .. K PROVE s2[i] \in S
    <3>1. L + i \in 1 .. L + K
      BY <1>1
    <3>2. QED  BY <3>1, <1>2
  <2>3. ASSUME NEW i \in 1 .. L + K
        PROVE  (\E j \in 1 .. L : v[i] = s1[j]) \/ (\E j \in 1 .. K : v[i] = s2[j])
    <3>1. i \in 1 .. L \/ (i - L \in 1 .. K /\ L + (i - L) = i)
      BY <1>1
    <3>2. QED  BY <3>1, <1>2
  <2> HIDE DEF s1, s2
  <2>4. QED  BY <2>1, <2>2, <2>3
<1> HIDE DEF P, S
<1>11. Fills(x, FlattenSeq(fs), S, EtaBound)
  BY <1>3, <1>6, <1>8, <1>9, FillsAll
<1> DEFINE N == {Clause(S, EtaBound)}   N1 == {All(s1, EtaBound), All(s2, EtaBound)}
<1>12. /\ Touched(N) = S
       /\ \A w : Holds(w, N) <=> \A p \in S : p \in DOMAIN w /\ Within(w[p], EtaBound)
  BY ClauseFields
<1>13. /\ \A p : p \in All(s1, EtaBound).polys <=> \E i \in 1 .. L : p = s1[i]
       /\ \A p : p \in All(s2, EtaBound).polys <=> \E i \in 1 .. K : p = s2[i]
       /\ All(s1, EtaBound).bound = EtaBound /\ All(s2, EtaBound).bound = EtaBound
  <2>1. DOMAIN s1 = 1 .. L /\ DOMAIN s2 = 1 .. K
    BY <1>1
  <2> HIDE DEF s1, s2
  <2>2. /\ All(s1, EtaBound).bound = EtaBound
        /\ \A p : p \in All(s1, EtaBound).polys <=> \E i \in 1 .. L : p = s1[i]
    BY <2>1 DEF All
  <2>3. /\ All(s2, EtaBound).bound = EtaBound
        /\ \A p : p \in All(s2, EtaBound).polys <=> \E i \in 1 .. K : p = s2[i]
    BY <2>1 DEF All
  <2>4. QED  BY <2>2, <2>3
<1> HIDE DEF N, s1, s2
<1>14. \A w : Holds(w, N) => Holds(w, N1)
  BY <1>10, <1>12, <1>13 DEF Holds
<1>15. \A p : p \in Touched(N) => p \in Touched(N1)
  BY <1>10, <1>12, <1>13 DEF Touched
<1> HIDE DEF N1
<1>16. Fragment(x, FlattenSeq(fs), {}, N1)
  <2>1. \A v1, w \in Memories(x) : Holds(v1, {}) /\ Holds(w, N) /\ Kept(v1, w, N)
                                     => Holds(w, N1) /\ Kept(v1, w, N1)
    BY <1>14, <1>15 DEF Kept
  <2>2. Fragment(x, FlattenSeq(fs), {}, N)
    BY <1>11 DEF Fills, N
  <2>3. \A v1 \in Memories(x) : Holds(v1, {}) => Holds(v1, {})
    OBVIOUS
  <2>4. QED  BY <2>1, <2>2, <2>3, FragmentWeaken
<1>17. QED  BY <1>6, <1>7, <1>16, ContractRuns DEF N1, s1, s2

LEMMA AccRuns ==
  ASSUME Build, NEW x, NEW w, NEW u, NEW v,
         IsVector(u, L), IsVector(v, L)
  PROVE  Fragment(x, polyvecl_pointwise_acc_montgomery(w, u, v),
                  {All(u, Canonical), All(v, NttOutput)}, {Lies(w, BelowQ)})
<1> DEFINE in == u \o v   s == Work("acc", w, in, L)   R == {All(u, Canonical), All(v, NttOutput)}
<1>1. /\ s.kind = "work" /\ s.out = w
      /\ \A m : Result(s, m) = MontgomeryInterval(L, HullOf(m, in, 1, L), HullOf(m, in, L + 1, 2 * L))
  <2> HIDE DEF in
  <2>1. s.kind = "work" /\ s.out = w /\ s.op = "acc" /\ s.in = in /\ s.arg = L
    BY WorkFields
  <2> HIDE DEF s
  <2>2. QED  BY <2>1 DEF Result
<1>2. L \in 1 .. 7 /\ L # 1
  BY LengthIsNat DEF Build
<1>3. /\ \A i \in 1 .. L : in[i] = u[i]
      /\ \A i \in L + 1 .. 2 * L : in[i] = v[i - L]
  <2>1. /\ \A i \in 1 .. L : (u \o v)[i] = u[i]
        /\ \A i \in 1 .. L : (u \o v)[L + i] = v[i]
    <3>1. L \in Nat
      BY <1>2
    <3>2. Len(u) = L /\ IsSeq(u)
      BY <3>1, VectorIsSeq
    <3>3. Len(v) = L /\ IsSeq(v)
      BY <3>1, VectorIsSeq
    <3>4. QED  BY <3>2, <3>3, JoinedVectors
  <2>4. \A i \in L + 1 .. 2 * L : i - L \in 1 .. L /\ L + (i - L) = i
    BY <1>2
  <2>5. QED  BY <2>1, <2>4
<1> HIDE DEF s, in
<1>4. ASSUME NEW m \in Memories(x), Holds(m, R)
      PROVE  /\ \A i \in 1 .. L : m[u[i]] \in Intervals /\ Within(m[u[i]], Canonical)
             /\ \A i \in 1 .. L : m[v[i]] \in Intervals /\ Within(m[v[i]], NttOutput)
  <2>1. DOMAIN u = 1 .. L /\ DOMAIN v = 1 .. L
    BY DEF IsVector
  <2>2. ASSUME NEW i \in 1 .. L PROVE m[u[i]] \in Intervals /\ Within(m[u[i]], Canonical)
    <3>1. u[i] \in All(u, Canonical).polys /\ All(u, Canonical).bound = Canonical
      BY <2>1 DEF All
    <3>2. QED  BY <3>1, <1>4 DEF Holds, Memories
  <2>3. ASSUME NEW i \in 1 .. L PROVE m[v[i]] \in Intervals /\ Within(m[v[i]], NttOutput)
    <3>1. v[i] \in All(v, NttOutput).polys /\ All(v, NttOutput).bound = NttOutput
      BY <2>1 DEF All
    <3>2. QED  BY <3>1, <1>4 DEF Holds, Memories
  <2>4. QED  BY <2>2, <2>3
<1> HIDE DEF R
<1>5. ASSUME NEW m \in Memories(x), Holds(m, R)
      PROVE  Result(s, m) \in Intervals /\ Within(Result(s, m), BelowQ)
  <2> DEFINE h == HullOf(m, in, 1, L)   g == HullOf(m, in, L + 1, 2 * L)
  <2>1. Canonical \in Intervals /\ NttOutput \in Intervals
    BY FixedBounds DEF Is
  <2>2. \A i \in 1 .. L : m[in[i]] \in Intervals /\ Within(m[in[i]], Canonical)
    BY <1>3, <1>4, <1>5
  <2>3. ASSUME NEW i \in L + 1 .. 2 * L PROVE m[in[i]] \in Intervals /\ Within(m[in[i]], NttOutput)
    <3>1. i - L \in 1 .. L
      BY <1>2
    <3>2. QED  BY <3>1, <1>3, <1>4, <1>5
  <2>4. 1 \in Int /\ L \in Int /\ 1 <= L /\ L + 1 \in Int /\ 2 * L \in Int /\ L + 1 <= 2 * L
    BY <1>2
  <2>5. h \in Intervals /\ Within(h, Canonical)
    BY <2>1, <2>2, <2>4, HullsFit
  <2>6. g \in Intervals /\ Within(g, NttOutput)
    BY <2>1, <2>3, <2>4, HullsFit
  <2> HIDE DEF h, g
  <2>7. MontgomeryInterval(L, h, g) \in Intervals /\ Within(MontgomeryInterval(L, h, g), BelowQ)
    BY <1>2, <2>5, <2>6, MontgomeryFits
  <2>8. QED  BY <2>7, <1>1 DEF h, g
<1>6. Fragment(x, <<s>>, R, {Lies(w, BelowQ)})
  <2>1. Fragment(x, <<s>>, R, {Lies(s.out, BelowQ)})
    BY <1>1, <1>5, WorkRuns
  <2>2. QED  BY <2>1, <1>1
<1>7. QED
  BY <1>6, ContractRuns
  DEF polyvecl_pointwise_acc_montgomery, polyvecl_pointwise_acc_montgomery_h, R, s, in

LEMMA RowRuns ==
  ASSUME Build, NEW x, NEW m, NEW n, Length(m) = K, Length(n) = L, m # "mat", m # n
  PROVE  Fragment(x, polyvec_matrix_pointwise_montgomery(Place(m), Place(n)),
                  {All(Place("mat"), Canonical), All(Place(n), NttOutput)}, {All(Place(m), BelowQ)})
<1> DEFINE v == Place(n)   t == Place(m)
           fs == [i \in DOMAIN Matrix |-> polyvecl_pointwise_acc_montgomery(t[i], Matrix[i], v)]
           R == {All(Place("mat"), Canonical), All(v, NttOutput)}   N == {All(t, BelowQ)}
           rd == [i \in 1 .. K |-> {All(Matrix[i], Canonical), All(v, NttOutput)}]
           wr == [i \in 1 .. K |-> {Lies(t[i], BelowQ)}]
<1>1. /\ fs = [i \in 1 .. K |-> fs[i]]
      /\ \A i \in 1 .. K : fs[i] = polyvecl_pointwise_acc_montgomery(t[i], Matrix[i], v)
      /\ Each2(t, Matrix, LAMBDA o, row : polyvecl_pointwise_acc_montgomery(o, row, v)) = FlattenSeq(fs)
  BY MatrixFields DEF Each2
<1>2. \A i \in 1 .. K : /\ rd[i] = {All(Matrix[i], Canonical), All(v, NttOutput)}
                        /\ wr[i] = {Lies(t[i], BelowQ)}
  OBVIOUS
<1>3. /\ DOMAIN t = 1 .. K /\ DOMAIN v = 1 .. L /\ IsVector(v, L)
      /\ \A i \in 1 .. K : t[i] = <<m, i - 1>>
      /\ \A i \in 1 .. L : v[i] = <<n, i - 1>>
  BY PlaceFields DEF Place, Vector, IsVector
<1>4. \A i \in 1 .. K : IsVector(Matrix[i], L)
  BY DEF Matrix, IsVector
<1> HIDE DEF fs, rd, wr, v, t
<1>5. ASSUME NEW i \in 1 .. K PROVE Fragment(x, fs[i], rd[i], wr[i])
  <2>1. Fragment(x, polyvecl_pointwise_acc_montgomery(t[i], Matrix[i], v),
                 {All(Matrix[i], Canonical), All(v, NttOutput)}, {Lies(t[i], BelowQ)})
    <3> DEFINE row == Matrix[i]
    <3>1. IsVector(row, L)
      BY <1>4
    <3> HIDE DEF row
    <3>2. Fragment(x, polyvecl_pointwise_acc_montgomery(t[i], row, v),
                   {All(row, Canonical), All(v, NttOutput)}, {Lies(t[i], BelowQ)})
      BY <3>1, <1>3, AccRuns
    <3>3. QED  BY <3>2 DEF row
  <2>2. QED  BY <2>1, <1>1, <1>2
<1>6. \A i \in 1 .. K : \A p \in Touched(wr[i]) : p = t[i]
  BY <1>2 DEF Touched, Lies
<1>7. ASSUME NEW i \in 1 .. K
      PROVE  /\ t[i] \in Touched(wr[i])
             /\ \A d \in wr[i] : d.bound = BelowQ /\ d.polys = {t[i]}
  <2>1. \A d \in wr[i] : d.bound = BelowQ /\ d.polys = {t[i]}
    BY <1>2 DEF Lies
  <2>2. Lies(t[i], BelowQ) \in wr[i]
    BY <1>2
  <2>3. QED  BY <2>1, <2>2 DEF Touched
<1>8. ASSUME NEW i \in 1 .. K
      PROVE  /\ All(Matrix[i], Canonical).bound = Canonical
             /\ \A p \in All(Matrix[i], Canonical).polys : \E k \in 1 .. K * L : p = Place("mat")[k]
  <2>1. Rows(Matrix, Canonical) = All(Place("mat"), Canonical)
    BY RowsOfMatrix
  <2>2. ASSUME NEW p \in All(Matrix[i], Canonical).polys PROVE p \in Rows(Matrix, Canonical).polys
    BY MatrixFields DEF All, Rows
  <2>3. \A p \in All(Place("mat"), Canonical).polys : \E k \in 1 .. K * L : p = Place("mat")[k]
    BY MatPlace DEF All
  <2>4. All(Matrix[i], Canonical).bound = Canonical
    BY DEF All
  <2>5. QED  BY <2>1, <2>2, <2>3, <2>4
<1>9. \A k \in 1 .. K * L : Place("mat")[k] \in All(Place("mat"), Canonical).polys
      /\ All(Place("mat"), Canonical).bound = Canonical
  BY MatPlace DEF All
<1>10. ASSUME NEW i \in 1 .. K, NEW o \in Memories(x), Holds(o, R) PROVE Holds(o, rd[i])
  <2>1. ASSUME NEW p \in All(Matrix[i], Canonical).polys
        PROVE  p \in DOMAIN o /\ Within(o[p], Canonical)
    BY <1>8, <1>9, <1>10 DEF Holds
  <2>2. QED  BY <1>2, <1>8, <1>10, <2>1 DEF Holds
<1>11. ASSUME NEW i \in 1 .. K, NEW j \in 1 .. K, NEW p \in Touched(rd[i]) PROVE p \notin Touched(wr[j])
  <2>1. p \in All(Matrix[i], Canonical).polys \/ p \in All(v, NttOutput).polys
    BY <1>2, <1>11 DEF Touched
  <2>2. CASE p \in All(Matrix[i], Canonical).polys
    <3>1. PICK k \in 1 .. K * L : p = Place("mat")[k]
      BY <2>2, <1>8
    <3>2. p = <<"mat", k - 1>>
      BY <3>1, MatPlace
    <3>3. p # t[j]
      BY <3>2, <1>3
    <3>4. QED  BY <3>3, <1>6
  <2>3. CASE p \in All(v, NttOutput).polys
    <3>1. PICK k \in 1 .. L : p = <<n, k - 1>>
      BY <2>3, <1>3 DEF All
    <3>2. p # t[j]
      BY <3>1, <1>3
    <3>3. QED  BY <3>2, <1>6
  <2>4. QED  BY <2>1, <2>2, <2>3
<1>12. All(t, BelowQ).bound = BelowQ /\ \A p : p \in All(t, BelowQ).polys <=> \E i \in 1 .. K : p = t[i]
  BY <1>3 DEF All
<1>13. /\ \A c \in N : \A p \in c.polys : \E i \in 1 .. K : p \in Touched(wr[i])
       /\ \A c \in N : c.bound = BelowQ
  BY <1>7, <1>12
<1>14. \A i \in 1 .. K : Touched(wr[i]) \subseteq Touched(N)
  BY <1>6, <1>12 DEF Touched
<1>15. \A i \in 1 .. K : \A d \in wr[i] : \A c \in N : \A p \in c.polys : \A r \in Intervals :
         p \in d.polys /\ Within(r, d.bound) => Within(r, c.bound)
  BY <1>7, <1>13
<1>16. K \in Nat
  BY LengthIsNat
<1>17. \A i \in 1 .. K : \A o \in Memories(x) : Holds(o, R) => Holds(o, rd[i])
  BY <1>10
<1>18. \A i, j \in 1 .. K : j < i => \A p \in Touched(rd[i]) : p \notin Touched(wr[j])
  BY <1>11
<1> HIDE DEF R, N
<1>19. Fragment(x, FlattenSeq(fs), R, N)
  BY <1>1, <1>5, <1>13, <1>14, <1>15, <1>16, <1>17, <1>18, LoopRuns
<1>20. polyvec_matrix_pointwise_montgomery_h(t, Matrix, v) = Contract(R, N)
  BY RowsOfMatrix DEF polyvec_matrix_pointwise_montgomery_h, R, N
<1>21. QED  BY <1>1, <1>19, <1>20, ContractRuns DEF polyvec_matrix_pointwise_montgomery, R, N, t, v

-------------------------------------------------------------------------------
(***************************************************************************)
(* Programs over slots.                                                    *)
(***************************************************************************)
Has(w, q) ==
  \A k \in 1 .. Length(q.name) :
    <<q.name, k - 1>> \in DOMAIN w /\ Within(w[<<q.name, k - 1>>], q.bound)

LEMMA SlotPolys ==
  ASSUME Build, NEW q, q.vec = Place(q.name)
  PROVE  /\ All(q.vec, q.bound).bound = q.bound
         /\ \A p : p \in All(q.vec, q.bound).polys
                     <=> \E k \in 1 .. Length(q.name) : p = <<q.name, k - 1>>
<1>1. DOMAIN q.vec = 1 .. Length(q.name)
      /\ \A k \in 1 .. Length(q.name) : q.vec[k] = <<q.name, k - 1>>
  BY PlaceFields
<1>2. QED  BY <1>1 DEF All

LEMMA TouchedSlots ==
  ASSUME Build, NEW ES, AreSlots(ES), NEW p
  PROVE  p \in Touched(AllOf(ES)) <=> \E q \in ES : \E k \in 1 .. Length(q.name) : p = <<q.name, k - 1>>
<1>1. \A q \in ES : \A o : o \in All(q.vec, q.bound).polys
                             <=> \E k \in 1 .. Length(q.name) : o = <<q.name, k - 1>>
  BY SlotPolys DEF AreSlots
<1>2. p \in Touched(AllOf(ES)) <=> \E q \in ES : p \in All(q.vec, q.bound).polys
  BY DEF Touched, AllOf
<1>3. QED  BY <1>1, <1>2

LEMMA HoldsSlots ==
  ASSUME Build, NEW ES, AreSlots(ES), NEW w
  PROVE  Holds(w, AllOf(ES)) <=> \A q \in ES : Has(w, q)
<1>1. \A q \in ES : /\ All(q.vec, q.bound).bound = q.bound
                    /\ \A o : o \in All(q.vec, q.bound).polys
                                <=> \E k \in 1 .. Length(q.name) : o = <<q.name, k - 1>>
  BY SlotPolys DEF AreSlots
<1>2. Holds(w, AllOf(ES)) <=> \A q \in ES : \A o \in All(q.vec, q.bound).polys :
                                o \in DOMAIN w /\ Within(w[o], All(q.vec, q.bound).bound)
  BY DEF Holds, AllOf
<1>3. ASSUME NEW q \in ES
      PROVE  (\A o \in All(q.vec, q.bound).polys :
                o \in DOMAIN w /\ Within(w[o], All(q.vec, q.bound).bound)) <=> Has(w, q)
  BY <1>1 DEF Has
<1>4. QED  BY <1>2, <1>3

\* What is written to other vectors leaves a slot as it is.
LEMMA SlotKept ==
  ASSUME Build, NEW NS, AreSlots(NS), NEW u, NEW w, Kept(u, w, AllOf(NS)), DOMAIN u = DOMAIN w,
         NEW q, Has(u, q), \A n \in NS : n.name # q.name
  PROVE  Has(w, q)
<1>1. ASSUME NEW k \in 1 .. Length(q.name)
      PROVE  <<q.name, k - 1>> \in DOMAIN w /\ Within(w[<<q.name, k - 1>>], q.bound)
  <2> DEFINE p == <<q.name, k - 1>>
  <2>1. p \in DOMAIN u /\ Within(u[p], q.bound)
    BY DEF Has
  <2>2. p \notin Touched(AllOf(NS))
    BY TouchedSlots
  <2> HIDE DEF p
  <2>3. w[p] = u[p]
    BY <2>1, <2>2 DEF Kept
  <2>4. QED  BY <2>1, <2>3 DEF p
<1>2. QED  BY <1>1 DEF Has

LEMMA KeptBoth ==
  ASSUME NEW u, NEW v, NEW w, DOMAIN u = DOMAIN v, NEW N1, NEW N2, Kept(u, v, N1), Kept(v, w, N2)
  PROVE  Kept(u, w, N1 \cup N2)
<1>1. \A p : p \in Touched(N1) \/ p \in Touched(N2) => p \in Touched(N1 \cup N2)
  BY DEF Touched
<1>2. QED  BY <1>1 DEF Kept

LEMMA AllOfBoth ==
  ASSUME NEW S, NEW T
  PROVE  AllOf(S \cup T) = AllOf(S) \cup AllOf(T)
BY DEF AllOf

LEMMA FragmentJoin ==
  ASSUME Build, NEW x, NEW p, NEW q, NEW R1, NEW N1, NEW R2, NEW N2, NEW R, R1 \subseteq R, R2 \subseteq R,
         AreSlots(R), AreSlots(N1), AreSlots(N2),
         Fragment(x, p, AllOf(R1), AllOf(N1)), Fragment(x, q, AllOf(R2), AllOf(N2)),
         \A r \in R2 : \A n \in N1 : n.name # r.name,
         \A n \in N1 : n \in N2 \/ \A o \in N2 : o.name # n.name
  PROVE  Fragment(x, p \o q, AllOf(R), AllOf(N1 \cup N2))
<1>1. AreSlots(R1) /\ AreSlots(R2) /\ AreSlots(N1 \cup N2)
  BY DEF AreSlots
<1>2. \A u \in Memories(x) : DOMAIN u = x.polys
  BY DEF Memories
<1>3. ASSUME NEW u \in Memories(x), Holds(u, AllOf(R)) PROVE \A r \in R : Has(u, r)
  BY <1>3, HoldsSlots
<1>4. \A u \in Memories(x) : Holds(u, AllOf(R)) => Holds(u, AllOf(R1))
  BY <1>1, <1>3, HoldsSlots
<1>5. ASSUME NEW u \in Memories(x), NEW v \in Memories(x),
             Holds(u, AllOf(R)), Holds(v, AllOf(N1)), Kept(u, v, AllOf(N1))
      PROVE  Holds(v, AllOf(R2))
  <2>1. ASSUME NEW r \in R2 PROVE Has(v, r)
    <3>1. Has(u, r) /\ DOMAIN u = DOMAIN v
      BY <1>2, <1>3, <1>5
    <3>2. QED  BY <3>1, <1>5, SlotKept
  <2>2. QED  BY <2>1, <1>1, HoldsSlots
<1>6. ASSUME NEW u \in Memories(x), NEW v \in Memories(x), NEW w \in Memories(x),
             Holds(v, AllOf(N1)), Kept(u, v, AllOf(N1)), Holds(w, AllOf(N2)), Kept(v, w, AllOf(N2))
      PROVE  Holds(w, AllOf(N1 \cup N2)) /\ Kept(u, w, AllOf(N1 \cup N2))
  <2>1. DOMAIN u = DOMAIN v /\ DOMAIN v = DOMAIN w
    BY <1>2
  <2>2. ASSUME NEW n \in N1 \cup N2 PROVE Has(w, n)
    <3>1. CASE n \in N2
      BY <3>1, <1>6, HoldsSlots
    <3>2. CASE n \in N1 /\ \A o \in N2 : o.name # n.name
      <4>1. Has(v, n)
        BY <3>2, <1>6, HoldsSlots
      <4>2. QED  BY <3>2, <4>1, <2>1, <1>6, SlotKept
    <3>3. QED  BY <3>1, <3>2
  <2>3. Holds(w, AllOf(N1 \cup N2))
    BY <2>2, <1>1, HoldsSlots
  <2>4. Kept(u, w, AllOf(N1) \cup AllOf(N2))
    BY <2>1, <1>6, KeptBoth
  <2>5. QED  BY <2>3, <2>4, AllOfBoth
<1> DEFINE A == AllOf(R)   A1 == AllOf(R1)   A2 == AllOf(R2)
           B1 == AllOf(N1)   B2 == AllOf(N2)   B == AllOf(N1 \cup N2)
<1>7. \A u \in Memories(x) : Holds(u, A) => Holds(u, A1)
  BY <1>4
<1>8. \A u, v \in Memories(x) : Holds(u, A) /\ Holds(v, B1) /\ Kept(u, v, B1) => Holds(v, A2)
  BY <1>5
<1>9. \A u, v, w \in Memories(x) :
        Holds(u, A) /\ Holds(v, B1) /\ Kept(u, v, B1) /\ Holds(w, B2) /\ Kept(v, w, B2)
          => Holds(w, B) /\ Kept(u, w, B)
  BY <1>6
<1>10. Fragment(x, p, A1, B1) /\ Fragment(x, q, A2, B2)
  OBVIOUS
<1> HIDE DEF A, A1, A2, B1, B2, B
<1>11. Fragment(x, p \o q, A, B)
  BY <1>7, <1>8, <1>9, <1>10, FragmentConcat
<1>12. QED  BY <1>11 DEF A, B

LEMMA OnePolynomial ==
  ASSUME Build, NEW b
  PROVE  /\ Lies(Poly("cp"), b) = All(Place("cp"), b)
         /\ Lies(Packed, b) = All(Place("field"), b)
<1>1. ASSUME NEW n \in {"cp", "field"} PROVE Lies(<<n, 0>>, b) = All(Place(n), b)
  <2>1. Length(n) = 1
    BY DEF Length
  <2>2. DOMAIN Place(n) = {1} /\ Place(n)[1] = <<n, 0>>
    BY <2>1, PlaceFields
  <2>3. {Place(n)[i] : i \in DOMAIN Place(n)} = {<<n, 0>>}
    BY <2>2
  <2>4. QED  BY <2>3 DEF Lies, All
<1>2. QED  BY <1>1 DEF Poly, Packed

LEMMA SeveralSlots ==
  /\ \A m, a, n, b : AllOf({Slot(m, a), Slot(n, b)}) = {All(Place(m), a), All(Place(n), b)}
  /\ \A m, a, n, b, t, c : AllOf({Slot(m, a), Slot(n, b), Slot(t, c)})
                             = {All(Place(m), a), All(Place(n), b), All(Place(t), c)}
<1>1. ASSUME NEW m, NEW a, NEW n, NEW b
      PROVE  AllOf({Slot(m, a), Slot(n, b)}) = {All(Place(m), a), All(Place(n), b)}
  BY SlotFields DEF AllOf
<1>2. ASSUME NEW m, NEW a, NEW n, NEW b, NEW t, NEW c
      PROVE  AllOf({Slot(m, a), Slot(n, b), Slot(t, c)})
               = {All(Place(m), a), All(Place(n), b), All(Place(t), c)}
  BY SlotFields DEF AllOf
<1>3. QED  BY <1>1, <1>2

LEMMA PackSkRuns ==
  ASSUME Build, NEW x
  PROVE  Fragment(x, pack_sk(Place("t0"), Place("s1"), Place("s2")),
                  AllOf({Slot("t0", T0Bound), Slot("s1", EtaBound), Slot("s2", EtaBound)}),
                  AllOf({Slot("field", Field(20))}))
<1> DEFINE R1 == {Slot("s1", EtaBound)}   R2 == {Slot("s2", EtaBound)}   R3 == {Slot("t0", T0Bound)}
           R == {Slot("t0", T0Bound), Slot("s1", EtaBound), Slot("s2", EtaBound)}
           N == {Slot("field", Field(20))}
           p1 == polyvecl_pack_eta(Place("s1"))   p2 == polyveck_pack_eta(Place("s2"))
           p3 == polyveck_pack_t0(Place("t0"))
           ct == pack_sk_h(Place("t0"), Place("s1"), Place("s2"))
<1>1. AllOf(N) = {Lies(Packed, Field(20))}
  BY OneSlot, OnePolynomial
<1>2. Fragment(x, p1, AllOf(R1), AllOf(N))
  <2>1. Fragment(x, p1, {All(Place("s1"), EtaBound)}, {Lies(Packed, Field(20))})
    BY PackEtaRuns
  <2>2. QED  BY <2>1, <1>1, OneSlot
<1>3. Fragment(x, p2, AllOf(R2), AllOf(N))
  <2>1. Fragment(x, p2, {All(Place("s2"), EtaBound)}, {Lies(Packed, Field(20))})
    BY PackEtaRuns
  <2>2. QED  BY <2>1, <1>1, OneSlot
<1>4. Fragment(x, p3, AllOf(R3), AllOf(N))
  <2>1. Fragment(x, p3, {All(Place("t0"), T0Bound)}, {Lies(Packed, Field(20))})
    BY PackT0Runs
  <2>2. QED  BY <2>1, <1>1, OneSlot
<1>5. /\ AreSlots(R) /\ AreSlots(N) /\ R1 \subseteq R /\ R2 \subseteq R /\ R3 \subseteq R /\ R \subseteq R
      /\ \A r \in R : \A n \in N : n.name # r.name
  BY SlotFields DEF AreSlots
<1>6. ct.given = TRUE /\ ct.requires = AllOf(R) /\ ct.ensures = {} /\ ct.sums = {}
  BY SeveralSlots DEF pack_sk_h, Contract
<1> HIDE DEF R, R1, R2, R3, N, p1, p2, p3, ct
<1>7. N \cup N = N
  OBVIOUS
<1>8. Fragment(x, p1 \o p2, AllOf(R), AllOf(N))
  <2>1. Fragment(x, p1 \o p2, AllOf(R), AllOf(N \cup N))
    BY <1>2, <1>3, <1>5, FragmentJoin
  <2>2. QED  BY <2>1, <1>7
<1>9. Fragment(x, (p1 \o p2) \o p3, AllOf(R), AllOf(N))
  <2>1. Fragment(x, (p1 \o p2) \o p3, AllOf(R), AllOf(N \cup N))
    BY <1>4, <1>5, <1>8, FragmentJoin
  <2>2. QED  BY <2>1, <1>7
<1>10. Fragment(x, Function("pack_sk", ct, (p1 \o p2) \o p3), AllOf(R), AllOf(N))
  BY <1>6, <1>9, SilentRuns
<1>11. QED  BY <1>10 DEF pack_sk, p1, p2, p3, R, N, ct

LEMMA UnpackSkRuns ==
  ASSUME Build, NEW x
  PROVE  Fragment(x, unpack_sk(Place("t0"), Place("s1"), Place("s2")), AllOf({}),
                  AllOf({Slot("t0", T0Bound), Slot("s1", UnpackedEta), Slot("s2", UnpackedEta)}))
<1> DEFINE N1 == {Slot("s1", UnpackedEta)}   N2 == {Slot("s2", UnpackedEta)}
           N3 == {Slot("t0", T0Bound)}
           N == {Slot("t0", T0Bound), Slot("s1", UnpackedEta), Slot("s2", UnpackedEta)}
           p1 == polyvecl_unpack_eta(Place("s1"))   p2 == polyveck_unpack_eta(Place("s2"))
           p3 == polyveck_unpack_t0(Place("t0"))
<1>1. Fragment(x, p1, AllOf({}), AllOf(N1))
  <2>1. Fragment(x, p1, {}, {All(Place("s1"), UnpackedEta)})
    BY UnpackEtaRuns
  <2>2. QED  BY <2>1, OneSlot, NoSlot
<1>2. Fragment(x, p2, AllOf({}), AllOf(N2))
  <2>1. Fragment(x, p2, {}, {All(Place("s2"), UnpackedEta)})
    BY UnpackEtaRuns
  <2>2. QED  BY <2>1, OneSlot, NoSlot
<1>3. Fragment(x, p3, AllOf({}), AllOf(N3))
  <2>1. Fragment(x, p3, {}, {All(Place("t0"), T0Bound)})
    BY UnpackT0Runs
  <2>2. QED  BY <2>1, OneSlot, NoSlot
<1>4. /\ AreSlots({}) /\ AreSlots(N1) /\ AreSlots(N2) /\ AreSlots(N3) /\ AreSlots(N1 \cup N2)
      /\ \A n \in N1 : \A o \in N2 : o.name # n.name
      /\ \A n \in N1 \cup N2 : \A o \in N3 : o.name # n.name
      /\ (N1 \cup N2) \cup N3 = N
  BY SlotFields DEF AreSlots
<1>5. unpack_sk_h(Place("t0"), Place("s1"), Place("s2")) = Contract(AllOf({}), AllOf(N))
  <2>1. AllOf(N) = {All(Place("t0"), T0Bound), All(Place("s1"), UnpackedEta),
                    All(Place("s2"), UnpackedEta)}
    BY SeveralSlots
  <2>2. AllOf({}) = {}
    BY NoSlot
  <2> HIDE DEF N
  <2>3. QED  BY <2>1, <2>2 DEF unpack_sk_h
<1> DEFINE none == {}
<1>6. none \subseteq none /\ \A r \in none : FALSE
  OBVIOUS
<1> HIDE DEF N1, N2, N3, N, p1, p2, p3, none
<1>7. Fragment(x, (p1 \o p2) \o p3, AllOf({}), AllOf((N1 \cup N2) \cup N3))
  <2>1. /\ AreSlots(none) /\ Fragment(x, p1, AllOf(none), AllOf(N1))
        /\ Fragment(x, p2, AllOf(none), AllOf(N2)) /\ Fragment(x, p3, AllOf(none), AllOf(N3))
    BY <1>1, <1>2, <1>3, <1>4 DEF none
  <2>2. Fragment(x, p1 \o p2, AllOf(none), AllOf(N1 \cup N2))
    BY <2>1, <1>4, <1>6, FragmentJoin
  <2>3. Fragment(x, (p1 \o p2) \o p3, AllOf(none), AllOf((N1 \cup N2) \cup N3))
    BY <2>1, <2>2, <1>4, <1>6, FragmentJoin
  <2>4. QED  BY <2>3 DEF none
<1>8. Fragment(x, (p1 \o p2) \o p3, AllOf({}), AllOf(N))
  BY <1>4, <1>7
<1>9. QED  BY <1>5, <1>8, ContractRuns DEF unpack_sk, p1, p2, p3, N

LEMMA PackSigRuns ==
  ASSUME Build, NEW x
  PROVE  Fragment(x, pack_sig(Place("z"), Place("h")),
                  AllOf({Slot("z", ZBound), Slot("h", Bit)}), AllOf({Slot("field", Field(20))}))
<1> DEFINE R1 == {Slot("z", ZBound)}   R == {Slot("z", ZBound), Slot("h", Bit)}
           N == {Slot("field", Field(20))}   p == polyvecl_pack_z(Place("z"))
           ct == pack_sig_h(Place("z"), Place("h"))
<1>1. Fragment(x, p, AllOf(R1), AllOf(N))
  <2>1. Fragment(x, p, {All(Place("z"), ZBound)}, {Lies(Packed, Field(20))})
    BY PackZRuns
  <2>2. AllOf(N) = {Lies(Packed, Field(20))}
    BY OneSlot, OnePolynomial
  <2>3. QED  BY <2>1, <2>2, OneSlot
<1>2. AllOf(R1) \subseteq AllOf(R)
  BY DEF AllOf
<1>3. ct.given = TRUE /\ ct.requires = AllOf(R) /\ ct.ensures = {} /\ ct.sums = {}
  BY SeveralSlots DEF pack_sig_h, Contract
<1> HIDE DEF R, R1, N, p, ct
<1>4. Fragment(x, p, AllOf(R), AllOf(N))
  <2>1. \A v : Holds(v, AllOf(R)) => Holds(v, AllOf(R1))
    BY <1>2 DEF Holds
  <2>2. QED  BY <1>1, <2>1, FragmentWeaken
<1>5. Fragment(x, Function("pack_sig", ct, p), AllOf(R), AllOf(N))
  BY <1>3, <1>4, SilentRuns
<1>6. QED  BY <1>5 DEF pack_sig, p, ct, R, N

LEMMA UnpackSigRuns ==
  ASSUME Build, NEW x
  PROVE  Fragment(x, unpack_sig(Place("z"), Place("h")), AllOf({}),
                  AllOf({Slot("z", ZBound), Slot("h", Bit)}))
<1> DEFINE N1 == {Slot("z", ZBound)}   N2 == {Slot("h", Bit)}
           N == {Slot("z", ZBound), Slot("h", Bit)}
           p1 == polyvecl_unpack_z(Place("z"))
           p2 == Each(Place("h"), LAMBDA a : <<Produce(a, Interval(0, 1))>>)
           fs == [i \in DOMAIN Place("h") |-> <<Produce(Place("h")[i], Interval(0, 1))>>]
<1>1. Fragment(x, p1, AllOf({}), AllOf(N1))
  <2>1. Fragment(x, p1, {}, {All(Place("z"), ZBound)})
    BY UnpackZRuns
  <2>2. QED  BY <2>1, OneSlot, NoSlot
<1>2. Fragment(x, p2, AllOf({}), AllOf(N2))
  <2>1. /\ fs = [i \in 1 .. Length("h") |-> fs[i]]
        /\ \A i \in 1 .. Length("h") : fs[i] = <<Produce(Place("h")[i], Interval(0, 1))>>
        /\ p2 = FlattenSeq(fs)
    BY PlaceFields DEF Each
  <2> HIDE DEF fs, p2
  <2>2. \A i \in 1 .. Length("h") : Fragment(x, fs[i], {}, {Lies(Place("h")[i], Bit)})
    BY <2>1, HintBitRuns
  <2>3. Fragment(x, FlattenSeq(fs), {}, {All(Place("h"), Bit)})
    BY <2>1, <2>2, LoopWrites
  <2>4. QED  BY <2>1, <2>3, OneSlot, NoSlot
<1>3. /\ AreSlots({}) /\ AreSlots(N1) /\ AreSlots(N2)
      /\ \A n \in N1 : \A o \in N2 : o.name # n.name
      /\ N1 \cup N2 = N
  BY SlotFields DEF AreSlots
<1>4. unpack_sig_h(Place("z"), Place("h")) = Contract(AllOf({}), AllOf(N))
  <2>1. AllOf(N) = {All(Place("z"), ZBound), All(Place("h"), Bit)}
    BY SeveralSlots
  <2>2. AllOf({}) = {}
    BY NoSlot
  <2> HIDE DEF N
  <2>3. QED  BY <2>1, <2>2 DEF unpack_sig_h
<1> DEFINE none == {}
<1> HIDE DEF N1, N2, N
<1>5. Fragment(x, p1 \o p2, AllOf({}), AllOf(N1 \cup N2))
  <2>1. none \subseteq none /\ \A r \in none : FALSE
    OBVIOUS
  <2> HIDE DEF p1, p2, none
  <2>2. /\ AreSlots(none) /\ Fragment(x, p1, AllOf(none), AllOf(N1))
        /\ Fragment(x, p2, AllOf(none), AllOf(N2))
    BY <1>1, <1>2, <1>3 DEF none
  <2>3. Fragment(x, p1 \o p2, AllOf(none), AllOf(N1 \cup N2))
    BY <2>1, <2>2, <1>3, FragmentJoin
  <2>4. QED  BY <2>3 DEF none
<1>6. Fragment(x, p1 \o p2, AllOf({}), AllOf(N))
  BY <1>3, <1>5
<1>7. QED  BY <1>4, <1>6, ContractRuns DEF unpack_sig, N

-------------------------------------------------------------------------------
(***************************************************************************)
(* Whole programs: from one set of slots to another.                       *)
(***************************************************************************)
Full(x, ES) == {v \in Memories(x) : \A q \in ES : Has(v, q)}

Reaches(x, prog, E, F) == IsSeq(prog) /\ Does(x, prog, Full(x, E), Full(x, F))

Narrower(a, b) == \A r \in Intervals : Within(r, a) => Within(r, b)

\* What a fragment needs is there, and what is claimed behind it is new or kept.
Covered(RS, E) == \A r \in RS : \E e \in E : e.name = r.name /\ Narrower(e.bound, r.bound)

Claimed(G, E, NS) == \A g \in G : g \in NS \/ (g \in E /\ \A n \in NS : n.name # g.name)

LEMMA FragmentReaches ==
  ASSUME Build, NEW x, NEW q, NEW RS, NEW NS, AreSlots(RS), AreSlots(NS),
         Fragment(x, q, AllOf(RS), AllOf(NS)), NEW E, NEW G, Covered(RS, E), Claimed(G, E, NS)
  PROVE  Reaches(x, q, E, G)
<1>1. IsSeq(q)
  BY DEF Fragment
<1>2. ASSUME NEW v \in Full(x, E), Uses(x, q) PROVE \E w \in Full(x, G) : Runs(x, q, v, w)
  <2>1. v \in Memories(x) /\ \A e \in E : Has(v, e)
    BY DEF Full
  <2>2. \A p \in DOMAIN v : v[p] \in Intervals
    BY <2>1 DEF Memories
  <2>3. ASSUME NEW r \in RS PROVE Has(v, r)
    <3>1. PICK e \in E : e.name = r.name /\ Narrower(e.bound, r.bound)
      BY DEF Covered
    <3>2. Has(v, e)
      BY <2>1
    <3>3. QED  BY <2>2, <3>1, <3>2 DEF Has, Narrower
  <2>4. Holds(v, AllOf(RS))
    BY <2>3, HoldsSlots
  <2>5. Does(x, q, {v}, Left(x, v, AllOf(NS)))
    BY <2>1, <2>4 DEF Fragment
  <2>6. PICK w \in Left(x, v, AllOf(NS)) : Runs(x, q, v, w)
    BY <2>5, <1>2 DEF Does
  <2>7. w \in Memories(x) /\ Holds(w, AllOf(NS)) /\ Kept(v, w, AllOf(NS))
    BY DEF Left
  <2>8. DOMAIN v = DOMAIN w
    BY <2>1, <2>7 DEF Memories
  <2>9. ASSUME NEW g \in G PROVE Has(w, g)
    <3>1. CASE g \in NS
      BY <3>1, <2>7, HoldsSlots
    <3>2. CASE g \in E /\ \A n \in NS : n.name # g.name
      BY <3>2, <2>1, <2>7, <2>8, SlotKept
    <3>3. QED  BY <3>1, <3>2 DEF Claimed
  <2>10. QED  BY <2>6, <2>7, <2>9 DEF Full
<1>3. QED  BY <1>1, <1>2 DEF Reaches, Does

LEMMA Continues ==
  ASSUME Build, NEW x, NEW p, NEW E, NEW F, Reaches(x, p, E, F),
         NEW q, NEW RS, NEW NS, AreSlots(RS), AreSlots(NS),
         Fragment(x, q, AllOf(RS), AllOf(NS)), NEW G, Covered(RS, F), Claimed(G, F, NS)
  PROVE  Reaches(x, p \o q, E, G)
<1>1. Reaches(x, q, F, G)
  BY FragmentReaches
<1>2. /\ IsSeq(p) /\ Does(x, p, Full(x, E), Full(x, F))
      /\ IsSeq(q) /\ Does(x, q, Full(x, F), Full(x, G))
  BY <1>1 DEF Reaches
<1>3. IsSeq(p \o q)
  BY <1>2, Concat
<1>4. Does(x, p \o q, Full(x, E), Full(x, G))
  BY <1>2, DoesConcat
<1>5. QED  BY <1>3, <1>4 DEF Reaches

\* A rejection back to where memories have the slots HD, or past the end; and
\* what is known when there is none.
LEMMA DecideRuns ==
  ASSUME Build, NEW x, NEW to, NEW HD, AreSlots(HD), to = "end" \/ x.head = Full(x, HD),
         NEW n, NEW b, NEW lo \in Int, NEW hi \in Int, Is(b, lo, hi)
  PROVE  /\ Fragment(x, <<Decide({All(Place(n), b)}, to)>>, AllOf(HD), AllOf({Slot(n, b)}))
         /\ Fragment(x, <<Decide({}, to)>>, AllOf(HD), AllOf({}))
<1> DEFINE N == AllOf({Slot(n, b)})   c == All(Place(n), b)
           s == Decide({c}, to)   o == Decide({}, to)
<1>1. /\ s.kind = "decide" /\ s.clauses = {c} /\ s.to = to
      /\ o.kind = "decide" /\ o.clauses = {} /\ o.to = to
  BY DEF Decide
<1> HIDE DEF s, o
<1>2. IsSeq(<<s>>) /\ IsSeq(<<o>>)
  <2>1. <<s>> \in Seq({s}) /\ <<o>> \in Seq({o})
    OBVIOUS
  <2>2. QED  BY <2>1 DEF IsSeq
<1>3. ASSUME NEW v \in Memories(x), Holds(v, AllOf(HD)) PROVE Safe(x, s, v) /\ Safe(x, o, v)
  <2>1. \A q \in HD : Has(v, q)
    BY <1>3, HoldsSlots
  <2>2. to = "end" \/ v \in x.head
    BY <2>1 DEF Full
  <2>3. QED  BY <1>1, <2>2 DEF Safe
<1>4. c.bound = b /\ N = {c} /\ Touched(N) = c.polys
  <2>1. N = {c}
    BY OneSlot
  <2> HIDE DEF N
  <2>2. QED  BY <2>1 DEF All, Touched
<1> HIDE DEF c, N
<1>5. ASSUME NEW v \in Memories(x) PROVE After(o, v) = v
  <2>1. After(o, v) = [p \in DOMAIN v |-> v[p]]
    BY <1>1 DEF After, Narrowed, Checked
  <2>2. QED  BY <2>1 DEF Memories
<1>6. ASSUME NEW r \in Intervals PROVE Narrow(r, b) \in Intervals /\ Within(Narrow(r, b), b)
  <2> DEFINE l == Clamp(r.lo, b)   h == Clamp(r.hi, b)
  <2>1. b.lo = lo /\ b.hi = hi /\ lo <= hi /\ r.lo \in Int /\ r.hi \in Int /\ r.lo <= r.hi
    BY DEF Is, Intervals
  <2>2. l \in Int /\ h \in Int /\ lo <= l /\ l <= h /\ h <= hi
    BY <2>1 DEF Clamp, Greatest, Least
  <2>3. Narrow(r, b) = Interval(l, h)
    BY DEF Narrow
  <2> HIDE DEF l, h
  <2>4. QED  BY <2>2, <2>3, IntervalWithin
<1>7. ASSUME NEW v \in Memories(x)
      PROVE  After(s, v) = [p \in DOMAIN v |-> IF p \in c.polys THEN Narrow(v[p], b) ELSE v[p]]
  <2>1. After(s, v) = Narrowed(v, {c})
    BY <1>1 DEF After
  <2> DEFINE new(p) == IF Checked(p, {c}) = {} THEN v[p]
                       ELSE Narrow(v[p], (CHOOSE d \in Checked(p, {c}) : TRUE).bound)
  <2>2. (CHOOSE d \in {c} : TRUE) = c
    OBVIOUS
  <2>3. ASSUME NEW p PROVE new(p) = IF p \in c.polys THEN Narrow(v[p], b) ELSE v[p]
    <3>1. CASE p \in c.polys
      <4>1. Checked(p, {c}) = {c}
        BY <3>1 DEF Checked
      <4>2. new(p) = Narrow(v[p], (CHOOSE d \in {c} : TRUE).bound)
        BY <4>1
      <4>3. QED  BY <2>2, <3>1, <4>2, <1>4
    <3>2. CASE p \notin c.polys
      <4>1. Checked(p, {c}) = {}
        BY <3>2 DEF Checked
      <4>2. QED  BY <3>2, <4>1
    <3>3. QED  BY <3>1, <3>2
  <2>4. After(s, v) = [p \in DOMAIN v |-> new(p)]
    BY <2>1 DEF Narrowed
  <2> HIDE DEF new
  <2>5. QED  BY <2>3, <2>4
<1>8. ASSUME NEW v \in Memories(x), Polys(s) \subseteq x.polys
      PROVE  After(s, v) \in Left(x, v, N) /\ After(s, v) \in Memories(x)
  <2> DEFINE w == After(s, v)
  <2>1. v \in [x.polys -> Intervals]
    BY DEF Memories
  <2>2. w = [p \in x.polys |-> IF p \in c.polys THEN Narrow(v[p], b) ELSE v[p]]
    BY <1>7, <2>1
  <2>3. c.polys \subseteq x.polys
    BY <1>1, <1>8 DEF Polys
  <2> HIDE DEF w
  <2>4. w \in Memories(x)
    BY <2>1, <2>2, <1>6 DEF Memories
  <2>5. Holds(w, N)
    <3>1. \A p \in c.polys : p \in DOMAIN w /\ Within(w[p], b)
      BY <2>1, <2>2, <2>3, <1>6
    <3>2. QED  BY <3>1, <1>4 DEF Holds
  <2>6. Kept(v, w, N)
    BY <2>1, <2>2, <1>4 DEF Kept
  <2>7. QED  BY <2>4, <2>5, <2>6 DEF Left, w
<1>9. ASSUME NEW v \in Memories(x), Holds(v, AllOf(HD)) PROVE Does(x, <<s>>, {v}, Left(x, v, N))
  BY <1>1, <1>3, <1>8, <1>9, DoesStep
<1>10. ASSUME NEW v \in Memories(x), Holds(v, AllOf(HD)) PROVE Does(x, <<o>>, {v}, Left(x, v, {}))
  <2>1. v \in Left(x, v, {})
    BY DEF Left, Holds, Kept
  <2>2. QED  BY <1>1, <1>3, <1>5, <1>10, <2>1, DoesStep
<1>11. Fragment(x, <<s>>, AllOf(HD), N) /\ Fragment(x, <<o>>, AllOf(HD), {})
  BY <1>2, <1>9, <1>10 DEF Fragment
<1>12. QED  BY <1>11, NoSlot DEF s, o, c, N

LEMMA FunctionReaches ==
  ASSUME Build, NEW x, NEW fn, NEW ES, NEW body, NEW E, NEW F, AreSlots(ES), ES \subseteq E,
         Reaches(x, body, E, F)
  PROVE  Reaches(x, Function(fn, Contract(AllOf(ES), {}), body), E, F)
<1> DEFINE ct == Contract(AllOf(ES), {})   call == Call(fn, ct)   ret == Return(fn, ct.ensures)
<1>1. /\ call.kind = "call" /\ call.given = TRUE /\ call.clauses = AllOf(ES) /\ call.sums = {}
      /\ ret.kind = "return" /\ ret.clauses = {}
  BY DEF Call, Return, Contract
<1>2. Function(fn, ct, body) = (<<call>> \o body) \o <<ret>>
  BY DEF Function
<1> HIDE DEF call, ret
<1>3. /\ Full(x, E) \subseteq Memories(x) /\ Full(x, F) \subseteq Memories(x)
  BY DEF Full
<1>4. IsSeq(<<call>>) /\ Does(x, <<call>>, Full(x, E), Full(x, E))
  <2>1. ASSUME NEW v \in Full(x, E) PROVE Safe(x, call, v) /\ After(call, v) = v
    <3>1. \A q \in ES : Has(v, q)
      BY DEF Full
    <3>2. Meets(v, AllOf(ES))
      BY <3>1, HoldsSlots, HoldsMeets
    <3>3. QED  BY <1>1, <3>2 DEF Safe, After
  <2>2. QED  BY <1>1, <1>3, <2>1, DoesStep
<1>5. IsSeq(<<ret>>) /\ Does(x, <<ret>>, Full(x, F), Full(x, F))
  <2>1. ASSUME NEW v \in Full(x, F) PROVE Safe(x, ret, v) /\ After(ret, v) = v
    BY <1>1 DEF Safe, After, Meets
  <2>2. QED  BY <1>1, <1>3, <2>1, DoesStep
<1>6. IsSeq(body) /\ Does(x, body, Full(x, E), Full(x, F))
  BY DEF Reaches
<1>7. IsSeq(<<call>> \o body) /\ Does(x, <<call>> \o body, Full(x, E), Full(x, F))
  BY <1>4, <1>6, Concat, DoesConcat
<1>8. QED  BY <1>2, <1>5, <1>7, Concat, DoesConcat DEF Reaches, ct

-------------------------------------------------------------------------------
(***************************************************************************)
(* What the programs of sign.c are put together from.                      *)
(***************************************************************************)
Intt == Interval(-par.intt, par.intt)

LEMMA NarrowerReflexive == \A b : Narrower(b, b)
BY DEF Narrower

LEMMA IsNarrower ==
  ASSUME NEW a, NEW al \in Int, NEW ah \in Int, Is(a, al, ah),
         NEW b, NEW bl \in Int, NEW bh \in Int, Is(b, bl, bh), bl <= al, ah <= bh
  PROVE  Narrower(a, b)
BY DEF Narrower, Within, Is, Intervals

\* What the norm checks of signing and verification leave.
LEMMA NormsAre ==
  ASSUME Build
  PROVE  /\ Is(array_abs_bound(GAMMA1 - BETA), -GAMMA1 + BETA + 1, GAMMA1 - BETA - 1)
         /\ Is(array_abs_bound(GAMMA2 - BETA), -GAMMA2 + BETA + 1, GAMMA2 - BETA - 1)
         /\ Is(array_abs_bound(GAMMA2), -GAMMA2 + 1, GAMMA2 - 1)
         /\ NormBound(GAMMA1 - BETA) /\ NormBound(GAMMA2 - BETA) /\ NormBound(GAMMA2)
<1>1. /\ GAMMA1 \in {131072, 524288} /\ GAMMA2 \in {95232, 261888}
      /\ BETA \in Int /\ 0 <= BETA /\ BETA <= 1000
  BY DEF Build
<1>2. /\ GAMMA1 - BETA \in Int /\ GAMMA1 - BETA >= 1 /\ GAMMA1 - BETA <= 1047552
      /\ GAMMA2 - BETA \in Int /\ GAMMA2 - BETA >= 1 /\ GAMMA2 - BETA <= 1047552
      /\ GAMMA2 \in Int /\ GAMMA2 >= 1 /\ GAMMA2 <= 1047552
  BY <1>1, SMT
<1>3. \A b \in Int : b >= 1 /\ b <= 1047552 => NormBound(b) /\ Is(array_abs_bound(b), -b + 1, b - 1)
  BY SMT DEF NormBound, Q, Is, array_abs_bound, Interval, Intervals
<1>4. /\ -(GAMMA1 - BETA) + 1 = -GAMMA1 + BETA + 1 /\ -(GAMMA2 - BETA) + 1 = -GAMMA2 + BETA + 1
  BY <1>1, SMT
<1>5. /\ Is(array_abs_bound(GAMMA1 - BETA), -(GAMMA1 - BETA) + 1, GAMMA1 - BETA - 1)
      /\ Is(array_abs_bound(GAMMA2 - BETA), -(GAMMA2 - BETA) + 1, GAMMA2 - BETA - 1)
  BY <1>2, <1>3
<1>6. QED  BY <1>2, <1>3, <1>4, <1>5

LEMMA SumsAre ==
  ASSUME Build
  PROVE  /\ Is(AddInterval(Intt, EtaBound), -par.intt - ETA, par.intt + ETA)
         /\ Is(AddInterval(Intt, ZBound), -par.intt - GAMMA1 + 1, par.intt + GAMMA1)
         /\ Within(AddInterval(Intt, EtaBound), Reducible)
         /\ Within(AddInterval(Intt, ZBound), Reducible)
         /\ Within(AddInterval(array_abs_bound(GAMMA2 - BETA), array_abs_bound(GAMMA2)), Reducible)
<1>1. /\ GAMMA1 \in {131072, 524288} /\ GAMMA2 \in {95232, 261888} /\ ETA \in {2, 4}
      /\ BETA \in Int /\ 0 <= BETA /\ BETA <= 1000
      /\ par.intt \in Int /\ 0 <= par.intt /\ par.intt <= 8380416 - ETA
  BY DEF Build
<1>2. /\ Is(Intt, -par.intt, par.intt) /\ Is(EtaBound, -ETA, ETA) /\ Is(ZBound, -GAMMA1 + 1, GAMMA1)
      /\ Is(Reducible, -2147483648, 2143289342)
  BY ParBounds, FixedBounds DEF Intt
<1>3. /\ Is(array_abs_bound(GAMMA2 - BETA), -GAMMA2 + BETA + 1, GAMMA2 - BETA - 1)
      /\ Is(array_abs_bound(GAMMA2), -GAMMA2 + 1, GAMMA2 - 1)
  BY NormsAre
<1>4. Is(AddInterval(Intt, EtaBound), -par.intt - ETA, par.intt + ETA)
  BY <1>1, <1>2, SMT DEF Is, AddInterval, Interval, Intervals
<1>5. Is(AddInterval(Intt, ZBound), -par.intt - GAMMA1 + 1, par.intt + GAMMA1)
  BY <1>1, <1>2, SMT DEF Is, AddInterval, Interval, Intervals
<1>6. Within(AddInterval(Intt, EtaBound), Reducible)
  BY <1>1, <1>2, <1>4, SMT DEF Is, Within
<1>7. Within(AddInterval(Intt, ZBound), Reducible)
  BY <1>1, <1>2, <1>5, SMT DEF Is, Within
<1>8. Within(AddInterval(array_abs_bound(GAMMA2 - BETA), array_abs_bound(GAMMA2)), Reducible)
  <2> DEFINE a == array_abs_bound(GAMMA2 - BETA)   b == array_abs_bound(GAMMA2)
  <2>1. /\ AddInterval(a, b).lo = a.lo + b.lo /\ AddInterval(a, b).hi = a.hi + b.hi
    BY DEF AddInterval, Interval
  <2> HIDE DEF a, b
  <2>2. QED  BY <1>1, <1>2, <1>3, <2>1, SMT DEF Is, Within, a, b
<1>9. QED  BY <1>4, <1>5, <1>6, <1>7, <1>8

\* What one function leaves is what the next one may be called with.
LEMMA BoundsNarrow ==
  ASSUME Build
  PROVE  /\ \A b : Narrower(b, b)
         /\ Narrower(EtaBound, BelowQ) /\ Narrower(UnpackedEta, BelowQ)
         /\ Narrower(ZBound, BelowQ) /\ Narrower(T0Bound, BelowQ) /\ Narrower(Reduced, BelowQ)
         /\ Narrower(LowBits, BelowQ) /\ Narrower(Intt, BelowQ) /\ Narrower(Canonical, BelowQ)
         /\ Narrower(array_bound(-1, 2), BelowQ)
         /\ Narrower(array_abs_bound(GAMMA1 - BETA), BelowQ)
         /\ Narrower(AddInterval(Intt, EtaBound), BelowQ)
         /\ Narrower(BelowQ, Reducible) /\ Narrower(Intt, Reducible)
         /\ Narrower(AddInterval(Intt, ZBound), Reducible)
         /\ Narrower(ZBound, Reduced) /\ Narrower(array_abs_bound(GAMMA1 - BETA), ZBound)
         /\ Narrower(array_bound(0, ((Q - 1) \div 2 ^ D) + 1), T1Bound)
<1>1. /\ GAMMA1 \in {131072, 524288} /\ GAMMA2 \in {95232, 261888} /\ ETA \in {2, 4}
      /\ BETA \in Int /\ 0 <= BETA /\ BETA <= 1000
      /\ par.intt \in Int /\ 0 <= par.intt /\ par.intt <= 8380416 - ETA
  BY DEF Build
<1>2. /\ Is(Intt, -par.intt, par.intt) /\ Is(EtaBound, -ETA, ETA) /\ Is(ZBound, -GAMMA1 + 1, GAMMA1)
      /\ Is(LowBits, -GAMMA2, GAMMA2) /\ Is(UnpackedEta, IF ETA = 2 THEN -5 ELSE -11, ETA)
  BY ParBounds DEF Intt
<1>3. /\ Is(Reducible, -2147483648, 2143289342) /\ Is(BelowQ, -8380416, 8380416)
      /\ Is(Reduced, -6283009, 6283008) /\ Is(Canonical, 0, 8380416) /\ Is(T0Bound, -4095, 4096)
      /\ Is(T1Bound, 0, 1023) /\ Is(array_bound(-1, 2), -1, 1)
      /\ Is(array_bound(0, ((Q - 1) \div 2 ^ D) + 1), 0, 1023)
  BY FixedBounds
<1>4. Is(array_abs_bound(GAMMA1 - BETA), -GAMMA1 + BETA + 1, GAMMA1 - BETA - 1)
  BY NormsAre
<1>5. /\ Is(AddInterval(Intt, EtaBound), -par.intt - ETA, par.intt + ETA)
      /\ Is(AddInterval(Intt, ZBound), -par.intt - GAMMA1 + 1, par.intt + GAMMA1)
  BY SumsAre
<1>6. Narrower(EtaBound, BelowQ) /\ Narrower(UnpackedEta, BelowQ)
  BY <1>1, <1>2, <1>3, IsNarrower, SMT
<1>7. Narrower(ZBound, BelowQ) /\ Narrower(T0Bound, BelowQ) /\ Narrower(Reduced, BelowQ)
  BY <1>1, <1>2, <1>3, IsNarrower, SMT
<1>8. Narrower(LowBits, BelowQ) /\ Narrower(Intt, BelowQ) /\ Narrower(Canonical, BelowQ)
  BY <1>1, <1>2, <1>3, IsNarrower, SMT
<1>9. Narrower(array_bound(-1, 2), BelowQ) /\ Narrower(array_abs_bound(GAMMA1 - BETA), BelowQ)
  BY <1>1, <1>3, <1>4, IsNarrower, SMT
<1>10. Narrower(AddInterval(Intt, EtaBound), BelowQ)
  BY <1>1, <1>3, <1>5, IsNarrower, SMT
<1>11. Narrower(BelowQ, Reducible) /\ Narrower(Intt, Reducible)
  BY <1>1, <1>2, <1>3, IsNarrower, SMT
<1>12. Narrower(AddInterval(Intt, ZBound), Reducible)
  BY <1>1, <1>3, <1>5, IsNarrower, SMT
<1>13. Narrower(ZBound, Reduced) /\ Narrower(array_abs_bound(GAMMA1 - BETA), ZBound)
  BY <1>1, <1>2, <1>3, <1>4, IsNarrower, SMT
<1>14. Narrower(array_bound(0, ((Q - 1) \div 2 ^ D) + 1), T1Bound)
  BY <1>3, IsNarrower, SMT
<1>15. QED
  BY <1>6, <1>7, <1>8, <1>9, <1>10, <1>11, <1>12, <1>13, <1>14, NarrowerReflexive

LEMMA PlacesOfVectors ==
  /\ Vecl("s1") = Place("s1") /\ Vecl("s1hat") = Place("s1hat")
  /\ Vecl("y") = Place("y") /\ Vecl("z") = Place("z")
  /\ Veck("s2") = Place("s2") /\ Veck("t2") = Place("t2") /\ Veck("t1") = Place("t1")
  /\ Veck("t0") = Place("t0") /\ Veck("w2") = Place("w2") /\ Veck("w1") = Place("w1")
  /\ Veck("w0") = Place("w0") /\ Veck("h") = Place("h") /\ Veck("tmp") = Place("tmp")
BY DEF Vecl, Veck, Place, Length

LEMMA LengthsAre ==
  /\ Length("s1") = L /\ Length("s1hat") = L /\ Length("y") = L /\ Length("z") = L
  /\ Length("s2") = K /\ Length("t2") = K /\ Length("t1") = K /\ Length("t0") = K
  /\ Length("w2") = K /\ Length("w1") = K /\ Length("w0") = K /\ Length("h") = K
  /\ Length("tmp") = K
BY DEF Length

\* The challenge polynomial, and products with it.
LEMMA ChallengeSlot ==
  ASSUME Build, NEW x
  PROVE  /\ Fragment(x, poly_challenge(Poly("cp")), AllOf({}),
                     AllOf({Slot("cp", array_bound(-1, 2))}))
         /\ Fragment(x, poly_ntt(Poly("cp")), AllOf({Slot("cp", BelowQ)}),
                     AllOf({Slot("cp", NttOutput)}))
<1>1. AllOf({}) = {} /\ \A b : AllOf({Slot("cp", b)}) = {Lies(Poly("cp"), b)}
  BY NoSlot, OneSlot, OnePolynomial
<1>2. Fragment(x, poly_challenge(Poly("cp")), {}, {Lies(Poly("cp"), array_bound(-1, 2))})
  BY ChallengeRuns
<1>3. Fragment(x, poly_ntt(Poly("cp")), {Lies(Poly("cp"), BelowQ)}, {Lies(Poly("cp"), NttOutput)})
  BY NttRuns
<1>4. QED  BY <1>1, <1>2, <1>3

LEMMA ChallengeProducts ==
  ASSUME Build, NEW x, NEW m, NEW n, Length(m) = Length(n), m # "cp"
  PROVE  /\ Fragment(x, polyvecl_pointwise_poly_montgomery(Place(m), Poly("cp"), Place(n)),
                     AllOf({Slot("cp", NttOutput), Slot(n, NttOutput)}), AllOf({Slot(m, BelowQ)}))
         /\ Fragment(x, polyveck_pointwise_poly_montgomery(Place(m), Poly("cp"), Place(n)),
                     AllOf({Slot("cp", NttOutput), Slot(n, NttOutput)}), AllOf({Slot(m, BelowQ)}))
<1>1. /\ AllOf({Slot("cp", NttOutput), Slot(n, NttOutput)})
           = {Lies(Poly("cp"), NttOutput), All(Place(n), NttOutput)}
      /\ AllOf({Slot(m, BelowQ)}) = {All(Place(m), BelowQ)}
  BY SeveralSlots, OneSlot, OnePolynomial
<1>2. \A j \in 1 .. Length(m) : Place(m)[j] # Poly("cp")
  BY PlaceFields DEF Poly
<1>3. /\ Fragment(x, polyvecl_pointwise_poly_montgomery(Place(m), Poly("cp"), Place(n)),
                  {Lies(Poly("cp"), NttOutput), All(Place(n), NttOutput)}, {All(Place(m), BelowQ)})
      /\ Fragment(x, polyveck_pointwise_poly_montgomery(Place(m), Poly("cp"), Place(n)),
                  {Lies(Poly("cp"), NttOutput), All(Place(n), NttOutput)}, {All(Place(m), BelowQ)})
  BY <1>2, PointwisePolyRuns
<1>4. QED  BY <1>1, <1>3

\* The functions that work in place.
LEMMA InPlaceRuns ==
  ASSUME Build, NEW x, NEW n, Native(x)
  PROVE  /\ Fragment(x, polyvecl_reduce(Place(n)), AllOf({Slot(n, Reducible)}), AllOf({Slot(n, Reduced)}))
         /\ Fragment(x, polyveck_reduce(Place(n)), AllOf({Slot(n, Reducible)}), AllOf({Slot(n, Reduced)}))
         /\ Fragment(x, polyvecl_ntt(Place(n)), AllOf({Slot(n, BelowQ)}), AllOf({Slot(n, NttOutput)}))
         /\ Fragment(x, polyveck_ntt(Place(n)), AllOf({Slot(n, BelowQ)}), AllOf({Slot(n, NttOutput)}))
         /\ Fragment(x, polyvecl_invntt_tomont(Place(n)), AllOf({Slot(n, BelowQ)}), AllOf({Slot(n, Intt)}))
         /\ Fragment(x, polyveck_invntt_tomont(Place(n)), AllOf({Slot(n, BelowQ)}), AllOf({Slot(n, Intt)}))
         /\ Fragment(x, polyveck_caddq(Place(n)), AllOf({Slot(n, BelowQ)}), AllOf({Slot(n, Canonical)}))
         /\ Fragment(x, polyveck_shiftl(Place(n)), AllOf({Slot(n, T1Bound)}), AllOf({Slot(n, Canonical)}))
<1>1. \A b : AllOf({Slot(n, b)}) = {All(Place(n), b)}
  BY OneSlot
<1>2. /\ Fragment(x, polyvecl_reduce(Place(n)), {All(Place(n), Reducible)}, {All(Place(n), Reduced)})
      /\ Fragment(x, polyveck_reduce(Place(n)), {All(Place(n), Reducible)}, {All(Place(n), Reduced)})
  BY VectorReduceRuns
<1>3. /\ Fragment(x, polyvecl_ntt(Place(n)), {All(Place(n), BelowQ)}, {All(Place(n), NttOutput)})
      /\ Fragment(x, polyveck_ntt(Place(n)), {All(Place(n), BelowQ)}, {All(Place(n), NttOutput)})
  BY VectorNttRuns
<1>4. /\ Fragment(x, polyvecl_invntt_tomont(Place(n)), {All(Place(n), BelowQ)}, {All(Place(n), Intt)})
      /\ Fragment(x, polyveck_invntt_tomont(Place(n)), {All(Place(n), BelowQ)}, {All(Place(n), Intt)})
  BY VectorInvnttRuns DEF Intt
<1>5. /\ Fragment(x, polyveck_caddq(Place(n)), {All(Place(n), BelowQ)}, {All(Place(n), Canonical)})
      /\ Fragment(x, polyveck_shiftl(Place(n)), {All(Place(n), T1Bound)}, {All(Place(n), Canonical)})
  BY VectorCaddqRuns, VectorShiftlRuns
<1>6. QED  BY <1>1, <1>2, <1>3, <1>4, <1>5

\* What is filled, or only read.
LEMMA OneWayRuns ==
  ASSUME Build, NEW x, NEW n
  PROVE  /\ Fragment(x, unpack_pk(Place(n)), AllOf({}), AllOf({Slot(n, T1Bound)}))
         /\ Fragment(x, polyveck_make_hint(Place(n)), AllOf({}), AllOf({Slot(n, Bit)}))
         /\ Length(n) = L
              => Fragment(x, polyvecl_uniform_gamma1(Place(n)), AllOf({}), AllOf({Slot(n, ZBound)}))
         /\ Fragment(x, pack_pk(Place(n)), AllOf({Slot(n, T1Bound)}), AllOf({}))
         /\ Fragment(x, polyveck_pack_w1(Place(n)), AllOf({Slot(n, HighBits)}), AllOf({}))
         /\ \A b : NormBound(b) =>
              /\ Fragment(x, polyvecl_chknorm(Place(n), b), AllOf({Slot(n, Reduced)}), AllOf({}))
              /\ Fragment(x, polyveck_chknorm(Place(n), b), AllOf({Slot(n, Reduced)}), AllOf({}))
<1>1. AllOf({}) = {} /\ \A b : AllOf({Slot(n, b)}) = {All(Place(n), b)}
  BY NoSlot, OneSlot
<1>2. Fragment(x, unpack_pk(Place(n)), AllOf({}), AllOf({Slot(n, T1Bound)}))
  BY <1>1, UnpackPkRuns
<1>3. Fragment(x, polyveck_make_hint(Place(n)), AllOf({}), AllOf({Slot(n, Bit)}))
  BY <1>1, VectorMakeHintRuns
<1>4. ASSUME Length(n) = L
      PROVE  Fragment(x, polyvecl_uniform_gamma1(Place(n)), AllOf({}), AllOf({Slot(n, ZBound)}))
  BY <1>1, <1>4, Gamma1VectorRuns
<1>5. Fragment(x, pack_pk(Place(n)), AllOf({Slot(n, T1Bound)}), AllOf({}))
  BY <1>1, PackPkRuns
<1>6. Fragment(x, polyveck_pack_w1(Place(n)), AllOf({Slot(n, HighBits)}), AllOf({}))
  BY <1>1, PackW1Runs
<1>7. ASSUME NEW b, NormBound(b)
      PROVE  /\ Fragment(x, polyvecl_chknorm(Place(n), b), AllOf({Slot(n, Reduced)}), AllOf({}))
             /\ Fragment(x, polyveck_chknorm(Place(n), b), AllOf({Slot(n, Reduced)}), AllOf({}))
  BY <1>1, <1>7, VectorChknormRuns
<1>8. QED  BY <1>2, <1>3, <1>4, <1>5, <1>6, <1>7

LEMMA ExpandSlot ==
  ASSUME Build, NEW x
  PROVE  Fragment(x, polyvec_matrix_expand, AllOf({}), AllOf({Slot("mat", Canonical)}))
<1>1. AllOf({}) = {} /\ AllOf({Slot("mat", Canonical)}) = {All(Place("mat"), Canonical)}
  BY NoSlot, OneSlot
<1>2. QED  BY <1>1, ExpandRuns

(***************************************************************************)
(* Key generation.                                                         *)
(***************************************************************************)
LEMMA AddEtaRuns ==
  ASSUME Build, NEW x
  PROVE  Fragment(x, polyveck_add(Place("t1"), Place("s2")),
                  AllOf({Slot("t1", Intt), Slot("s2", EtaBound)}),
                  AllOf({Slot("t1", AddInterval(Intt, EtaBound))}))
<1>1. Is(Intt, -par.intt, par.intt) /\ Is(EtaBound, -ETA, ETA)
  BY ParBounds DEF Intt
<1>2. par.intt \in Int /\ -par.intt \in Int /\ ETA \in Int /\ -ETA \in Int
  BY DEF Build
<1>3. Within(AddInterval(Intt, EtaBound), Reducible)
  BY SumsAre
<1>4. Length("t1") = Length("s2")
  BY LengthsAre
<1>5. Fragment(x, polyveck_add(Place("t1"), Place("s2")),
               {All(Place("t1"), Intt), All(Place("s2"), EtaBound)},
               {All(Place("t1"), AddInterval(Intt, EtaBound))})
  BY <1>1, <1>2, <1>3, <1>4, VectorAddRuns
<1>6. AllOf({Slot("t1", Intt), Slot("s2", EtaBound)})
        = {All(Place("t1"), Intt), All(Place("s2"), EtaBound)}
  BY SeveralSlots
<1>7. AllOf({Slot("t1", AddInterval(Intt, EtaBound))}) = {All(Place("t1"), AddInterval(Intt, EtaBound))}
  BY OneSlot
<1>8. QED  BY <1>5, <1>6, <1>7

LEMMA KeypairReaches ==
  ASSUME Build, NEW x, Native(x)
  PROVE  \E F : Reaches(x, crypto_sign_keypair_internal, {}, F)
<1> DEFINE F0 == {}
<1> DEFINE p1 == polyvec_matrix_expand
<1> DEFINE F1 == {Slot("mat", Canonical)}
<1>1. Reaches(x, p1, F0, F1)
  <2> DEFINE R == {}   N == {Slot("mat", Canonical)}
  <2>1. AreSlots(R) /\ AreSlots(N)
    BY SlotFields DEF AreSlots
  <2>2. Fragment(x, polyvec_matrix_expand, AllOf(R), AllOf(N))
    BY ExpandSlot
  <2>3. Covered(R, F0)
    BY SlotFields, BoundsNarrow DEF Covered
  <2>4. Claimed(F1, F0, N)
    BY SlotFields DEF Claimed
  <2> HIDE DEF R, N, F0, F1
  <2>5. QED  BY <2>1, <2>2, <2>3, <2>4, FragmentReaches
<1> HIDE DEF p1
<1> DEFINE p2 == p1 \o sample_s1_s2(Place("s1"), Place("s2"))
<1> DEFINE F2 == {Slot("mat", Canonical), Slot("s1", EtaBound), Slot("s2", EtaBound)}
<1>2. Reaches(x, p2, F0, F2)
  <2> DEFINE R == {}   N == {Slot("s1", EtaBound), Slot("s2", EtaBound)}
  <2>1. AreSlots(R) /\ AreSlots(N)
    BY SlotFields DEF AreSlots
  <2>2. Fragment(x, sample_s1_s2(Place("s1"), Place("s2")), AllOf(R), AllOf(N))
    <3>1. AllOf(R) = {}
      BY NoSlot, OneSlot, SeveralSlots
    <3>2. AllOf(N) = {All(Place("s1"), EtaBound), All(Place("s2"), EtaBound)}
      BY NoSlot, OneSlot, SeveralSlots
    <3>3. Fragment(x, sample_s1_s2(Place("s1"), Place("s2")),
                   {}, {All(Place("s1"), EtaBound), All(Place("s2"), EtaBound)})
      BY SampleRuns
    <3>4. QED  BY <3>1, <3>2, <3>3
  <2>3. Covered(R, F1)
    BY SlotFields, BoundsNarrow DEF Covered
  <2>4. Claimed(F2, F1, N)
    BY SlotFields DEF Claimed
  <2> HIDE DEF R, N, F1, F2
  <2>5. QED  BY <1>1, <2>1, <2>2, <2>3, <2>4, Continues
<1> HIDE DEF p2
<1> DEFINE p3 == p2 \o Assign(Place("s1hat"), Place("s1"))
<1> DEFINE F3 == {Slot("mat", Canonical), Slot("s1", EtaBound), Slot("s2", EtaBound),
                  Slot("s1hat", EtaBound)}
<1>3. Reaches(x, p3, F0, F3)
  <2> DEFINE R == {Slot("s1", EtaBound)}   N == {Slot("s1hat", EtaBound)}
  <2>1. AreSlots(R) /\ AreSlots(N)
    BY SlotFields DEF AreSlots
  <2>2. Fragment(x, Assign(Place("s1hat"), Place("s1")), AllOf(R), AllOf(N))
    <3>1. AllOf(R) = {All(Place("s1"), EtaBound)}
      BY NoSlot, OneSlot, SeveralSlots
    <3>2. AllOf(N) = {All(Place("s1hat"), EtaBound)}
      BY NoSlot, OneSlot, SeveralSlots
    <3>3. Fragment(x, Assign(Place("s1hat"), Place("s1")),
                   {All(Place("s1"), EtaBound)}, {All(Place("s1hat"), EtaBound)})
      BY AssignRuns, LengthsAre
    <3>4. QED  BY <3>1, <3>2, <3>3
  <2>3. Covered(R, F2)
    BY SlotFields, BoundsNarrow DEF Covered
  <2>4. Claimed(F3, F2, N)
    BY SlotFields DEF Claimed
  <2> HIDE DEF R, N, F2, F3
  <2>5. QED  BY <1>2, <2>1, <2>2, <2>3, <2>4, Continues
<1> HIDE DEF p3
<1> DEFINE p4 == p3 \o polyvecl_ntt(Place("s1hat"))
<1> DEFINE F4 == {Slot("mat", Canonical), Slot("s1", EtaBound), Slot("s2", EtaBound),
                  Slot("s1hat", NttOutput)}
<1>4. Reaches(x, p4, F0, F4)
  <2> DEFINE R == {Slot("s1hat", BelowQ)}   N == {Slot("s1hat", NttOutput)}
  <2>1. AreSlots(R) /\ AreSlots(N)
    BY SlotFields DEF AreSlots
  <2>2. Fragment(x, polyvecl_ntt(Place("s1hat")), AllOf(R), AllOf(N))
    BY InPlaceRuns
  <2>3. Covered(R, F3)
    BY SlotFields, BoundsNarrow DEF Covered
  <2>4. Claimed(F4, F3, N)
    BY SlotFields DEF Claimed
  <2> HIDE DEF R, N, F3, F4
  <2>5. QED  BY <1>3, <2>1, <2>2, <2>3, <2>4, Continues
<1> HIDE DEF p4
<1> DEFINE p5 == p4 \o polyvec_matrix_pointwise_montgomery(Place("t1"), Place("s1hat"))
<1> DEFINE F5 == {Slot("s1", EtaBound), Slot("s2", EtaBound), Slot("t1", BelowQ)}
<1>5. Reaches(x, p5, F0, F5)
  <2> DEFINE R == {Slot("mat", Canonical), Slot("s1hat", NttOutput)}   N == {Slot("t1", BelowQ)}
  <2>1. AreSlots(R) /\ AreSlots(N)
    BY SlotFields DEF AreSlots
  <2>2. Fragment(x, polyvec_matrix_pointwise_montgomery(Place("t1"), Place("s1hat")), AllOf(R), AllOf(N))
    <3>1. AllOf(R) = {All(Place("mat"), Canonical), All(Place("s1hat"), NttOutput)}
      BY NoSlot, OneSlot, SeveralSlots
    <3>2. AllOf(N) = {All(Place("t1"), BelowQ)}
      BY NoSlot, OneSlot, SeveralSlots
    <3>3. Fragment(x, polyvec_matrix_pointwise_montgomery(Place("t1"), Place("s1hat")),
                   {All(Place("mat"), Canonical), All(Place("s1hat"), NttOutput)}, {All(Place("t1"), BelowQ)})
      BY RowRuns, LengthsAre
    <3>4. QED  BY <3>1, <3>2, <3>3
  <2>3. Covered(R, F4)
    BY SlotFields, BoundsNarrow DEF Covered
  <2>4. Claimed(F5, F4, N)
    BY SlotFields DEF Claimed
  <2> HIDE DEF R, N, F4, F5
  <2>5. QED  BY <1>4, <2>1, <2>2, <2>3, <2>4, Continues
<1> HIDE DEF p5
<1> DEFINE p6 == p5 \o polyveck_reduce(Place("t1"))
<1> DEFINE F6 == {Slot("s1", EtaBound), Slot("s2", EtaBound), Slot("t1", Reduced)}
<1>6. Reaches(x, p6, F0, F6)
  <2> DEFINE R == {Slot("t1", Reducible)}   N == {Slot("t1", Reduced)}
  <2>1. AreSlots(R) /\ AreSlots(N)
    BY SlotFields DEF AreSlots
  <2>2. Fragment(x, polyveck_reduce(Place("t1")), AllOf(R), AllOf(N))
    BY InPlaceRuns
  <2>3. Covered(R, F5)
    BY SlotFields, BoundsNarrow DEF Covered
  <2>4. Claimed(F6, F5, N)
    BY SlotFields DEF Claimed
  <2> HIDE DEF R, N, F5, F6
  <2>5. QED  BY <1>5, <2>1, <2>2, <2>3, <2>4, Continues
<1> HIDE DEF p6
<1> DEFINE p7 == p6 \o polyveck_invntt_tomont(Place("t1"))
<1> DEFINE F7 == {Slot("s1", EtaBound), Slot("s2", EtaBound), Slot("t1", Intt)}
<1>7. Reaches(x, p7, F0, F7)
  <2> DEFINE R == {Slot("t1", BelowQ)}   N == {Slot("t1", Intt)}
  <2>1. AreSlots(R) /\ AreSlots(N)
    BY SlotFields DEF AreSlots
  <2>2. Fragment(x, polyveck_invntt_tomont(Place("t1")), AllOf(R), AllOf(N))
    BY InPlaceRuns
  <2>3. Covered(R, F6)
    BY SlotFields, BoundsNarrow DEF Covered
  <2>4. Claimed(F7, F6, N)
    BY SlotFields DEF Claimed
  <2> HIDE DEF R, N, F6, F7
  <2>5. QED  BY <1>6, <2>1, <2>2, <2>3, <2>4, Continues
<1> HIDE DEF p7
<1> DEFINE p8 == p7 \o polyveck_add(Place("t1"), Place("s2"))
<1> DEFINE F8 == {Slot("s1", EtaBound), Slot("s2", EtaBound),
                  Slot("t1", AddInterval(Intt, EtaBound))}
<1>8. Reaches(x, p8, F0, F8)
  <2> DEFINE R == {Slot("t1", Intt), Slot("s2", EtaBound)}
  <2> DEFINE N == {Slot("t1", AddInterval(Intt, EtaBound))}
  <2>1. AreSlots(R) /\ AreSlots(N)
    BY SlotFields DEF AreSlots
  <2>2. Fragment(x, polyveck_add(Place("t1"), Place("s2")), AllOf(R), AllOf(N))
    BY AddEtaRuns
  <2>3. Covered(R, F7)
    BY SlotFields, BoundsNarrow DEF Covered
  <2>4. Claimed(F8, F7, N)
    BY SlotFields DEF Claimed
  <2> HIDE DEF R, N, F7, F8
  <2>5. QED  BY <1>7, <2>1, <2>2, <2>3, <2>4, Continues
<1> HIDE DEF p8
<1> DEFINE p9 == p8 \o polyveck_caddq(Place("t1"))
<1> DEFINE F9 == {Slot("s1", EtaBound), Slot("s2", EtaBound), Slot("t1", Canonical)}
<1>9. Reaches(x, p9, F0, F9)
  <2> DEFINE R == {Slot("t1", BelowQ)}   N == {Slot("t1", Canonical)}
  <2>1. AreSlots(R) /\ AreSlots(N)
    BY SlotFields DEF AreSlots
  <2>2. Fragment(x, polyveck_caddq(Place("t1")), AllOf(R), AllOf(N))
    BY InPlaceRuns
  <2>3. Covered(R, F8)
    BY SlotFields, BoundsNarrow DEF Covered
  <2>4. Claimed(F9, F8, N)
    BY SlotFields DEF Claimed
  <2> HIDE DEF R, N, F8, F9
  <2>5. QED  BY <1>8, <2>1, <2>2, <2>3, <2>4, Continues
<1> HIDE DEF p9
<1> DEFINE p10 == p9 \o polyveck_power2round(Place("t2"), Place("t0"), Place("t1"))
<1> DEFINE F10 == {Slot("s1", EtaBound), Slot("s2", EtaBound), Slot("t0", T0Bound),
                   Slot("t2", array_bound(0, ((Q - 1) \div 2 ^ D) + 1))}
<1>10. Reaches(x, p10, F0, F10)
  <2> DEFINE R == {Slot("t1", Canonical)}
  <2> DEFINE N == {Slot("t0", T0Bound), Slot("t2", array_bound(0, ((Q - 1) \div 2 ^ D) + 1))}
  <2>1. AreSlots(R) /\ AreSlots(N)
    BY SlotFields DEF AreSlots
  <2>2. Fragment(x, polyveck_power2round(Place("t2"), Place("t0"), Place("t1")), AllOf(R), AllOf(N))
    <3>1. AllOf(R) = {All(Place("t1"), Canonical)}
      BY NoSlot, OneSlot, SeveralSlots
    <3>2. AllOf(N) = {All(Place("t0"), T0Bound), All(Place("t2"), array_bound(0, ((Q - 1) \div 2 ^ D) + 1))}
      BY NoSlot, OneSlot, SeveralSlots
    <3>3. Fragment(x, polyveck_power2round(Place("t2"), Place("t0"), Place("t1")),
                   {All(Place("t1"), Canonical)}, {All(Place("t0"), T0Bound), All(Place("t2"), array_bound(0, ((Q - 1) \div 2 ^ D) + 1))})
      BY VectorPower2RoundRuns, LengthsAre
    <3>4. QED  BY <3>1, <3>2, <3>3
  <2>3. Covered(R, F9)
    BY SlotFields, BoundsNarrow DEF Covered
  <2>4. Claimed(F10, F9, N)
    BY SlotFields DEF Claimed
  <2> HIDE DEF R, N, F9, F10
  <2>5. QED  BY <1>9, <2>1, <2>2, <2>3, <2>4, Continues
<1> HIDE DEF p10
<1> DEFINE p11 == p10 \o pack_pk(Place("t2"))
<1> DEFINE F11 == {Slot("s1", EtaBound), Slot("s2", EtaBound), Slot("t0", T0Bound)}
<1>11. Reaches(x, p11, F0, F11)
  <2> DEFINE R == {Slot("t2", T1Bound)}   N == {}
  <2>1. AreSlots(R) /\ AreSlots(N)
    BY SlotFields DEF AreSlots
  <2>2. Fragment(x, pack_pk(Place("t2")), AllOf(R), AllOf(N))
    BY OneWayRuns
  <2>3. Covered(R, F10)
    BY SlotFields, BoundsNarrow DEF Covered
  <2>4. Claimed(F11, F10, N)
    BY SlotFields DEF Claimed
  <2> HIDE DEF R, N, F10, F11
  <2>5. QED  BY <1>10, <2>1, <2>2, <2>3, <2>4, Continues
<1> HIDE DEF p11
<1> DEFINE p12 == p11 \o pack_sk(Place("t0"), Place("s1"), Place("s2"))
<1> DEFINE F12 == {}
<1>12. Reaches(x, p12, F0, F12)
  <2> DEFINE R == {Slot("t0", T0Bound), Slot("s1", EtaBound), Slot("s2", EtaBound)}
  <2> DEFINE N == {Slot("field", Field(20))}
  <2>1. AreSlots(R) /\ AreSlots(N)
    BY SlotFields DEF AreSlots
  <2>2. Fragment(x, pack_sk(Place("t0"), Place("s1"), Place("s2")), AllOf(R), AllOf(N))
    BY PackSkRuns
  <2>3. Covered(R, F11)
    BY SlotFields, BoundsNarrow DEF Covered
  <2>4. Claimed(F12, F11, N)
    BY SlotFields DEF Claimed
  <2> HIDE DEF R, N, F11, F12
  <2>5. QED  BY <1>11, <2>1, <2>2, <2>3, <2>4, Continues
<1> HIDE DEF p12
<1>13. crypto_sign_keypair_internal = p12
  BY PlacesOfVectors DEF crypto_sign_keypair_internal, p1, p2, p3, p4, p5, p6, p7, p8, p9, p10, p11, p12
<1>14. QED  BY <1>12, <1>13

(***************************************************************************)
(* Signing.  An attempt keeps what it starts from: the matrix and the      *)
(* transformed secrets.                                                    *)
(***************************************************************************)
HeadSlots ==
  {Slot("mat", Canonical), Slot("t0", NttOutput), Slot("s1", NttOutput), Slot("s2", NttOutput)}

LEMMA HeadSlotsAre ==
  /\ AreSlots(HeadSlots)
  /\ AllOf(HeadSlots) = {All(Place("mat"), Canonical), All(Place("t0"), NttOutput),
                         All(Place("s1"), NttOutput), All(Place("s2"), NttOutput)}
<1>1. AreSlots(HeadSlots)
  BY SlotFields DEF AreSlots, HeadSlots
<1>2. AllOf(HeadSlots) = {All(Place("mat"), Canonical), All(Place("t0"), NttOutput),
                         All(Place("s1"), NttOutput), All(Place("s2"), NttOutput)}
  BY SlotFields DEF AllOf, HeadSlots
<1>3. QED  BY <1>1, <1>2

LEMMA NormRuns ==
  ASSUME Build, NEW x, x.head = Full(x, HeadSlots), NEW n
  PROVE  /\ Fragment(x, <<Norm(Place(n), GAMMA1 - BETA)>>, AllOf(HeadSlots),
                     AllOf({Slot(n, array_abs_bound(GAMMA1 - BETA))}))
         /\ Fragment(x, <<Norm(Place(n), GAMMA2 - BETA)>>, AllOf(HeadSlots),
                     AllOf({Slot(n, array_abs_bound(GAMMA2 - BETA))}))
         /\ Fragment(x, <<Norm(Place(n), GAMMA2)>>, AllOf(HeadSlots),
                     AllOf({Slot(n, array_abs_bound(GAMMA2))}))
         /\ Fragment(x, <<Decide({}, "head")>>, AllOf(HeadSlots), AllOf({}))
<1>1. /\ GAMMA1 \in Int /\ GAMMA2 \in Int /\ BETA \in Int
      /\ -GAMMA1 + BETA + 1 \in Int /\ GAMMA1 - BETA - 1 \in Int
      /\ -GAMMA2 + BETA + 1 \in Int /\ GAMMA2 - BETA - 1 \in Int
      /\ -GAMMA2 + 1 \in Int /\ GAMMA2 - 1 \in Int
  BY DEF Build
<1>2. /\ Is(array_abs_bound(GAMMA1 - BETA), -GAMMA1 + BETA + 1, GAMMA1 - BETA - 1)
      /\ Is(array_abs_bound(GAMMA2 - BETA), -GAMMA2 + BETA + 1, GAMMA2 - BETA - 1)
      /\ Is(array_abs_bound(GAMMA2), -GAMMA2 + 1, GAMMA2 - 1)
  BY NormsAre
<1>3. ASSUME NEW b, NEW lo \in Int, NEW hi \in Int, Is(array_abs_bound(b), lo, hi)
      PROVE  /\ Fragment(x, <<Norm(Place(n), b)>>, AllOf(HeadSlots), AllOf({Slot(n, array_abs_bound(b))}))
             /\ Fragment(x, <<Decide({}, "head")>>, AllOf(HeadSlots), AllOf({}))
  BY <1>3, HeadSlotsAre, DecideRuns DEF Norm
<1>4. Fragment(x, <<Norm(Place(n), GAMMA1 - BETA)>>, AllOf(HeadSlots),
               AllOf({Slot(n, array_abs_bound(GAMMA1 - BETA))}))
  BY <1>1, <1>2, <1>3
<1>5. Fragment(x, <<Norm(Place(n), GAMMA2 - BETA)>>, AllOf(HeadSlots),
               AllOf({Slot(n, array_abs_bound(GAMMA2 - BETA))}))
  BY <1>1, <1>2, <1>3
<1>6. /\ Fragment(x, <<Norm(Place(n), GAMMA2)>>, AllOf(HeadSlots),
                  AllOf({Slot(n, array_abs_bound(GAMMA2))}))
      /\ Fragment(x, <<Decide({}, "head")>>, AllOf(HeadSlots), AllOf({}))
  BY <1>1, <1>2, <1>3
<1>7. QED  BY <1>4, <1>5, <1>6

LEMMA AddMaskRuns ==
  ASSUME Build, NEW x
  PROVE  Fragment(x, polyvecl_add(Place("z"), Place("y")),
                  AllOf({Slot("z", Intt), Slot("y", ZBound)}),
                  AllOf({Slot("z", AddInterval(Intt, ZBound))}))
<1> DEFINE a == Intt   b == ZBound
<1>1. Is(a, -par.intt, par.intt) /\ Is(b, -GAMMA1 + 1, GAMMA1)
  BY ParBounds DEF Intt
<1>2. par.intt \in Int /\ -par.intt \in Int /\ GAMMA1 \in Int /\ -GAMMA1 + 1 \in Int
  BY DEF Build
<1>3. Within(AddInterval(a, b), Reducible)
  BY SumsAre
<1>4. Length("z") = Length("y")
  BY LengthsAre
<1>5. /\ AllOf({Slot("z", a), Slot("y", b)}) = {All(Place("z"), a), All(Place("y"), b)}
      /\ AllOf({Slot("z", AddInterval(a, b))}) = {All(Place("z"), AddInterval(a, b))}
  BY OneSlot, SeveralSlots
<1> HIDE DEF a, b
<1>6. Fragment(x, polyvecl_add(Place("z"), Place("y")),
               {All(Place("z"), a), All(Place("y"), b)}, {All(Place("z"), AddInterval(a, b))})
  BY <1>1, <1>2, <1>3, <1>4, VectorAddRuns
<1>7. QED  BY <1>5, <1>6 DEF a, b

LEMMA AddLowRuns ==
  ASSUME Build, NEW x
  PROVE  Fragment(x, polyveck_add(Place("w0"), Place("h")),
                  AllOf({Slot("w0", array_abs_bound(GAMMA2 - BETA)), Slot("h", array_abs_bound(GAMMA2))}),
                  AllOf({Slot("w0", AddInterval(array_abs_bound(GAMMA2 - BETA), array_abs_bound(GAMMA2)))}))
<1> DEFINE a == array_abs_bound(GAMMA2 - BETA)   b == array_abs_bound(GAMMA2)
<1>1. Is(a, -GAMMA2 + BETA + 1, GAMMA2 - BETA - 1) /\ Is(b, -GAMMA2 + 1, GAMMA2 - 1)
  BY NormsAre
<1>2. /\ -GAMMA2 + BETA + 1 \in Int /\ GAMMA2 - BETA - 1 \in Int
      /\ -GAMMA2 + 1 \in Int /\ GAMMA2 - 1 \in Int
  BY DEF Build
<1>3. Within(AddInterval(a, b), Reducible)
  BY SumsAre
<1>4. Length("w0") = Length("h")
  BY LengthsAre
<1>5. /\ AllOf({Slot("w0", a), Slot("h", b)}) = {All(Place("w0"), a), All(Place("h"), b)}
      /\ AllOf({Slot("w0", AddInterval(a, b))}) = {All(Place("w0"), AddInterval(a, b))}
  BY OneSlot, SeveralSlots
<1> HIDE DEF a, b
<1>6. Fragment(x, polyveck_add(Place("w0"), Place("h")),
               {All(Place("w0"), a), All(Place("h"), b)}, {All(Place("w0"), AddInterval(a, b))})
  BY <1>1, <1>2, <1>3, <1>4, VectorAddRuns
<1>7. QED  BY <1>5, <1>6 DEF a, b

LEMMA SigningStarts ==
  ASSUME Build, NEW x, Native(x)
  PROVE  Reaches(x, unpack_sk(Place("t0"), Place("s1"), Place("s2")) \o polyvec_matrix_expand
                      \o polyvecl_ntt(Place("s1")) \o polyveck_ntt(Place("s2"))
                      \o polyveck_ntt(Place("t0")), {}, HeadSlots)
<1> DEFINE F0 == {}
<1> DEFINE p1 == unpack_sk(Place("t0"), Place("s1"), Place("s2"))
<1> DEFINE F1 == {Slot("t0", T0Bound), Slot("s1", UnpackedEta), Slot("s2", UnpackedEta)}
<1>1. Reaches(x, p1, F0, F1)
  <2> DEFINE R == {}   N == {Slot("t0", T0Bound), Slot("s1", UnpackedEta), Slot("s2", UnpackedEta)}
  <2>1. AreSlots(R) /\ AreSlots(N)
    BY SlotFields DEF AreSlots
  <2>2. Fragment(x, unpack_sk(Place("t0"), Place("s1"), Place("s2")), AllOf(R), AllOf(N))
    BY UnpackSkRuns
  <2>3. Covered(R, F0)
    BY SlotFields, BoundsNarrow DEF Covered
  <2>4. Claimed(F1, F0, N)
    BY SlotFields DEF Claimed
  <2> HIDE DEF R, N, F0, F1
  <2>5. QED  BY <2>1, <2>2, <2>3, <2>4, FragmentReaches
<1> HIDE DEF p1
<1> DEFINE p2 == p1 \o polyvec_matrix_expand
<1> DEFINE F2 == {Slot("t0", T0Bound), Slot("s1", UnpackedEta), Slot("s2", UnpackedEta),
                  Slot("mat", Canonical)}
<1>2. Reaches(x, p2, F0, F2)
  <2> DEFINE R == {}   N == {Slot("mat", Canonical)}
  <2>1. AreSlots(R) /\ AreSlots(N)
    BY SlotFields DEF AreSlots
  <2>2. Fragment(x, polyvec_matrix_expand, AllOf(R), AllOf(N))
    BY ExpandSlot
  <2>3. Covered(R, F1)
    BY SlotFields, BoundsNarrow DEF Covered
  <2>4. Claimed(F2, F1, N)
    BY SlotFields DEF Claimed
  <2> HIDE DEF R, N, F1, F2
  <2>5. QED  BY <1>1, <2>1, <2>2, <2>3, <2>4, Continues
<1> HIDE DEF p2
<1> DEFINE p3 == p2 \o polyvecl_ntt(Place("s1"))
<1> DEFINE F3 == {Slot("t0", T0Bound), Slot("s1", NttOutput), Slot("s2", UnpackedEta),
                  Slot("mat", Canonical)}
<1>3. Reaches(x, p3, F0, F3)
  <2> DEFINE R == {Slot("s1", BelowQ)}   N == {Slot("s1", NttOutput)}
  <2>1. AreSlots(R) /\ AreSlots(N)
    BY SlotFields DEF AreSlots
  <2>2. Fragment(x, polyvecl_ntt(Place("s1")), AllOf(R), AllOf(N))
    BY InPlaceRuns
  <2>3. Covered(R, F2)
    BY SlotFields, BoundsNarrow DEF Covered
  <2>4. Claimed(F3, F2, N)
    BY SlotFields DEF Claimed
  <2> HIDE DEF R, N, F2, F3
  <2>5. QED  BY <1>2, <2>1, <2>2, <2>3, <2>4, Continues
<1> HIDE DEF p3
<1> DEFINE p4 == p3 \o polyveck_ntt(Place("s2"))
<1> DEFINE F4 == {Slot("t0", T0Bound), Slot("s1", NttOutput), Slot("s2", NttOutput),
                  Slot("mat", Canonical)}
<1>4. Reaches(x, p4, F0, F4)
  <2> DEFINE R == {Slot("s2", BelowQ)}   N == {Slot("s2", NttOutput)}
  <2>1. AreSlots(R) /\ AreSlots(N)
    BY SlotFields DEF AreSlots
  <2>2. Fragment(x, polyveck_ntt(Place("s2")), AllOf(R), AllOf(N))
    BY InPlaceRuns
  <2>3. Covered(R, F3)
    BY SlotFields, BoundsNarrow DEF Covered
  <2>4. Claimed(F4, F3, N)
    BY SlotFields DEF Claimed
  <2> HIDE DEF R, N, F3, F4
  <2>5. QED  BY <1>3, <2>1, <2>2, <2>3, <2>4, Continues
<1> HIDE DEF p4
<1> DEFINE p5 == p4 \o polyveck_ntt(Place("t0"))
<1> DEFINE F5 == {Slot("t0", NttOutput), Slot("s1", NttOutput), Slot("s2", NttOutput),
                  Slot("mat", Canonical)}
<1>5. Reaches(x, p5, F0, F5)
  <2> DEFINE R == {Slot("t0", BelowQ)}   N == {Slot("t0", NttOutput)}
  <2>1. AreSlots(R) /\ AreSlots(N)
    BY SlotFields DEF AreSlots
  <2>2. Fragment(x, polyveck_ntt(Place("t0")), AllOf(R), AllOf(N))
    BY InPlaceRuns
  <2>3. Covered(R, F4)
    BY SlotFields, BoundsNarrow DEF Covered
  <2>4. Claimed(F5, F4, N)
    BY SlotFields DEF Claimed
  <2> HIDE DEF R, N, F4, F5
  <2>5. QED  BY <1>4, <2>1, <2>2, <2>3, <2>4, Continues
<1> HIDE DEF p5
<1>6. F5 = HeadSlots
  BY DEF HeadSlots, F5
<1>7. QED  BY <1>5, <1>6 DEF p1, p2, p3, p4, p5

LEMMA AttemptReaches ==
  ASSUME Build, NEW x, Native(x), x.head = Full(x, HeadSlots)
  PROVE  \E F : Reaches(x, attempt_signature_generation(Place("s1"), Place("s2"), Place("t0")),
                      HeadSlots, F)
<1> DEFINE F0 == {Slot("mat", Canonical), Slot("t0", NttOutput), Slot("s1", NttOutput), Slot("s2", NttOutput)}
<1> DEFINE p1 == polyvecl_uniform_gamma1(Place("y"))
<1> DEFINE F1 == {Slot("mat", Canonical), Slot("t0", NttOutput), Slot("s1", NttOutput),
                  Slot("s2", NttOutput), Slot("y", ZBound)}
<1>1. Reaches(x, p1, F0, F1)
  <2> DEFINE R == {}   N == {Slot("y", ZBound)}
  <2>1. AreSlots(R) /\ AreSlots(N)
    BY SlotFields DEF AreSlots
  <2>2. Fragment(x, polyvecl_uniform_gamma1(Place("y")), AllOf(R), AllOf(N))
    BY OneWayRuns, LengthsAre
  <2>3. Covered(R, F0)
    BY SlotFields, BoundsNarrow DEF Covered
  <2>4. Claimed(F1, F0, N)
    BY SlotFields DEF Claimed
  <2> HIDE DEF R, N, F0, F1
  <2>5. QED  BY <2>1, <2>2, <2>3, <2>4, FragmentReaches
<1> HIDE DEF p1
<1> DEFINE p2 == p1 \o Assign(Place("z"), Place("y"))
<1> DEFINE F2 == {Slot("mat", Canonical), Slot("t0", NttOutput), Slot("s1", NttOutput),
                  Slot("s2", NttOutput), Slot("y", ZBound), Slot("z", ZBound)}
<1>2. Reaches(x, p2, F0, F2)
  <2> DEFINE R == {Slot("y", ZBound)}   N == {Slot("z", ZBound)}
  <2>1. AreSlots(R) /\ AreSlots(N)
    BY SlotFields DEF AreSlots
  <2>2. Fragment(x, Assign(Place("z"), Place("y")), AllOf(R), AllOf(N))
    <3>1. AllOf(R) = {All(Place("y"), ZBound)}
      BY NoSlot, OneSlot, SeveralSlots
    <3>2. AllOf(N) = {All(Place("z"), ZBound)}
      BY NoSlot, OneSlot, SeveralSlots
    <3>3. Fragment(x, Assign(Place("z"), Place("y")),
                   {All(Place("y"), ZBound)}, {All(Place("z"), ZBound)})
      BY AssignRuns, LengthsAre
    <3>4. QED  BY <3>1, <3>2, <3>3
  <2>3. Covered(R, F1)
    BY SlotFields, BoundsNarrow DEF Covered
  <2>4. Claimed(F2, F1, N)
    BY SlotFields DEF Claimed
  <2> HIDE DEF R, N, F1, F2
  <2>5. QED  BY <1>1, <2>1, <2>2, <2>3, <2>4, Continues
<1> HIDE DEF p2
<1> DEFINE p3 == p2 \o polyvecl_ntt(Place("z"))
<1> DEFINE F3 == {Slot("mat", Canonical), Slot("t0", NttOutput), Slot("s1", NttOutput),
                  Slot("s2", NttOutput), Slot("y", ZBound), Slot("z", NttOutput)}
<1>3. Reaches(x, p3, F0, F3)
  <2> DEFINE R == {Slot("z", BelowQ)}   N == {Slot("z", NttOutput)}
  <2>1. AreSlots(R) /\ AreSlots(N)
    BY SlotFields DEF AreSlots
  <2>2. Fragment(x, polyvecl_ntt(Place("z")), AllOf(R), AllOf(N))
    BY InPlaceRuns
  <2>3. Covered(R, F2)
    BY SlotFields, BoundsNarrow DEF Covered
  <2>4. Claimed(F3, F2, N)
    BY SlotFields DEF Claimed
  <2> HIDE DEF R, N, F2, F3
  <2>5. QED  BY <1>2, <2>1, <2>2, <2>3, <2>4, Continues
<1> HIDE DEF p3
<1> DEFINE p4 == p3 \o polyvec_matrix_pointwise_montgomery(Place("w1"), Place("z"))
<1> DEFINE F4 == {Slot("mat", Canonical), Slot("t0", NttOutput), Slot("s1", NttOutput),
                  Slot("s2", NttOutput), Slot("y", ZBound), Slot("w1", BelowQ)}
<1>4. Reaches(x, p4, F0, F4)
  <2> DEFINE R == {Slot("mat", Canonical), Slot("z", NttOutput)}   N == {Slot("w1", BelowQ)}
  <2>1. AreSlots(R) /\ AreSlots(N)
    BY SlotFields DEF AreSlots
  <2>2. Fragment(x, polyvec_matrix_pointwise_montgomery(Place("w1"), Place("z")), AllOf(R), AllOf(N))
    <3>1. AllOf(R) = {All(Place("mat"), Canonical), All(Place("z"), NttOutput)}
      BY NoSlot, OneSlot, SeveralSlots
    <3>2. AllOf(N) = {All(Place("w1"), BelowQ)}
      BY NoSlot, OneSlot, SeveralSlots
    <3>3. Fragment(x, polyvec_matrix_pointwise_montgomery(Place("w1"), Place("z")),
                   {All(Place("mat"), Canonical), All(Place("z"), NttOutput)}, {All(Place("w1"), BelowQ)})
      BY RowRuns, LengthsAre
    <3>4. QED  BY <3>1, <3>2, <3>3
  <2>3. Covered(R, F3)
    BY SlotFields, BoundsNarrow DEF Covered
  <2>4. Claimed(F4, F3, N)
    BY SlotFields DEF Claimed
  <2> HIDE DEF R, N, F3, F4
  <2>5. QED  BY <1>3, <2>1, <2>2, <2>3, <2>4, Continues
<1> HIDE DEF p4
<1> DEFINE p5 == p4 \o polyveck_reduce(Place("w1"))
<1> DEFINE F5 == {Slot("mat", Canonical), Slot("t0", NttOutput), Slot("s1", NttOutput),
                  Slot("s2", NttOutput), Slot("y", ZBound), Slot("w1", Reduced)}
<1>5. Reaches(x, p5, F0, F5)
  <2> DEFINE R == {Slot("w1", Reducible)}   N == {Slot("w1", Reduced)}
  <2>1. AreSlots(R) /\ AreSlots(N)
    BY SlotFields DEF AreSlots
  <2>2. Fragment(x, polyveck_reduce(Place("w1")), AllOf(R), AllOf(N))
    BY InPlaceRuns
  <2>3. Covered(R, F4)
    BY SlotFields, BoundsNarrow DEF Covered
  <2>4. Claimed(F5, F4, N)
    BY SlotFields DEF Claimed
  <2> HIDE DEF R, N, F4, F5
  <2>5. QED  BY <1>4, <2>1, <2>2, <2>3, <2>4, Continues
<1> HIDE DEF p5
<1> DEFINE p6 == p5 \o polyveck_invntt_tomont(Place("w1"))
<1> DEFINE F6 == {Slot("mat", Canonical), Slot("t0", NttOutput), Slot("s1", NttOutput),
                  Slot("s2", NttOutput), Slot("y", ZBound), Slot("w1", Intt)}
<1>6. Reaches(x, p6, F0, F6)
  <2> DEFINE R == {Slot("w1", BelowQ)}   N == {Slot("w1", Intt)}
  <2>1. AreSlots(R) /\ AreSlots(N)
    BY SlotFields DEF AreSlots
  <2>2. Fragment(x, polyveck_invntt_tomont(Place("w1")), AllOf(R), AllOf(N))
    BY InPlaceRuns
  <2>3. Covered(R, F5)
    BY SlotFields, BoundsNarrow DEF Covered
  <2>4. Claimed(F6, F5, N)
    BY SlotFields DEF Claimed
  <2> HIDE DEF R, N, F5, F6
  <2>5. QED  BY <1>5, <2>1, <2>2, <2>3, <2>4, Continues
<1> HIDE DEF p6
<1> DEFINE p7 == p6 \o polyveck_caddq(Place("w1"))
<1> DEFINE F7 == {Slot("mat", Canonical), Slot("t0", NttOutput), Slot("s1", NttOutput),
                  Slot("s2", NttOutput), Slot("y", ZBound), Slot("w1", Canonical)}
<1>7. Reaches(x, p7, F0, F7)
  <2> DEFINE R == {Slot("w1", BelowQ)}   N == {Slot("w1", Canonical)}
  <2>1. AreSlots(R) /\ AreSlots(N)
    BY SlotFields DEF AreSlots
  <2>2. Fragment(x, polyveck_caddq(Place("w1")), AllOf(R), AllOf(N))
    BY InPlaceRuns
  <2>3. Covered(R, F6)
    BY SlotFields, BoundsNarrow DEF Covered
  <2>4. Claimed(F7, F6, N)
    BY SlotFields DEF Claimed
  <2> HIDE DEF R, N, F6, F7
  <2>5. QED  BY <1>6, <2>1, <2>2, <2>3, <2>4, Continues
<1> HIDE DEF p7
<1> DEFINE p8 == p7 \o polyveck_decompose(Place("w2"), Place("w0"), Place("w1"))
<1> DEFINE F8 == {Slot("mat", Canonical), Slot("t0", NttOutput), Slot("s1", NttOutput),
                  Slot("s2", NttOutput), Slot("y", ZBound), Slot("w2", HighBits),
                  Slot("w0", LowBits)}
<1>8. Reaches(x, p8, F0, F8)
  <2> DEFINE R == {Slot("w1", Canonical)}   N == {Slot("w2", HighBits), Slot("w0", LowBits)}
  <2>1. AreSlots(R) /\ AreSlots(N)
    BY SlotFields DEF AreSlots
  <2>2. Fragment(x, polyveck_decompose(Place("w2"), Place("w0"), Place("w1")), AllOf(R), AllOf(N))
    <3>1. AllOf(R) = {All(Place("w1"), Canonical)}
      BY NoSlot, OneSlot, SeveralSlots
    <3>2. AllOf(N) = {All(Place("w2"), HighBits), All(Place("w0"), LowBits)}
      BY NoSlot, OneSlot, SeveralSlots
    <3>3. Fragment(x, polyveck_decompose(Place("w2"), Place("w0"), Place("w1")),
                   {All(Place("w1"), Canonical)}, {All(Place("w2"), HighBits), All(Place("w0"), LowBits)})
      BY VectorDecomposeRuns, LengthsAre
    <3>4. QED  BY <3>1, <3>2, <3>3
  <2>3. Covered(R, F7)
    BY SlotFields, BoundsNarrow DEF Covered
  <2>4. Claimed(F8, F7, N)
    BY SlotFields DEF Claimed
  <2> HIDE DEF R, N, F7, F8
  <2>5. QED  BY <1>7, <2>1, <2>2, <2>3, <2>4, Continues
<1> HIDE DEF p8
<1> DEFINE p9 == p8 \o polyveck_pack_w1(Place("w2"))
<1> DEFINE F9 == {Slot("mat", Canonical), Slot("t0", NttOutput), Slot("s1", NttOutput),
                  Slot("s2", NttOutput), Slot("y", ZBound), Slot("w0", LowBits)}
<1>9. Reaches(x, p9, F0, F9)
  <2> DEFINE R == {Slot("w2", HighBits)}   N == {}
  <2>1. AreSlots(R) /\ AreSlots(N)
    BY SlotFields DEF AreSlots
  <2>2. Fragment(x, polyveck_pack_w1(Place("w2")), AllOf(R), AllOf(N))
    BY OneWayRuns
  <2>3. Covered(R, F8)
    BY SlotFields, BoundsNarrow DEF Covered
  <2>4. Claimed(F9, F8, N)
    BY SlotFields DEF Claimed
  <2> HIDE DEF R, N, F8, F9
  <2>5. QED  BY <1>8, <2>1, <2>2, <2>3, <2>4, Continues
<1> HIDE DEF p9
<1> DEFINE p10 == p9 \o poly_challenge(Poly("cp"))
<1> DEFINE F10 == {Slot("mat", Canonical), Slot("t0", NttOutput), Slot("s1", NttOutput),
                   Slot("s2", NttOutput), Slot("y", ZBound), Slot("w0", LowBits),
                   Slot("cp", array_bound(-1, 2))}
<1>10. Reaches(x, p10, F0, F10)
  <2> DEFINE R == {}   N == {Slot("cp", array_bound(-1, 2))}
  <2>1. AreSlots(R) /\ AreSlots(N)
    BY SlotFields DEF AreSlots
  <2>2. Fragment(x, poly_challenge(Poly("cp")), AllOf(R), AllOf(N))
    BY ChallengeSlot
  <2>3. Covered(R, F9)
    BY SlotFields, BoundsNarrow DEF Covered
  <2>4. Claimed(F10, F9, N)
    BY SlotFields DEF Claimed
  <2> HIDE DEF R, N, F9, F10
  <2>5. QED  BY <1>9, <2>1, <2>2, <2>3, <2>4, Continues
<1> HIDE DEF p10
<1> DEFINE p11 == p10 \o poly_ntt(Poly("cp"))
<1> DEFINE F11 == {Slot("mat", Canonical), Slot("t0", NttOutput), Slot("s1", NttOutput),
                   Slot("s2", NttOutput), Slot("y", ZBound), Slot("w0", LowBits),
                   Slot("cp", NttOutput)}
<1>11. Reaches(x, p11, F0, F11)
  <2> DEFINE R == {Slot("cp", BelowQ)}   N == {Slot("cp", NttOutput)}
  <2>1. AreSlots(R) /\ AreSlots(N)
    BY SlotFields DEF AreSlots
  <2>2. Fragment(x, poly_ntt(Poly("cp")), AllOf(R), AllOf(N))
    BY ChallengeSlot
  <2>3. Covered(R, F10)
    BY SlotFields, BoundsNarrow DEF Covered
  <2>4. Claimed(F11, F10, N)
    BY SlotFields DEF Claimed
  <2> HIDE DEF R, N, F10, F11
  <2>5. QED  BY <1>10, <2>1, <2>2, <2>3, <2>4, Continues
<1> HIDE DEF p11
<1> DEFINE p12 == p11 \o polyvecl_pointwise_poly_montgomery(Place("z"), Poly("cp"), Place("s1"))
<1> DEFINE F12 == {Slot("mat", Canonical), Slot("t0", NttOutput), Slot("s1", NttOutput),
                   Slot("s2", NttOutput), Slot("y", ZBound), Slot("z", BelowQ),
                   Slot("w0", LowBits), Slot("cp", NttOutput)}
<1>12. Reaches(x, p12, F0, F12)
  <2> DEFINE R == {Slot("cp", NttOutput), Slot("s1", NttOutput)}   N == {Slot("z", BelowQ)}
  <2>1. AreSlots(R) /\ AreSlots(N)
    BY SlotFields DEF AreSlots
  <2>2. Fragment(x, polyvecl_pointwise_poly_montgomery(Place("z"), Poly("cp"), Place("s1")), AllOf(R), AllOf(N))
    BY ChallengeProducts, LengthsAre
  <2>3. Covered(R, F11)
    BY SlotFields, BoundsNarrow DEF Covered
  <2>4. Claimed(F12, F11, N)
    BY SlotFields DEF Claimed
  <2> HIDE DEF R, N, F11, F12
  <2>5. QED  BY <1>11, <2>1, <2>2, <2>3, <2>4, Continues
<1> HIDE DEF p12
<1> DEFINE p13 == p12 \o polyvecl_invntt_tomont(Place("z"))
<1> DEFINE F13 == {Slot("mat", Canonical), Slot("t0", NttOutput), Slot("s1", NttOutput),
                   Slot("s2", NttOutput), Slot("y", ZBound), Slot("z", Intt), Slot("w0", LowBits),
                   Slot("cp", NttOutput)}
<1>13. Reaches(x, p13, F0, F13)
  <2> DEFINE R == {Slot("z", BelowQ)}   N == {Slot("z", Intt)}
  <2>1. AreSlots(R) /\ AreSlots(N)
    BY SlotFields DEF AreSlots
  <2>2. Fragment(x, polyvecl_invntt_tomont(Place("z")), AllOf(R), AllOf(N))
    BY InPlaceRuns
  <2>3. Covered(R, F12)
    BY SlotFields, BoundsNarrow DEF Covered
  <2>4. Claimed(F13, F12, N)
    BY SlotFields DEF Claimed
  <2> HIDE DEF R, N, F12, F13
  <2>5. QED  BY <1>12, <2>1, <2>2, <2>3, <2>4, Continues
<1> HIDE DEF p13
<1> DEFINE p14 == p13 \o polyvecl_add(Place("z"), Place("y"))
<1> DEFINE F14 == {Slot("mat", Canonical), Slot("t0", NttOutput), Slot("s1", NttOutput),
                   Slot("s2", NttOutput), Slot("z", AddInterval(Intt, ZBound)),
                   Slot("w0", LowBits), Slot("cp", NttOutput)}
<1>14. Reaches(x, p14, F0, F14)
  <2> DEFINE R == {Slot("z", Intt), Slot("y", ZBound)}   N == {Slot("z", AddInterval(Intt, ZBound))}
  <2>1. AreSlots(R) /\ AreSlots(N)
    BY SlotFields DEF AreSlots
  <2>2. Fragment(x, polyvecl_add(Place("z"), Place("y")), AllOf(R), AllOf(N))
    BY AddMaskRuns
  <2>3. Covered(R, F13)
    BY SlotFields, BoundsNarrow DEF Covered
  <2>4. Claimed(F14, F13, N)
    BY SlotFields DEF Claimed
  <2> HIDE DEF R, N, F13, F14
  <2>5. QED  BY <1>13, <2>1, <2>2, <2>3, <2>4, Continues
<1> HIDE DEF p14
<1> DEFINE p15 == p14 \o polyvecl_reduce(Place("z"))
<1> DEFINE F15 == {Slot("mat", Canonical), Slot("t0", NttOutput), Slot("s1", NttOutput),
                   Slot("s2", NttOutput), Slot("z", Reduced), Slot("w0", LowBits),
                   Slot("cp", NttOutput)}
<1>15. Reaches(x, p15, F0, F15)
  <2> DEFINE R == {Slot("z", Reducible)}   N == {Slot("z", Reduced)}
  <2>1. AreSlots(R) /\ AreSlots(N)
    BY SlotFields DEF AreSlots
  <2>2. Fragment(x, polyvecl_reduce(Place("z")), AllOf(R), AllOf(N))
    BY InPlaceRuns
  <2>3. Covered(R, F14)
    BY SlotFields, BoundsNarrow DEF Covered
  <2>4. Claimed(F15, F14, N)
    BY SlotFields DEF Claimed
  <2> HIDE DEF R, N, F14, F15
  <2>5. QED  BY <1>14, <2>1, <2>2, <2>3, <2>4, Continues
<1> HIDE DEF p15
<1> DEFINE p16 == p15 \o polyvecl_chknorm(Place("z"), GAMMA1 - BETA)
<1> DEFINE F16 == {Slot("mat", Canonical), Slot("t0", NttOutput), Slot("s1", NttOutput),
                   Slot("s2", NttOutput), Slot("w0", LowBits), Slot("cp", NttOutput)}
<1>16. Reaches(x, p16, F0, F16)
  <2> DEFINE R == {Slot("z", Reduced)}   N == {}
  <2>1. AreSlots(R) /\ AreSlots(N)
    BY SlotFields DEF AreSlots
  <2>2. Fragment(x, polyvecl_chknorm(Place("z"), GAMMA1 - BETA), AllOf(R), AllOf(N))
    BY OneWayRuns, NormsAre
  <2>3. Covered(R, F15)
    BY SlotFields, BoundsNarrow DEF Covered
  <2>4. Claimed(F16, F15, N)
    BY SlotFields DEF Claimed
  <2> HIDE DEF R, N, F15, F16
  <2>5. QED  BY <1>15, <2>1, <2>2, <2>3, <2>4, Continues
<1> HIDE DEF p16
<1> DEFINE p17 == p16 \o <<Norm(Place("z"), GAMMA1 - BETA)>>
<1> DEFINE F17 == {Slot("mat", Canonical), Slot("t0", NttOutput), Slot("s1", NttOutput),
                   Slot("s2", NttOutput), Slot("z", array_abs_bound(GAMMA1 - BETA)),
                   Slot("w0", LowBits), Slot("cp", NttOutput)}
<1>17. Reaches(x, p17, F0, F17)
  <2> DEFINE R == HeadSlots   N == {Slot("z", array_abs_bound(GAMMA1 - BETA))}
  <2>1. AreSlots(R) /\ AreSlots(N)
    BY SlotFields DEF AreSlots, HeadSlots
  <2>2. Fragment(x, <<Norm(Place("z"), GAMMA1 - BETA)>>, AllOf(R), AllOf(N))
    BY NormRuns
  <2>3. Covered(R, F16)
    BY SlotFields, BoundsNarrow DEF Covered, HeadSlots
  <2>4. Claimed(F17, F16, N)
    BY SlotFields DEF Claimed
  <2> HIDE DEF R, N, F16, F17
  <2>5. QED  BY <1>16, <2>1, <2>2, <2>3, <2>4, Continues
<1> HIDE DEF p17
<1> DEFINE p18 == p17 \o polyveck_pointwise_poly_montgomery(Place("h"), Poly("cp"), Place("s2"))
<1> DEFINE F18 == {Slot("mat", Canonical), Slot("t0", NttOutput), Slot("s1", NttOutput),
                   Slot("s2", NttOutput), Slot("z", array_abs_bound(GAMMA1 - BETA)),
                   Slot("w0", LowBits), Slot("cp", NttOutput), Slot("h", BelowQ)}
<1>18. Reaches(x, p18, F0, F18)
  <2> DEFINE R == {Slot("cp", NttOutput), Slot("s2", NttOutput)}   N == {Slot("h", BelowQ)}
  <2>1. AreSlots(R) /\ AreSlots(N)
    BY SlotFields DEF AreSlots
  <2>2. Fragment(x, polyveck_pointwise_poly_montgomery(Place("h"), Poly("cp"), Place("s2")), AllOf(R), AllOf(N))
    BY ChallengeProducts, LengthsAre
  <2>3. Covered(R, F17)
    BY SlotFields, BoundsNarrow DEF Covered
  <2>4. Claimed(F18, F17, N)
    BY SlotFields DEF Claimed
  <2> HIDE DEF R, N, F17, F18
  <2>5. QED  BY <1>17, <2>1, <2>2, <2>3, <2>4, Continues
<1> HIDE DEF p18
<1> DEFINE p19 == p18 \o polyveck_invntt_tomont(Place("h"))
<1> DEFINE F19 == {Slot("mat", Canonical), Slot("t0", NttOutput), Slot("s1", NttOutput),
                   Slot("s2", NttOutput), Slot("z", array_abs_bound(GAMMA1 - BETA)),
                   Slot("w0", LowBits), Slot("cp", NttOutput), Slot("h", Intt)}
<1>19. Reaches(x, p19, F0, F19)
  <2> DEFINE R == {Slot("h", BelowQ)}   N == {Slot("h", Intt)}
  <2>1. AreSlots(R) /\ AreSlots(N)
    BY SlotFields DEF AreSlots
  <2>2. Fragment(x, polyveck_invntt_tomont(Place("h")), AllOf(R), AllOf(N))
    BY InPlaceRuns
  <2>3. Covered(R, F18)
    BY SlotFields, BoundsNarrow DEF Covered
  <2>4. Claimed(F19, F18, N)
    BY SlotFields DEF Claimed
  <2> HIDE DEF R, N, F18, F19
  <2>5. QED  BY <1>18, <2>1, <2>2, <2>3, <2>4, Continues
<1> HIDE DEF p19
<1> DEFINE p20 == p19 \o polyveck_sub(Place("w0"), Place("h"))
<1> DEFINE F20 == {Slot("mat", Canonical), Slot("t0", NttOutput), Slot("s1", NttOutput),
                   Slot("s2", NttOutput), Slot("z", array_abs_bound(GAMMA1 - BETA)),
                   Slot("w0", Reducible), Slot("cp", NttOutput)}
<1>20. Reaches(x, p20, F0, F20)
  <2> DEFINE R == {Slot("w0", BelowQ), Slot("h", BelowQ)}   N == {Slot("w0", Reducible)}
  <2>1. AreSlots(R) /\ AreSlots(N)
    BY SlotFields DEF AreSlots
  <2>2. Fragment(x, polyveck_sub(Place("w0"), Place("h")), AllOf(R), AllOf(N))
    <3>1. AllOf(R) = {All(Place("w0"), BelowQ), All(Place("h"), BelowQ)}
      BY NoSlot, OneSlot, SeveralSlots
    <3>2. AllOf(N) = {All(Place("w0"), Reducible)}
      BY NoSlot, OneSlot, SeveralSlots
    <3>3. Fragment(x, polyveck_sub(Place("w0"), Place("h")),
                   {All(Place("w0"), BelowQ), All(Place("h"), BelowQ)}, {All(Place("w0"), Reducible)})
      BY VectorSubRuns, LengthsAre
    <3>4. QED  BY <3>1, <3>2, <3>3
  <2>3. Covered(R, F19)
    BY SlotFields, BoundsNarrow DEF Covered
  <2>4. Claimed(F20, F19, N)
    BY SlotFields DEF Claimed
  <2> HIDE DEF R, N, F19, F20
  <2>5. QED  BY <1>19, <2>1, <2>2, <2>3, <2>4, Continues
<1> HIDE DEF p20
<1> DEFINE p21 == p20 \o polyveck_reduce(Place("w0"))
<1> DEFINE F21 == {Slot("mat", Canonical), Slot("t0", NttOutput), Slot("s1", NttOutput),
                   Slot("s2", NttOutput), Slot("z", array_abs_bound(GAMMA1 - BETA)),
                   Slot("w0", Reduced), Slot("cp", NttOutput)}
<1>21. Reaches(x, p21, F0, F21)
  <2> DEFINE R == {Slot("w0", Reducible)}   N == {Slot("w0", Reduced)}
  <2>1. AreSlots(R) /\ AreSlots(N)
    BY SlotFields DEF AreSlots
  <2>2. Fragment(x, polyveck_reduce(Place("w0")), AllOf(R), AllOf(N))
    BY InPlaceRuns
  <2>3. Covered(R, F20)
    BY SlotFields, BoundsNarrow DEF Covered
  <2>4. Claimed(F21, F20, N)
    BY SlotFields DEF Claimed
  <2> HIDE DEF R, N, F20, F21
  <2>5. QED  BY <1>20, <2>1, <2>2, <2>3, <2>4, Continues
<1> HIDE DEF p21
<1> DEFINE p22 == p21 \o polyveck_chknorm(Place("w0"), GAMMA2 - BETA)
<1> DEFINE F22 == {Slot("mat", Canonical), Slot("t0", NttOutput), Slot("s1", NttOutput),
                   Slot("s2", NttOutput), Slot("z", array_abs_bound(GAMMA1 - BETA)),
                   Slot("cp", NttOutput)}
<1>22. Reaches(x, p22, F0, F22)
  <2> DEFINE R == {Slot("w0", Reduced)}   N == {}
  <2>1. AreSlots(R) /\ AreSlots(N)
    BY SlotFields DEF AreSlots
  <2>2. Fragment(x, polyveck_chknorm(Place("w0"), GAMMA2 - BETA), AllOf(R), AllOf(N))
    BY OneWayRuns, NormsAre
  <2>3. Covered(R, F21)
    BY SlotFields, BoundsNarrow DEF Covered
  <2>4. Claimed(F22, F21, N)
    BY SlotFields DEF Claimed
  <2> HIDE DEF R, N, F21, F22
  <2>5. QED  BY <1>21, <2>1, <2>2, <2>3, <2>4, Continues
<1> HIDE DEF p22
<1> DEFINE p23 == p22 \o <<Norm(Place("w0"), GAMMA2 - BETA)>>
<1> DEFINE F23 == {Slot("mat", Canonical), Slot("t0", NttOutput), Slot("s1", NttOutput),
                   Slot("s2", NttOutput), Slot("z", array_abs_bound(GAMMA1 - BETA)),
                   Slot("w0", array_abs_bound(GAMMA2 - BETA)), Slot("cp", NttOutput)}
<1>23. Reaches(x, p23, F0, F23)
  <2> DEFINE R == HeadSlots   N == {Slot("w0", array_abs_bound(GAMMA2 - BETA))}
  <2>1. AreSlots(R) /\ AreSlots(N)
    BY SlotFields DEF AreSlots, HeadSlots
  <2>2. Fragment(x, <<Norm(Place("w0"), GAMMA2 - BETA)>>, AllOf(R), AllOf(N))
    BY NormRuns
  <2>3. Covered(R, F22)
    BY SlotFields, BoundsNarrow DEF Covered, HeadSlots
  <2>4. Claimed(F23, F22, N)
    BY SlotFields DEF Claimed
  <2> HIDE DEF R, N, F22, F23
  <2>5. QED  BY <1>22, <2>1, <2>2, <2>3, <2>4, Continues
<1> HIDE DEF p23
<1> DEFINE p24 == p23 \o polyveck_pointwise_poly_montgomery(Place("h"), Poly("cp"), Place("t0"))
<1> DEFINE F24 == {Slot("mat", Canonical), Slot("t0", NttOutput), Slot("s1", NttOutput),
                   Slot("s2", NttOutput), Slot("z", array_abs_bound(GAMMA1 - BETA)),
                   Slot("w0", array_abs_bound(GAMMA2 - BETA)), Slot("h", BelowQ)}
<1>24. Reaches(x, p24, F0, F24)
  <2> DEFINE R == {Slot("cp", NttOutput), Slot("t0", NttOutput)}   N == {Slot("h", BelowQ)}
  <2>1. AreSlots(R) /\ AreSlots(N)
    BY SlotFields DEF AreSlots
  <2>2. Fragment(x, polyveck_pointwise_poly_montgomery(Place("h"), Poly("cp"), Place("t0")), AllOf(R), AllOf(N))
    BY ChallengeProducts, LengthsAre
  <2>3. Covered(R, F23)
    BY SlotFields, BoundsNarrow DEF Covered
  <2>4. Claimed(F24, F23, N)
    BY SlotFields DEF Claimed
  <2> HIDE DEF R, N, F23, F24
  <2>5. QED  BY <1>23, <2>1, <2>2, <2>3, <2>4, Continues
<1> HIDE DEF p24
<1> DEFINE p25 == p24 \o polyveck_invntt_tomont(Place("h"))
<1> DEFINE F25 == {Slot("mat", Canonical), Slot("t0", NttOutput), Slot("s1", NttOutput),
                   Slot("s2", NttOutput), Slot("z", array_abs_bound(GAMMA1 - BETA)),
                   Slot("w0", array_abs_bound(GAMMA2 - BETA)), Slot("h", Intt)}
<1>25. Reaches(x, p25, F0, F25)
  <2> DEFINE R == {Slot("h", BelowQ)}   N == {Slot("h", Intt)}
  <2>1. AreSlots(R) /\ AreSlots(N)
    BY SlotFields DEF AreSlots
  <2>2. Fragment(x, polyveck_invntt_tomont(Place("h")), AllOf(R), AllOf(N))
    BY InPlaceRuns
  <2>3. Covered(R, F24)
    BY SlotFields, BoundsNarrow DEF Covered
  <2>4. Claimed(F25, F24, N)
    BY SlotFields DEF Claimed
  <2> HIDE DEF R, N, F24, F25
  <2>5. QED  BY <1>24, <2>1, <2>2, <2>3, <2>4, Continues
<1> HIDE DEF p25
<1> DEFINE p26 == p25 \o polyveck_reduce(Place("h"))
<1> DEFINE F26 == {Slot("mat", Canonical), Slot("t0", NttOutput), Slot("s1", NttOutput),
                   Slot("s2", NttOutput), Slot("z", array_abs_bound(GAMMA1 - BETA)),
                   Slot("w0", array_abs_bound(GAMMA2 - BETA)), Slot("h", Reduced)}
<1>26. Reaches(x, p26, F0, F26)
  <2> DEFINE R == {Slot("h", Reducible)}   N == {Slot("h", Reduced)}
  <2>1. AreSlots(R) /\ AreSlots(N)
    BY SlotFields DEF AreSlots
  <2>2. Fragment(x, polyveck_reduce(Place("h")), AllOf(R), AllOf(N))
    BY InPlaceRuns
  <2>3. Covered(R, F25)
    BY SlotFields, BoundsNarrow DEF Covered
  <2>4. Claimed(F26, F25, N)
    BY SlotFields DEF Claimed
  <2> HIDE DEF R, N, F25, F26
  <2>5. QED  BY <1>25, <2>1, <2>2, <2>3, <2>4, Continues
<1> HIDE DEF p26
<1> DEFINE p27 == p26 \o polyveck_chknorm(Place("h"), GAMMA2)
<1> DEFINE F27 == {Slot("mat", Canonical), Slot("t0", NttOutput), Slot("s1", NttOutput),
                   Slot("s2", NttOutput), Slot("z", array_abs_bound(GAMMA1 - BETA)),
                   Slot("w0", array_abs_bound(GAMMA2 - BETA))}
<1>27. Reaches(x, p27, F0, F27)
  <2> DEFINE R == {Slot("h", Reduced)}   N == {}
  <2>1. AreSlots(R) /\ AreSlots(N)
    BY SlotFields DEF AreSlots
  <2>2. Fragment(x, polyveck_chknorm(Place("h"), GAMMA2), AllOf(R), AllOf(N))
    BY OneWayRuns, NormsAre
  <2>3. Covered(R, F26)
    BY SlotFields, BoundsNarrow DEF Covered
  <2>4. Claimed(F27, F26, N)
    BY SlotFields DEF Claimed
  <2> HIDE DEF R, N, F26, F27
  <2>5. QED  BY <1>26, <2>1, <2>2, <2>3, <2>4, Continues
<1> HIDE DEF p27
<1> DEFINE p28 == p27 \o <<Norm(Place("h"), GAMMA2)>>
<1> DEFINE F28 == {Slot("mat", Canonical), Slot("t0", NttOutput), Slot("s1", NttOutput),
                   Slot("s2", NttOutput), Slot("z", array_abs_bound(GAMMA1 - BETA)),
                   Slot("w0", array_abs_bound(GAMMA2 - BETA)), Slot("h", array_abs_bound(GAMMA2))}
<1>28. Reaches(x, p28, F0, F28)
  <2> DEFINE R == HeadSlots   N == {Slot("h", array_abs_bound(GAMMA2))}
  <2>1. AreSlots(R) /\ AreSlots(N)
    BY SlotFields DEF AreSlots, HeadSlots
  <2>2. Fragment(x, <<Norm(Place("h"), GAMMA2)>>, AllOf(R), AllOf(N))
    BY NormRuns
  <2>3. Covered(R, F27)
    BY SlotFields, BoundsNarrow DEF Covered, HeadSlots
  <2>4. Claimed(F28, F27, N)
    BY SlotFields DEF Claimed
  <2> HIDE DEF R, N, F27, F28
  <2>5. QED  BY <1>27, <2>1, <2>2, <2>3, <2>4, Continues
<1> HIDE DEF p28
<1> DEFINE p29 == p28 \o polyveck_add(Place("w0"), Place("h"))
<1> DEFINE F29 == {Slot("mat", Canonical), Slot("t0", NttOutput), Slot("s1", NttOutput),
                   Slot("s2", NttOutput), Slot("z", array_abs_bound(GAMMA1 - BETA))}
<1>29. Reaches(x, p29, F0, F29)
  <2> DEFINE R == {Slot("w0", array_abs_bound(GAMMA2 - BETA)), Slot("h", array_abs_bound(GAMMA2))}
  <2> DEFINE N == {Slot("w0", AddInterval(array_abs_bound(GAMMA2 - BETA), array_abs_bound(GAMMA2)))}
  <2>1. AreSlots(R) /\ AreSlots(N)
    BY SlotFields DEF AreSlots
  <2>2. Fragment(x, polyveck_add(Place("w0"), Place("h")), AllOf(R), AllOf(N))
    BY AddLowRuns
  <2>3. Covered(R, F28)
    BY SlotFields, BoundsNarrow DEF Covered
  <2>4. Claimed(F29, F28, N)
    BY SlotFields DEF Claimed
  <2> HIDE DEF R, N, F28, F29
  <2>5. QED  BY <1>28, <2>1, <2>2, <2>3, <2>4, Continues
<1> HIDE DEF p29
<1> DEFINE p30 == p29 \o polyveck_make_hint(Place("h"))
<1> DEFINE F30 == {Slot("mat", Canonical), Slot("t0", NttOutput), Slot("s1", NttOutput),
                   Slot("s2", NttOutput), Slot("z", array_abs_bound(GAMMA1 - BETA)),
                   Slot("h", Bit)}
<1>30. Reaches(x, p30, F0, F30)
  <2> DEFINE R == {}   N == {Slot("h", Bit)}
  <2>1. AreSlots(R) /\ AreSlots(N)
    BY SlotFields DEF AreSlots
  <2>2. Fragment(x, polyveck_make_hint(Place("h")), AllOf(R), AllOf(N))
    BY OneWayRuns
  <2>3. Covered(R, F29)
    BY SlotFields, BoundsNarrow DEF Covered
  <2>4. Claimed(F30, F29, N)
    BY SlotFields DEF Claimed
  <2> HIDE DEF R, N, F29, F30
  <2>5. QED  BY <1>29, <2>1, <2>2, <2>3, <2>4, Continues
<1> HIDE DEF p30
<1> DEFINE p31 == p30 \o <<Decide({}, "head")>>
<1> DEFINE F31 == {Slot("z", array_abs_bound(GAMMA1 - BETA)), Slot("h", Bit)}
<1>31. Reaches(x, p31, F0, F31)
  <2> DEFINE R == HeadSlots   N == {}
  <2>1. AreSlots(R) /\ AreSlots(N)
    BY SlotFields DEF AreSlots, HeadSlots
  <2>2. Fragment(x, <<Decide({}, "head")>>, AllOf(R), AllOf(N))
    BY NormRuns
  <2>3. Covered(R, F30)
    BY SlotFields, BoundsNarrow DEF Covered, HeadSlots
  <2>4. Claimed(F31, F30, N)
    BY SlotFields DEF Claimed
  <2> HIDE DEF R, N, F30, F31
  <2>5. QED  BY <1>30, <2>1, <2>2, <2>3, <2>4, Continues
<1> HIDE DEF p31
<1> DEFINE p32 == p31 \o pack_sig(Place("z"), Place("h"))
<1> DEFINE F32 == {}
<1>32. Reaches(x, p32, F0, F32)
  <2> DEFINE R == {Slot("z", ZBound), Slot("h", Bit)}   N == {Slot("field", Field(20))}
  <2>1. AreSlots(R) /\ AreSlots(N)
    BY SlotFields DEF AreSlots
  <2>2. Fragment(x, pack_sig(Place("z"), Place("h")), AllOf(R), AllOf(N))
    BY PackSigRuns
  <2>3. Covered(R, F31)
    BY SlotFields, BoundsNarrow DEF Covered
  <2>4. Claimed(F32, F31, N)
    BY SlotFields DEF Claimed
  <2> HIDE DEF R, N, F31, F32
  <2>5. QED  BY <1>31, <2>1, <2>2, <2>3, <2>4, Continues
<1> HIDE DEF p32
<1>33. attempt_signature_generation(Place("s1"), Place("s2"), Place("t0"))
         = Function("attempt_signature_generation", Contract(AllOf(HeadSlots), {}), p32)
  <2>1. AllOf(HeadSlots) = {Rows(Matrix, Canonical), All(Place("t0"), NttOutput),
                            All(Place("s1"), NttOutput), All(Place("s2"), NttOutput)}
    BY HeadSlotsAre, RowsOfMatrix
  <2>2. QED
    BY <2>1, PlacesOfVectors DEF attempt_signature_generation, p1, p2, p3, p4, p5, p6, p7, p8, p9, p10, p11, p12, p13, p14, p15, p16, p17, p18, p19, p20, p21, p22, p23, p24, p25, p26, p27, p28, p29, p30, p31, p32
<1>34. HeadSlots = F0
  BY DEF HeadSlots, F0
<1>35. QED  BY <1>32, <1>33, <1>34, HeadSlotsAre, FunctionReaches

(***************************************************************************)
(* Verification.                                                           *)
(***************************************************************************)
LEMMA EndRuns ==
  ASSUME Build, NEW x
  PROVE  /\ Fragment(x, <<Decide({}, "end")>>, AllOf({}), AllOf({}))
         /\ Fragment(x, <<Decide({All(Place("z"), array_abs_bound(GAMMA1 - BETA))}, "end")>>,
                     AllOf({}), AllOf({Slot("z", array_abs_bound(GAMMA1 - BETA))}))
<1>1. -GAMMA1 + BETA + 1 \in Int /\ GAMMA1 - BETA - 1 \in Int
  BY DEF Build
<1>2. Is(array_abs_bound(GAMMA1 - BETA), -GAMMA1 + BETA + 1, GAMMA1 - BETA - 1)
  BY NormsAre
<1> DEFINE none == {}
<1>3. AreSlots(none)
  BY DEF AreSlots
<1> HIDE DEF none
<1>4. /\ Fragment(x, <<Decide({}, "end")>>, AllOf(none), AllOf({}))
      /\ Fragment(x, <<Decide({All(Place("z"), array_abs_bound(GAMMA1 - BETA))}, "end")>>,
                  AllOf(none), AllOf({Slot("z", array_abs_bound(GAMMA1 - BETA))}))
  BY <1>1, <1>2, <1>3, DecideRuns
<1>5. QED  BY <1>4 DEF none

LEMMA VerifyReaches ==
  ASSUME Build, NEW x, Native(x)
  PROVE  \E F : Reaches(x, crypto_sign_verify_internal, {}, F)
<1> DEFINE F0 == {}
<1> DEFINE p1 == unpack_pk(Place("t1"))
<1> DEFINE F1 == {Slot("t1", T1Bound)}
<1>1. Reaches(x, p1, F0, F1)
  <2> DEFINE R == {}   N == {Slot("t1", T1Bound)}
  <2>1. AreSlots(R) /\ AreSlots(N)
    BY SlotFields DEF AreSlots
  <2>2. Fragment(x, unpack_pk(Place("t1")), AllOf(R), AllOf(N))
    BY OneWayRuns
  <2>3. Covered(R, F0)
    BY SlotFields, BoundsNarrow DEF Covered
  <2>4. Claimed(F1, F0, N)
    BY SlotFields DEF Claimed
  <2> HIDE DEF R, N, F0, F1
  <2>5. QED  BY <2>1, <2>2, <2>3, <2>4, FragmentReaches
<1> HIDE DEF p1
<1> DEFINE p2 == p1 \o unpack_sig(Place("z"), Place("h"))
<1> DEFINE F2 == {Slot("t1", T1Bound), Slot("z", ZBound), Slot("h", Bit)}
<1>2. Reaches(x, p2, F0, F2)
  <2> DEFINE R == {}   N == {Slot("z", ZBound), Slot("h", Bit)}
  <2>1. AreSlots(R) /\ AreSlots(N)
    BY SlotFields DEF AreSlots
  <2>2. Fragment(x, unpack_sig(Place("z"), Place("h")), AllOf(R), AllOf(N))
    BY UnpackSigRuns
  <2>3. Covered(R, F1)
    BY SlotFields, BoundsNarrow DEF Covered
  <2>4. Claimed(F2, F1, N)
    BY SlotFields DEF Claimed
  <2> HIDE DEF R, N, F1, F2
  <2>5. QED  BY <1>1, <2>1, <2>2, <2>3, <2>4, Continues
<1> HIDE DEF p2
<1> DEFINE p3 == p2 \o <<Decide({}, "end")>>
<1> DEFINE F3 == {Slot("t1", T1Bound), Slot("z", ZBound), Slot("h", Bit)}
<1>3. Reaches(x, p3, F0, F3)
  <2> DEFINE R == {}   N == {}
  <2>1. AreSlots(R) /\ AreSlots(N)
    BY SlotFields DEF AreSlots
  <2>2. Fragment(x, <<Decide({}, "end")>>, AllOf(R), AllOf(N))
    BY EndRuns
  <2>3. Covered(R, F2)
    BY SlotFields, BoundsNarrow DEF Covered
  <2>4. Claimed(F3, F2, N)
    BY SlotFields DEF Claimed
  <2> HIDE DEF R, N, F2, F3
  <2>5. QED  BY <1>2, <2>1, <2>2, <2>3, <2>4, Continues
<1> HIDE DEF p3
<1> DEFINE p4 == p3 \o polyvecl_chknorm(Place("z"), GAMMA1 - BETA)
<1> DEFINE F4 == {Slot("t1", T1Bound), Slot("h", Bit)}
<1>4. Reaches(x, p4, F0, F4)
  <2> DEFINE R == {Slot("z", Reduced)}   N == {}
  <2>1. AreSlots(R) /\ AreSlots(N)
    BY SlotFields DEF AreSlots
  <2>2. Fragment(x, polyvecl_chknorm(Place("z"), GAMMA1 - BETA), AllOf(R), AllOf(N))
    BY OneWayRuns, NormsAre
  <2>3. Covered(R, F3)
    BY SlotFields, BoundsNarrow DEF Covered
  <2>4. Claimed(F4, F3, N)
    BY SlotFields DEF Claimed
  <2> HIDE DEF R, N, F3, F4
  <2>5. QED  BY <1>3, <2>1, <2>2, <2>3, <2>4, Continues
<1> HIDE DEF p4
<1> DEFINE p5 == p4 \o <<Decide({All(Place("z"), array_abs_bound(GAMMA1 - BETA))}, "end")>>
<1> DEFINE F5 == {Slot("t1", T1Bound), Slot("z", array_abs_bound(GAMMA1 - BETA)), Slot("h", Bit)}
<1>5. Reaches(x, p5, F0, F5)
  <2> DEFINE R == {}   N == {Slot("z", array_abs_bound(GAMMA1 - BETA))}
  <2>1. AreSlots(R) /\ AreSlots(N)
    BY SlotFields DEF AreSlots
  <2>2. Fragment(x, <<Decide({All(Place("z"), array_abs_bound(GAMMA1 - BETA))}, "end")>>, AllOf(R), AllOf(N))
    BY EndRuns
  <2>3. Covered(R, F4)
    BY SlotFields, BoundsNarrow DEF Covered
  <2>4. Claimed(F5, F4, N)
    BY SlotFields DEF Claimed
  <2> HIDE DEF R, N, F4, F5
  <2>5. QED  BY <1>4, <2>1, <2>2, <2>3, <2>4, Continues
<1> HIDE DEF p5
<1> DEFINE p6 == p5 \o poly_challenge(Poly("cp"))
<1> DEFINE F6 == {Slot("t1", T1Bound), Slot("z", array_abs_bound(GAMMA1 - BETA)), Slot("h", Bit),
                  Slot("cp", array_bound(-1, 2))}
<1>6. Reaches(x, p6, F0, F6)
  <2> DEFINE R == {}   N == {Slot("cp", array_bound(-1, 2))}
  <2>1. AreSlots(R) /\ AreSlots(N)
    BY SlotFields DEF AreSlots
  <2>2. Fragment(x, poly_challenge(Poly("cp")), AllOf(R), AllOf(N))
    BY ChallengeSlot
  <2>3. Covered(R, F5)
    BY SlotFields, BoundsNarrow DEF Covered
  <2>4. Claimed(F6, F5, N)
    BY SlotFields DEF Claimed
  <2> HIDE DEF R, N, F5, F6
  <2>5. QED  BY <1>5, <2>1, <2>2, <2>3, <2>4, Continues
<1> HIDE DEF p6
<1> DEFINE p7 == p6 \o polyvec_matrix_expand
<1> DEFINE F7 == {Slot("t1", T1Bound), Slot("z", array_abs_bound(GAMMA1 - BETA)), Slot("h", Bit),
                  Slot("cp", array_bound(-1, 2)), Slot("mat", Canonical)}
<1>7. Reaches(x, p7, F0, F7)
  <2> DEFINE R == {}   N == {Slot("mat", Canonical)}
  <2>1. AreSlots(R) /\ AreSlots(N)
    BY SlotFields DEF AreSlots
  <2>2. Fragment(x, polyvec_matrix_expand, AllOf(R), AllOf(N))
    BY ExpandSlot
  <2>3. Covered(R, F6)
    BY SlotFields, BoundsNarrow DEF Covered
  <2>4. Claimed(F7, F6, N)
    BY SlotFields DEF Claimed
  <2> HIDE DEF R, N, F6, F7
  <2>5. QED  BY <1>6, <2>1, <2>2, <2>3, <2>4, Continues
<1> HIDE DEF p7
<1> DEFINE p8 == p7 \o polyvecl_ntt(Place("z"))
<1> DEFINE F8 == {Slot("t1", T1Bound), Slot("z", NttOutput), Slot("h", Bit),
                  Slot("cp", array_bound(-1, 2)), Slot("mat", Canonical)}
<1>8. Reaches(x, p8, F0, F8)
  <2> DEFINE R == {Slot("z", BelowQ)}   N == {Slot("z", NttOutput)}
  <2>1. AreSlots(R) /\ AreSlots(N)
    BY SlotFields DEF AreSlots
  <2>2. Fragment(x, polyvecl_ntt(Place("z")), AllOf(R), AllOf(N))
    BY InPlaceRuns
  <2>3. Covered(R, F7)
    BY SlotFields, BoundsNarrow DEF Covered
  <2>4. Claimed(F8, F7, N)
    BY SlotFields DEF Claimed
  <2> HIDE DEF R, N, F7, F8
  <2>5. QED  BY <1>7, <2>1, <2>2, <2>3, <2>4, Continues
<1> HIDE DEF p8
<1> DEFINE p9 == p8 \o polyvec_matrix_pointwise_montgomery(Place("w1"), Place("z"))
<1> DEFINE F9 == {Slot("t1", T1Bound), Slot("h", Bit), Slot("cp", array_bound(-1, 2)),
                  Slot("w1", BelowQ)}
<1>9. Reaches(x, p9, F0, F9)
  <2> DEFINE R == {Slot("mat", Canonical), Slot("z", NttOutput)}   N == {Slot("w1", BelowQ)}
  <2>1. AreSlots(R) /\ AreSlots(N)
    BY SlotFields DEF AreSlots
  <2>2. Fragment(x, polyvec_matrix_pointwise_montgomery(Place("w1"), Place("z")), AllOf(R), AllOf(N))
    <3>1. AllOf(R) = {All(Place("mat"), Canonical), All(Place("z"), NttOutput)}
      BY NoSlot, OneSlot, SeveralSlots
    <3>2. AllOf(N) = {All(Place("w1"), BelowQ)}
      BY NoSlot, OneSlot, SeveralSlots
    <3>3. Fragment(x, polyvec_matrix_pointwise_montgomery(Place("w1"), Place("z")),
                   {All(Place("mat"), Canonical), All(Place("z"), NttOutput)}, {All(Place("w1"), BelowQ)})
      BY RowRuns, LengthsAre
    <3>4. QED  BY <3>1, <3>2, <3>3
  <2>3. Covered(R, F8)
    BY SlotFields, BoundsNarrow DEF Covered
  <2>4. Claimed(F9, F8, N)
    BY SlotFields DEF Claimed
  <2> HIDE DEF R, N, F8, F9
  <2>5. QED  BY <1>8, <2>1, <2>2, <2>3, <2>4, Continues
<1> HIDE DEF p9
<1> DEFINE p10 == p9 \o poly_ntt(Poly("cp"))
<1> DEFINE F10 == {Slot("t1", T1Bound), Slot("h", Bit), Slot("cp", NttOutput), Slot("w1", BelowQ)}
<1>10. Reaches(x, p10, F0, F10)
  <2> DEFINE R == {Slot("cp", BelowQ)}   N == {Slot("cp", NttOutput)}
  <2>1. AreSlots(R) /\ AreSlots(N)
    BY SlotFields DEF AreSlots
  <2>2. Fragment(x, poly_ntt(Poly("cp")), AllOf(R), AllOf(N))
    BY ChallengeSlot
  <2>3. Covered(R, F9)
    BY SlotFields, BoundsNarrow DEF Covered
  <2>4. Claimed(F10, F9, N)
    BY SlotFields DEF Claimed
  <2> HIDE DEF R, N, F9, F10
  <2>5. QED  BY <1>9, <2>1, <2>2, <2>3, <2>4, Continues
<1> HIDE DEF p10
<1> DEFINE p11 == p10 \o polyveck_shiftl(Place("t1"))
<1> DEFINE F11 == {Slot("t1", Canonical), Slot("h", Bit), Slot("cp", NttOutput), Slot("w1", BelowQ)}
<1>11. Reaches(x, p11, F0, F11)
  <2> DEFINE R == {Slot("t1", T1Bound)}   N == {Slot("t1", Canonical)}
  <2>1. AreSlots(R) /\ AreSlots(N)
    BY SlotFields DEF AreSlots
  <2>2. Fragment(x, polyveck_shiftl(Place("t1")), AllOf(R), AllOf(N))
    BY InPlaceRuns
  <2>3. Covered(R, F10)
    BY SlotFields, BoundsNarrow DEF Covered
  <2>4. Claimed(F11, F10, N)
    BY SlotFields DEF Claimed
  <2> HIDE DEF R, N, F10, F11
  <2>5. QED  BY <1>10, <2>1, <2>2, <2>3, <2>4, Continues
<1> HIDE DEF p11
<1> DEFINE p12 == p11 \o polyveck_ntt(Place("t1"))
<1> DEFINE F12 == {Slot("t1", NttOutput), Slot("h", Bit), Slot("cp", NttOutput), Slot("w1", BelowQ)}
<1>12. Reaches(x, p12, F0, F12)
  <2> DEFINE R == {Slot("t1", BelowQ)}   N == {Slot("t1", NttOutput)}
  <2>1. AreSlots(R) /\ AreSlots(N)
    BY SlotFields DEF AreSlots
  <2>2. Fragment(x, polyveck_ntt(Place("t1")), AllOf(R), AllOf(N))
    BY InPlaceRuns
  <2>3. Covered(R, F11)
    BY SlotFields, BoundsNarrow DEF Covered
  <2>4. Claimed(F12, F11, N)
    BY SlotFields DEF Claimed
  <2> HIDE DEF R, N, F11, F12
  <2>5. QED  BY <1>11, <2>1, <2>2, <2>3, <2>4, Continues
<1> HIDE DEF p12
<1> DEFINE p13 == p12 \o polyveck_pointwise_poly_montgomery(Place("tmp"), Poly("cp"), Place("t1"))
<1> DEFINE F13 == {Slot("h", Bit), Slot("w1", BelowQ), Slot("tmp", BelowQ)}
<1>13. Reaches(x, p13, F0, F13)
  <2> DEFINE R == {Slot("cp", NttOutput), Slot("t1", NttOutput)}   N == {Slot("tmp", BelowQ)}
  <2>1. AreSlots(R) /\ AreSlots(N)
    BY SlotFields DEF AreSlots
  <2>2. Fragment(x, polyveck_pointwise_poly_montgomery(Place("tmp"), Poly("cp"), Place("t1")), AllOf(R), AllOf(N))
    BY ChallengeProducts, LengthsAre
  <2>3. Covered(R, F12)
    BY SlotFields, BoundsNarrow DEF Covered
  <2>4. Claimed(F13, F12, N)
    BY SlotFields DEF Claimed
  <2> HIDE DEF R, N, F12, F13
  <2>5. QED  BY <1>12, <2>1, <2>2, <2>3, <2>4, Continues
<1> HIDE DEF p13
<1> DEFINE p14 == p13 \o polyveck_sub(Place("w1"), Place("tmp"))
<1> DEFINE F14 == {Slot("h", Bit), Slot("w1", Reducible)}
<1>14. Reaches(x, p14, F0, F14)
  <2> DEFINE R == {Slot("w1", BelowQ), Slot("tmp", BelowQ)}   N == {Slot("w1", Reducible)}
  <2>1. AreSlots(R) /\ AreSlots(N)
    BY SlotFields DEF AreSlots
  <2>2. Fragment(x, polyveck_sub(Place("w1"), Place("tmp")), AllOf(R), AllOf(N))
    <3>1. AllOf(R) = {All(Place("w1"), BelowQ), All(Place("tmp"), BelowQ)}
      BY NoSlot, OneSlot, SeveralSlots
    <3>2. AllOf(N) = {All(Place("w1"), Reducible)}
      BY NoSlot, OneSlot, SeveralSlots
    <3>3. Fragment(x, polyveck_sub(Place("w1"), Place("tmp")),
                   {All(Place("w1"), BelowQ), All(Place("tmp"), BelowQ)}, {All(Place("w1"), Reducible)})
      BY VectorSubRuns, LengthsAre
    <3>4. QED  BY <3>1, <3>2, <3>3
  <2>3. Covered(R, F13)
    BY SlotFields, BoundsNarrow DEF Covered
  <2>4. Claimed(F14, F13, N)
    BY SlotFields DEF Claimed
  <2> HIDE DEF R, N, F13, F14
  <2>5. QED  BY <1>13, <2>1, <2>2, <2>3, <2>4, Continues
<1> HIDE DEF p14
<1> DEFINE p15 == p14 \o polyveck_reduce(Place("w1"))
<1> DEFINE F15 == {Slot("h", Bit), Slot("w1", Reduced)}
<1>15. Reaches(x, p15, F0, F15)
  <2> DEFINE R == {Slot("w1", Reducible)}   N == {Slot("w1", Reduced)}
  <2>1. AreSlots(R) /\ AreSlots(N)
    BY SlotFields DEF AreSlots
  <2>2. Fragment(x, polyveck_reduce(Place("w1")), AllOf(R), AllOf(N))
    BY InPlaceRuns
  <2>3. Covered(R, F14)
    BY SlotFields, BoundsNarrow DEF Covered
  <2>4. Claimed(F15, F14, N)
    BY SlotFields DEF Claimed
  <2> HIDE DEF R, N, F14, F15
  <2>5. QED  BY <1>14, <2>1, <2>2, <2>3, <2>4, Continues
<1> HIDE DEF p15
<1> DEFINE p16 == p15 \o polyveck_invntt_tomont(Place("w1"))
<1> DEFINE F16 == {Slot("h", Bit), Slot("w1", Intt)}
<1>16. Reaches(x, p16, F0, F16)
  <2> DEFINE R == {Slot("w1", BelowQ)}   N == {Slot("w1", Intt)}
  <2>1. AreSlots(R) /\ AreSlots(N)
    BY SlotFields DEF AreSlots
  <2>2. Fragment(x, polyveck_invntt_tomont(Place("w1")), AllOf(R), AllOf(N))
    BY InPlaceRuns
  <2>3. Covered(R, F15)
    BY SlotFields, BoundsNarrow DEF Covered
  <2>4. Claimed(F16, F15, N)
    BY SlotFields DEF Claimed
  <2> HIDE DEF R, N, F15, F16
  <2>5. QED  BY <1>15, <2>1, <2>2, <2>3, <2>4, Continues
<1> HIDE DEF p16
<1> DEFINE p17 == p16 \o polyveck_caddq(Place("w1"))
<1> DEFINE F17 == {Slot("h", Bit), Slot("w1", Canonical)}
<1>17. Reaches(x, p17, F0, F17)
  <2> DEFINE R == {Slot("w1", BelowQ)}   N == {Slot("w1", Canonical)}
  <2>1. AreSlots(R) /\ AreSlots(N)
    BY SlotFields DEF AreSlots
  <2>2. Fragment(x, polyveck_caddq(Place("w1")), AllOf(R), AllOf(N))
    BY InPlaceRuns
  <2>3. Covered(R, F16)
    BY SlotFields, BoundsNarrow DEF Covered
  <2>4. Claimed(F17, F16, N)
    BY SlotFields DEF Claimed
  <2> HIDE DEF R, N, F16, F17
  <2>5. QED  BY <1>16, <2>1, <2>2, <2>3, <2>4, Continues
<1> HIDE DEF p17
<1> DEFINE p18 == p17 \o polyveck_use_hint(Place("tmp"), Place("w1"), Place("h"))
<1> DEFINE F18 == {Slot("tmp", HighBits)}
<1>18. Reaches(x, p18, F0, F18)
  <2> DEFINE R == {Slot("w1", Canonical), Slot("h", Bit)}   N == {Slot("tmp", HighBits)}
  <2>1. AreSlots(R) /\ AreSlots(N)
    BY SlotFields DEF AreSlots
  <2>2. Fragment(x, polyveck_use_hint(Place("tmp"), Place("w1"), Place("h")), AllOf(R), AllOf(N))
    <3>1. AllOf(R) = {All(Place("w1"), Canonical), All(Place("h"), Bit)}
      BY NoSlot, OneSlot, SeveralSlots
    <3>2. AllOf(N) = {All(Place("tmp"), HighBits)}
      BY NoSlot, OneSlot, SeveralSlots
    <3>3. Fragment(x, polyveck_use_hint(Place("tmp"), Place("w1"), Place("h")),
                   {All(Place("w1"), Canonical), All(Place("h"), Bit)}, {All(Place("tmp"), HighBits)})
      BY VectorUseHintRuns, LengthsAre
    <3>4. QED  BY <3>1, <3>2, <3>3
  <2>3. Covered(R, F17)
    BY SlotFields, BoundsNarrow DEF Covered
  <2>4. Claimed(F18, F17, N)
    BY SlotFields DEF Claimed
  <2> HIDE DEF R, N, F17, F18
  <2>5. QED  BY <1>17, <2>1, <2>2, <2>3, <2>4, Continues
<1> HIDE DEF p18
<1> DEFINE p19 == p18 \o polyveck_pack_w1(Place("tmp"))
<1> DEFINE F19 == {}
<1>19. Reaches(x, p19, F0, F19)
  <2> DEFINE R == {Slot("tmp", HighBits)}   N == {}
  <2>1. AreSlots(R) /\ AreSlots(N)
    BY SlotFields DEF AreSlots
  <2>2. Fragment(x, polyveck_pack_w1(Place("tmp")), AllOf(R), AllOf(N))
    BY OneWayRuns
  <2>3. Covered(R, F18)
    BY SlotFields, BoundsNarrow DEF Covered
  <2>4. Claimed(F19, F18, N)
    BY SlotFields DEF Claimed
  <2> HIDE DEF R, N, F18, F19
  <2>5. QED  BY <1>18, <2>1, <2>2, <2>3, <2>4, Continues
<1> HIDE DEF p19
<1>20. crypto_sign_verify_internal = p19
  BY PlacesOfVectors DEF crypto_sign_verify_internal, p1, p2, p3, p4, p5, p6, p7, p8, p9, p10, p11, p12, p13, p14, p15, p16, p17, p18, p19
<1>21. QED  BY <1>19, <1>20

-------------------------------------------------------------------------------
(***************************************************************************)
(* The invariant: from where the program is, with the intervals it has,    *)
(* every step to the end is safe; and so it is from the head of the        *)
(* rejection loop with any memory that a rejection may go back with.       *)
(***************************************************************************)
Ahead(x, prog, i, v) ==
  \E tr \in [i .. Len(prog) + 1 -> Memories(x)] :
    /\ tr[i] = v
    /\ \A j \in i .. Len(prog) : Safe(x, prog[j], tr[j]) /\ tr[j + 1] = After(prog[j], tr[j])

Sound(x, prog) ==
  /\ IsSeq(prog)
  /\ x.head # {} => \E i \in 1 .. Len(prog) : prog[i].kind = "head"
  /\ \A i \in 1 .. Len(prog) :
       prog[i].kind = "head" => \A v \in x.head : Ahead(x, prog, i, v)

FlowInvariant ==
  \E x, prog :
    /\ prog = program /\ Native(x) /\ Sound(x, prog)
    /\ pc \in 1 .. Len(prog) + 1
    /\ Ahead(x, prog, pc, val)

LEMMA LenIsNat ==
  ASSUME NEW prog, IsSeq(prog)
  PROVE  Len(prog) \in Nat /\ DOMAIN prog = 1 .. Len(prog)
<1>1. PICK S : prog \in Seq(S)
  BY DEF IsSeq
<1>2. QED  BY <1>1

LEMMA AheadStep ==
  ASSUME NEW x, NEW prog, IsSeq(prog), NEW i \in 1 .. Len(prog), NEW v, Ahead(x, prog, i, v)
  PROVE  Safe(x, prog[i], v) /\ Ahead(x, prog, i + 1, After(prog[i], v))
<1>1. Len(prog) \in Nat
  BY LenIsNat
<1>2. PICK tr \in [i .. Len(prog) + 1 -> Memories(x)] :
        /\ tr[i] = v
        /\ \A j \in i .. Len(prog) : Safe(x, prog[j], tr[j]) /\ tr[j + 1] = After(prog[j], tr[j])
  BY DEF Ahead
<1> DEFINE rest == [j \in i + 1 .. Len(prog) + 1 |-> tr[j]]
<1>3. rest \in [i + 1 .. Len(prog) + 1 -> Memories(x)]
  BY <1>1
<1>4. \A j \in i + 1 .. Len(prog) + 1 : rest[j] = tr[j]
  OBVIOUS
<1> HIDE DEF rest
<1>5. Safe(x, prog[i], tr[i]) /\ tr[i + 1] = After(prog[i], tr[i])
  BY <1>1, <1>2
<1>6. rest[i + 1] = After(prog[i], v)
  BY <1>1, <1>2, <1>4, <1>5
<1>7. ASSUME NEW j \in i + 1 .. Len(prog)
      PROVE  Safe(x, prog[j], rest[j]) /\ rest[j + 1] = After(prog[j], rest[j])
  <2>1. j \in i .. Len(prog) /\ j \in i + 1 .. Len(prog) + 1 /\ j + 1 \in i + 1 .. Len(prog) + 1
    BY <1>1
  <2>2. Safe(x, prog[j], tr[j]) /\ tr[j + 1] = After(prog[j], tr[j])
    BY <1>2, <2>1
  <2>3. QED  BY <1>4, <2>1, <2>2
<1>8. QED  BY <1>2, <1>3, <1>5, <1>6, <1>7 DEF Ahead

LEMMA RunsAhead ==
  ASSUME NEW x, NEW p, NEW prog, IsSeq(p), IsSeq(prog), Len(p) <= Len(prog),
         \A i \in 1 .. Len(p) : prog[i] = p[i],
         NEW v, NEW w, Runs(x, p, v, w), Ahead(x, prog, Len(p) + 1, w)
  PROVE  Ahead(x, prog, 1, v)
<1>1. Len(p) \in Nat /\ Len(prog) \in Nat
  BY LenIsNat
<1>2. PICK tr \in Traces(x, p) : Trace(x, p, tr) /\ tr[1] = v /\ tr[Len(p) + 1] = w
  BY DEF Runs
<1>3. PICK rest \in [Len(p) + 1 .. Len(prog) + 1 -> Memories(x)] :
        /\ rest[Len(p) + 1] = w
        /\ \A j \in Len(p) + 1 .. Len(prog) :
             Safe(x, prog[j], rest[j]) /\ rest[j + 1] = After(prog[j], rest[j])
  BY DEF Ahead
<1>4. /\ tr \in [1 .. Len(p) + 1 -> Memories(x)]
      /\ \A i \in 1 .. Len(p) : Safe(x, p[i], tr[i]) /\ tr[i + 1] = After(p[i], tr[i])
  BY <1>2 DEF Traces, Trace
<1> DEFINE all == [j \in 1 .. Len(prog) + 1 |-> IF j <= Len(p) THEN tr[j] ELSE rest[j]]
<1>5. all \in [1 .. Len(prog) + 1 -> Memories(x)]
  <2>1. ASSUME NEW j \in 1 .. Len(prog) + 1
        PROVE  (IF j <= Len(p) THEN tr[j] ELSE rest[j]) \in Memories(x)
    <3>1. CASE j <= Len(p)
      BY <1>1, <1>4, <3>1
    <3>2. CASE ~(j <= Len(p))
      BY <1>1, <1>3, <3>2
    <3>3. QED  BY <3>1, <3>2
  <2>2. QED  BY <2>1
<1>6. \A j \in 1 .. Len(prog) + 1 : all[j] = IF j <= Len(p) THEN tr[j] ELSE rest[j]
  OBVIOUS
<1> HIDE DEF all
<1>7. \A j \in 1 .. Len(p) + 1 : all[j] = tr[j]
  BY <1>1, <1>2, <1>3, <1>6
<1>8. \A j \in Len(p) + 1 .. Len(prog) + 1 : all[j] = rest[j]
  BY <1>1, <1>6
<1>9. all[1] = v
  BY <1>1, <1>2, <1>7
<1>10. ASSUME NEW j \in 1 .. Len(prog)
       PROVE  Safe(x, prog[j], all[j]) /\ all[j + 1] = After(prog[j], all[j])
  <2>1. CASE j <= Len(p)
    <3>1. j \in 1 .. Len(p) /\ j \in 1 .. Len(p) + 1 /\ j + 1 \in 1 .. Len(p) + 1
      BY <1>1, <2>1
    <3>2. prog[j] = p[j] /\ Safe(x, p[j], tr[j]) /\ tr[j + 1] = After(p[j], tr[j])
      BY <1>4, <3>1
    <3>3. QED  BY <1>7, <3>1, <3>2
  <2>2. CASE ~(j <= Len(p))
    <3>1. /\ j \in Len(p) + 1 .. Len(prog) /\ j \in Len(p) + 1 .. Len(prog) + 1
          /\ j + 1 \in Len(p) + 1 .. Len(prog) + 1
      BY <1>1, <2>2
    <3>2. Safe(x, prog[j], rest[j]) /\ rest[j + 1] = After(prog[j], rest[j])
      BY <1>3, <3>1
    <3>3. QED  BY <1>8, <3>1, <3>2
  <2>3. QED  BY <2>1, <2>2
<1>11. QED  BY <1>5, <1>9, <1>10 DEF Ahead

\* What comes behind the first i steps of a program.
LEMMA TailAhead ==
  ASSUME NEW x, NEW p, NEW q, IsSeq(p), IsSeq(q), NEW v, NEW w, Runs(x, q, v, w)
  PROVE  Ahead(x, p \o q, Len(p) + 1, v)
<1>1. /\ Len(p) \in Nat /\ Len(q) \in Nat /\ Len(p \o q) = Len(p) + Len(q)
      /\ \A i \in 1 .. Len(q) : (p \o q)[Len(p) + i] = q[i]
  BY Concat
<1>2. PICK tr \in Traces(x, q) : Trace(x, q, tr) /\ tr[1] = v /\ tr[Len(q) + 1] = w
  BY DEF Runs
<1>3. /\ tr \in [1 .. Len(q) + 1 -> Memories(x)]
      /\ \A i \in 1 .. Len(q) : Safe(x, q[i], tr[i]) /\ tr[i + 1] = After(q[i], tr[i])
  BY <1>2 DEF Traces, Trace
<1> DEFINE n == Len(p)   m == Len(q)   prog == p \o q
<1>4. n \in Nat /\ m \in Nat /\ Len(prog) = n + m /\ \A i \in 1 .. m : prog[n + i] = q[i]
  BY <1>1
<1>5. /\ tr \in [1 .. m + 1 -> Memories(x)]
      /\ \A i \in 1 .. m : Safe(x, q[i], tr[i]) /\ tr[i + 1] = After(q[i], tr[i])
  BY <1>3
<1> HIDE DEF n, m, prog
<1> DEFINE late == [j \in n + 1 .. n + m + 1 |-> tr[j - n]]
<1>6. late \in [n + 1 .. n + m + 1 -> Memories(x)]
  <2>1. \A j \in n + 1 .. n + m + 1 : tr[j - n] \in Memories(x)
    BY <1>4, <1>5
  <2>2. QED  BY <2>1
<1>7. \A j \in n + 1 .. n + m + 1 : late[j] = tr[j - n]
  OBVIOUS
<1> HIDE DEF late
<1>8. late[n + 1] = v
  BY <1>2, <1>4, <1>7
<1>9. ASSUME NEW j \in n + 1 .. n + m
      PROVE  Safe(x, prog[j], late[j]) /\ late[j + 1] = After(prog[j], late[j])
  <2> DEFINE i == j - n
  <2>1. /\ i \in 1 .. m /\ n + i = j /\ j - n = i /\ (j + 1) - n = i + 1
        /\ j \in n + 1 .. n + m + 1 /\ j + 1 \in n + 1 .. n + m + 1
    BY <1>4
  <2>2. prog[j] = q[i] /\ Safe(x, q[i], tr[i]) /\ tr[i + 1] = After(q[i], tr[i])
    BY <1>4, <1>5, <2>1
  <2> HIDE DEF i
  <2>3. late[j] = tr[j - n] /\ late[j + 1] = tr[(j + 1) - n]
    BY <1>7, <2>1
  <2>4. QED  BY <2>1, <2>2, <2>3
<1>10. Ahead(x, prog, n + 1, v)
  BY <1>4, <1>6, <1>8, <1>9 DEF Ahead
<1>11. QED  BY <1>10 DEF prog, n

LEMMA HeadAhead ==
  ASSUME NEW x, NEW prog, IsSeq(prog), NEW i \in 1 .. Len(prog), prog[i] = [kind |-> "head"],
         NEW v \in Memories(x), Ahead(x, prog, i + 1, v)
  PROVE  Ahead(x, prog, i, v)
<1>1. Len(prog) \in Nat
  BY LenIsNat
<1>2. PICK rest \in [i + 1 .. Len(prog) + 1 -> Memories(x)] :
        /\ rest[i + 1] = v
        /\ \A j \in i + 1 .. Len(prog) :
             Safe(x, prog[j], rest[j]) /\ rest[j + 1] = After(prog[j], rest[j])
  BY DEF Ahead
<1>3. Safe(x, prog[i], v) /\ After(prog[i], v) = v
  BY DEF Safe, After
<1> DEFINE all == [j \in i .. Len(prog) + 1 |-> IF j = i THEN v ELSE rest[j]]
<1>4. all \in [i .. Len(prog) + 1 -> Memories(x)]
  <2>1. ASSUME NEW j \in i .. Len(prog) + 1 PROVE (IF j = i THEN v ELSE rest[j]) \in Memories(x)
    <3>1. CASE j = i
      BY <3>1
    <3>2. CASE j # i
      BY <1>1, <1>2, <3>2
    <3>3. QED  BY <3>1, <3>2
  <2>2. QED  BY <2>1
<1>5. all[i] = v /\ \A j \in i + 1 .. Len(prog) + 1 : all[j] = rest[j]
  BY <1>1
<1> HIDE DEF all
<1>6. ASSUME NEW j \in i .. Len(prog)
      PROVE  Safe(x, prog[j], all[j]) /\ all[j + 1] = After(prog[j], all[j])
  <2>1. CASE j = i
    <3>1. all[i + 1] = rest[i + 1]
      BY <1>1, <1>5
    <3>2. QED  BY <1>2, <1>3, <1>5, <2>1, <3>1
  <2>2. CASE j # i
    <3>1. /\ j \in i + 1 .. Len(prog) /\ j \in i + 1 .. Len(prog) + 1
          /\ j + 1 \in i + 1 .. Len(prog) + 1
      BY <1>1, <2>2
    <3>2. QED  BY <1>2, <1>5, <3>1
  <2>3. QED  BY <2>1, <2>2
<1>7. QED  BY <1>4, <1>5, <1>6 DEF Ahead

-------------------------------------------------------------------------------
(***************************************************************************)
(* The three programs start soundly.                                       *)
(***************************************************************************)
Straight(P, nat) == [polys |-> P, native |-> nat, head |-> {}]

Looping(P, nat, ES) ==
  [polys |-> P, native |-> nat, head |-> {v \in [P -> Intervals] : \A q \in ES : Has(v, q)}]

LEMMA FrameFields ==
  /\ \A P, nat : /\ Straight(P, nat).polys = P /\ Straight(P, nat).native = nat
                 /\ Straight(P, nat).head = {}
  /\ \A P, nat, ES : /\ Looping(P, nat, ES).polys = P /\ Looping(P, nat, ES).native = nat
                     /\ Looping(P, nat, ES).head = Full(Looping(P, nat, ES), ES)
<1>1. \A P, nat : /\ Straight(P, nat).polys = P /\ Straight(P, nat).native = nat
                 /\ Straight(P, nat).head = {}
  BY DEF Straight
<1>2. \A P, nat, ES : Looping(P, nat, ES).polys = P /\ Looping(P, nat, ES).native = nat
  BY DEF Looping
<1>3. ASSUME NEW P, NEW nat, NEW ES
      PROVE  Looping(P, nat, ES).head = Full(Looping(P, nat, ES), ES)
  <2> DEFINE y == Looping(P, nat, ES)
  <2>1. y.polys = P /\ y.head = {v \in [P -> Intervals] : \A q \in ES : Has(v, q)}
    BY DEF Looping
  <2> HIDE DEF y
  <2>2. y.head = Full(y, ES)
    BY <2>1 DEF Full, Memories
  <2>3. QED  BY <2>2 DEF y
<1>4. QED  BY <1>1, <1>2, <1>3

LEMMA StraightStarts ==
  ASSUME NEW x, NEW prog, NEW F, Reaches(x, prog, {}, F), Uses(x, prog), x.head = {},
         NEW v \in Memories(x)
  PROVE  Sound(x, prog) /\ Ahead(x, prog, 1, v)
<1>1. IsSeq(prog) /\ v \in Full(x, {})
  BY DEF Reaches, Full
<1>2. PICK w \in Full(x, F) : Runs(x, prog, v, w)
  BY <1>1 DEF Reaches, Does
<1>3. PICK tr \in Traces(x, prog) : Trace(x, prog, tr) /\ tr[1] = v
  BY <1>2 DEF Runs
<1>4. Ahead(x, prog, 1, v)
  BY <1>3 DEF Ahead, Traces, Trace
<1>5. QED  BY <1>1, <1>4 DEF Sound

LEMMA LoopStarts ==
  ASSUME NEW x, NEW pre, NEW att, NEW ES, NEW F, Reaches(x, pre, {}, ES), Reaches(x, att, ES, F),
         Uses(x, pre \o <<[kind |-> "head"]>> \o att), x.head = Full(x, ES),
         NEW v \in Memories(x)
  PROVE  LET prog == pre \o <<[kind |-> "head"]>> \o att
         IN  Sound(x, prog) /\ Ahead(x, prog, 1, v)
<1> DEFINE hd == [kind |-> "head"]   first == pre \o <<hd>>   prog == first \o att
<1>1. IsSeq(pre) /\ IsSeq(att) /\ v \in Full(x, {}) /\ Full(x, ES) \subseteq Memories(x)
  BY DEF Reaches, Full
<1>2. IsSeq(<<hd>>) /\ Len(<<hd>>) = 1 /\ <<hd>>[1] = hd
  <2>1. <<hd>> \in Seq({hd})
    OBVIOUS
  <2>2. QED  BY <2>1 DEF IsSeq
<1>3. /\ IsSeq(first) /\ Len(pre) \in Nat /\ Len(first) = Len(pre) + Len(<<hd>>)
      /\ \A i \in 1 .. Len(pre) : first[i] = pre[i]
      /\ \A i \in 1 .. Len(<<hd>>) : first[Len(pre) + i] = <<hd>>[i]
  BY <1>1, <1>2, Concat
<1> HIDE DEF hd, first
<1>4. /\ IsSeq(prog) /\ Len(first) \in Nat /\ Len(att) \in Nat /\ Len(prog) = Len(first) + Len(att)
      /\ \A i \in 1 .. Len(first) : prog[i] = first[i]
      /\ \A i \in 1 .. Len(att) : prog[Len(first) + i] = att[i]
  BY <1>1, <1>3, Concat
<1>5. Uses(x, pre) /\ Uses(x, att)
  <2>1. Uses(x, first) /\ Uses(x, att)
    BY <1>1, <1>3, UsesConcat DEF first, hd
  <2>2. QED  BY <1>1, <1>2, <2>1, UsesConcat DEF first
<1> HIDE DEF prog
<1> DEFINE n == Len(pre)
<1>6. /\ n \in Nat /\ Len(first) = n + 1 /\ n + 1 \in 1 .. Len(prog) /\ prog[n + 1] = hd
      /\ \A i \in 1 .. n : prog[i] = pre[i]
  <2>1. Len(first) = n + 1 /\ first[n + 1] = hd
    BY <1>2, <1>3
  <2>2. QED  BY <1>3, <1>4, <2>1
<1>7. ASSUME NEW u \in Full(x, ES) PROVE Ahead(x, prog, n + 1, u)
  <2>1. PICK w \in Full(x, F) : Runs(x, att, u, w)
    BY <1>5 DEF Reaches, Does
  <2>2. Ahead(x, prog, Len(first) + 1, u)
    BY <1>1, <1>3, <2>1, TailAhead DEF prog
  <2>3. u \in Memories(x)
    BY <1>1
  <2>4. QED  BY <1>4, <1>6, <2>2, <2>3, HeadAhead DEF hd
<1>8. Ahead(x, prog, 1, v)
  <2>1. PICK w \in Full(x, ES) : Runs(x, pre, v, w)
    BY <1>1, <1>5 DEF Reaches, Does
  <2>2. Ahead(x, prog, n + 1, w)
    BY <1>7
  <2>3. QED  BY <1>1, <1>4, <1>6, <2>1, <2>2, RunsAhead
<1>9. \A i \in 1 .. Len(prog) : prog[i].kind = "head" => \A u \in x.head : Ahead(x, prog, i, u)
  <2>1. SUFFICES ASSUME NEW i \in 1 .. Len(prog), prog[i].kind = "head", NEW u \in x.head
                 PROVE  Ahead(x, prog, i, u)
    OBVIOUS
  <2>2. PICK w \in Full(x, F) : Runs(x, att, u, w)
    BY <1>5 DEF Reaches, Does
  <2>3. PICK ta \in Traces(x, att) : Trace(x, att, ta)
    BY <2>2 DEF Runs
  <2>4. \A k \in 1 .. Len(att) : att[k].kind # "head"
    BY <2>3 DEF Trace
  <2>5. CASE i <= n
    <3>1. PICK y \in Full(x, ES) : Runs(x, pre, v, y)
      BY <1>1, <1>5 DEF Reaches, Does
    <3>2. PICK tp \in Traces(x, pre) : Trace(x, pre, tp)
      BY <3>1 DEF Runs
    <3>3. i \in 1 .. n /\ prog[i] = pre[i]
      BY <1>6, <2>5
    <3>4. QED  BY <2>1, <3>2, <3>3 DEF Trace
  <2>6. CASE i = n + 1
    BY <1>7, <2>6
  <2>7. CASE i > n + 1
    <3>1. i - (n + 1) \in 1 .. Len(att) /\ (n + 1) + (i - (n + 1)) = i
      BY <1>4, <1>6, <2>7
    <3>2. prog[i] = att[i - (n + 1)]
      BY <1>4, <1>6, <3>1
    <3>3. QED  BY <2>1, <2>4, <3>1, <3>2
  <2>8. QED  BY <1>6, <2>5, <2>6, <2>7
<1>10. \E i \in 1 .. Len(prog) : prog[i].kind = "head"
  BY <1>6 DEF hd
<1>11. Sound(x, prog) /\ Ahead(x, prog, 1, v)
  BY <1>4, <1>8, <1>9, <1>10 DEF Sound
<1>12. QED  BY <1>11 DEF prog, first, hd

LEMMA InitFlow == Init => FlowInvariant
<1> SUFFICES ASSUME Init PROVE FlowInvariant
  OBVIOUS
<1>1. /\ par \in Params /\ flow \in Flows /\ program = ProgramOf(flow) /\ pc = 1
      /\ val = [p \in Memory |-> AnyInt32]
  BY DEF Init
<1>2. Build
  BY <1>1, BuildHolds
<1>3. AnyInt32 \in Intervals
  BY SMT DEF AnyInt32, Interval, Intervals, INT32_MIN, INT32_MAX
<1>4. ASSUME NEW x, x.polys = Memory PROVE val \in Memories(x)
  BY <1>1, <1>3, <1>4 DEF Memories
<1>5. ASSUME NEW x, x.polys = Memory, IsSeq(program) PROVE Uses(x, program)
  <2>1. DOMAIN program = 1 .. Len(program)
    BY <1>5, LenIsNat
  <2>2. \A i \in DOMAIN program : Polys(program[i]) \subseteq Memory
    BY DEF Memory
  <2>3. QED  BY <1>5, <2>1, <2>2 DEF Uses
<1>6. SUFFICES \E x : Native(x) /\ Sound(x, program) /\ Ahead(x, program, 1, val)
  <2>1. PICK x : Native(x) /\ Sound(x, program) /\ Ahead(x, program, 1, val)
    BY <1>6
  <2>2. Len(program) \in Nat
    BY <2>1, LenIsNat DEF Sound
  <2>3. 1 \in 1 .. Len(program) + 1
    BY <2>2
  <2>4. QED  BY <1>1, <2>1, <2>3 DEF FlowInvariant
<1>7. CASE flow \in {"keypair", "verify"}
  <2> DEFINE x == Straight(Memory, par.backend # "c")
  <2>1. x.polys = Memory /\ x.native = (par.backend # "c") /\ x.head = {}
    BY FrameFields
  <2> HIDE DEF x
  <2>2. Native(x)
    BY <2>1 DEF Native
  <2>3. \E F : Reaches(x, program, {}, F)
    <3>1. CASE flow = "keypair"
      <4>1. program = crypto_sign_keypair_internal
        BY <1>1, <3>1 DEF ProgramOf
      <4>2. QED  BY <1>2, <2>2, <4>1, KeypairReaches
    <3>2. CASE flow = "verify"
      <4>1. program = crypto_sign_verify_internal
        BY <1>1, <3>2 DEF ProgramOf
      <4>2. QED  BY <1>2, <2>2, <4>1, VerifyReaches
    <3>3. QED  BY <1>7, <3>1, <3>2
  <2>4. PICK F : Reaches(x, program, {}, F)
    BY <2>3
  <2>5. Uses(x, program) /\ val \in Memories(x)
    BY <1>4, <1>5, <2>1, <2>4 DEF Reaches
  <2>6. Sound(x, program) /\ Ahead(x, program, 1, val)
    BY <2>1, <2>4, <2>5, StraightStarts
  <2>7. QED  BY <2>2, <2>6
<1>8. CASE flow = "sign"
  <2> DEFINE pre == unpack_sk(Place("t0"), Place("s1"), Place("s2")) \o polyvec_matrix_expand
                      \o polyvecl_ntt(Place("s1")) \o polyveck_ntt(Place("s2"))
                      \o polyveck_ntt(Place("t0"))
             att == attempt_signature_generation(Place("s1"), Place("s2"), Place("t0"))
  <2> DEFINE x == Looping(Memory, par.backend # "c", HeadSlots)
  <2>1. x.polys = Memory /\ x.native = (par.backend # "c") /\ x.head = Full(x, HeadSlots)
    BY FrameFields
  <2> HIDE DEF x
  <2>2. Native(x)
    BY <2>1 DEF Native
  <2>3. program = pre \o <<[kind |-> "head"]>> \o att
    <3>1. program = crypto_sign_signature_internal
      BY <1>1, <1>8 DEF ProgramOf
    <3>2. QED  BY <3>1, PlacesOfVectors DEF crypto_sign_signature_internal
  <2>4. Reaches(x, pre, {}, HeadSlots)
    BY <1>2, <2>2, SigningStarts
  <2>5. \E F : Reaches(x, att, HeadSlots, F)
    BY <1>2, <2>1, <2>2, AttemptReaches
  <2> HIDE DEF pre, att
  <2>6. PICK F : Reaches(x, att, HeadSlots, F)
    BY <2>5
  <2>7. IsSeq(program)
    <3>1. <<[kind |-> "head"]>> \in Seq({[kind |-> "head"]})
      OBVIOUS
    <3>2. IsSeq(pre) /\ IsSeq(att) /\ IsSeq(<<[kind |-> "head"]>>)
      BY <2>4, <2>6, <3>1 DEF Reaches, IsSeq
    <3>3. IsSeq(pre \o <<[kind |-> "head"]>>)
      BY <3>2, Concat
    <3>4. QED  BY <2>3, <3>2, <3>3, Concat
  <2>8. Uses(x, program) /\ val \in Memories(x)
    BY <1>4, <1>5, <2>1, <2>7
  <2>9. Sound(x, program) /\ Ahead(x, program, 1, val)
    BY <2>1, <2>3, <2>4, <2>6, <2>8, LoopStarts
  <2>10. QED  BY <2>2, <2>9
<1>9. QED  BY <1>1, <1>7, <1>8 DEF Flows

-------------------------------------------------------------------------------
(***************************************************************************)
(* Every action does what After says, or goes back to the head, or past    *)
(* the end.                                                                *)
(***************************************************************************)
Works ==
  \/ Fill \/ Copy \/ Reduce \/ CondAddQ \/ Add \/ Sub \/ Shiftl \/ Ntt
  \/ PointwiseMontgomery \/ Accumulate \/ Power2Round \/ PackMirrored

LEMMA WorkFollows ==
  ASSUME Works
  PROVE  /\ pc <= Len(program) /\ pc' = pc + 1 /\ UNCHANGED <<par, flow, program>>
         /\ val' = After(program[pc], val)
<1>1. ASSUME NEW r, AtStep("work"), Write(r), r = Result(Step, val)
      PROVE  /\ pc <= Len(program) /\ pc' = pc + 1 /\ UNCHANGED <<par, flow, program>>
             /\ val' = After(program[pc], val)
  BY <1>1 DEF AtStep, Write, Next1, After, Step
<1>2. CASE Fill
  BY <1>1, <1>2 DEF Fill, Doing, Result
<1>3. CASE Copy
  BY <1>1, <1>3 DEF Copy, Doing, Result, Operand
<1>4. CASE Reduce
  BY <1>1, <1>4 DEF Reduce, Doing, Result, Operand
<1>5. CASE CondAddQ
  BY <1>1, <1>5 DEF CondAddQ, Doing, Result, Operand
<1>6. CASE Add
  BY <1>1, <1>6 DEF Add, Doing, Result, Operand
<1>7. CASE Sub
  BY <1>1, <1>7 DEF Sub, Doing, Result, Operand
<1>8. CASE Shiftl
  BY <1>1, <1>8 DEF Shiftl, Doing, Result, Operand
<1>9. CASE Ntt
  BY <1>1, <1>9 DEF Ntt, Doing, Result, Operand
<1>10. CASE PointwiseMontgomery
  BY <1>1, <1>10 DEF PointwiseMontgomery, Doing, Result, Operand
<1>11. CASE Accumulate
  BY <1>1, <1>11 DEF Accumulate, Doing, Result, Operand
<1>12. CASE Power2Round
  BY <1>1, <1>12 DEF Power2Round, Doing, Result, Operand
<1>13. CASE PackMirrored
  BY <1>1, <1>13 DEF PackMirrored, Doing, Result, Operand
<1>14. QED
  BY <1>2, <1>3, <1>4, <1>5, <1>6, <1>7, <1>8, <1>9, <1>10, <1>11, <1>12, <1>13 DEF Works

LEMMA CrossFollows ==
  ASSUME Cross \/ Accept
  PROVE  /\ pc <= Len(program) /\ pc' = pc + 1 /\ UNCHANGED <<par, flow, program>>
         /\ val' = After(program[pc], val)
<1>1. CASE Cross
  BY <1>1 DEF Cross, AtStep, Next1, After
<1>2. CASE Accept
  BY <1>2 DEF Accept, AtStep, Next1, After, Step
<1>3. QED  BY <1>1, <1>2

LEMMA FlowStep == FlowInvariant /\ [Next]_bvars => FlowInvariant'
<1> SUFFICES ASSUME FlowInvariant, [Next]_bvars PROVE FlowInvariant'
  OBVIOUS
<1>1. PICK x, prog :
        /\ prog = program /\ Native(x) /\ Sound(x, prog)
        /\ pc \in 1 .. Len(prog) + 1
        /\ Ahead(x, prog, pc, val)
  BY DEF FlowInvariant
<1>2. IsSeq(prog) /\ Len(prog) \in Nat /\ DOMAIN prog = 1 .. Len(prog)
  BY <1>1, LenIsNat DEF Sound
<1>3. ASSUME pc <= Len(program) /\ pc' = pc + 1, UNCHANGED <<par, flow, program>>,
             val' = After(program[pc], val)
      PROVE  FlowInvariant'
  <2>1. pc \in 1 .. Len(prog) /\ pc' \in 1 .. Len(prog) + 1
    BY <1>1, <1>2, <1>3
  <2>2. Ahead(x, prog, pc + 1, After(prog[pc], val))
    BY <1>1, <1>2, <2>1, AheadStep
  <2>3. Ahead(x, prog, pc', val')
    BY <1>1, <1>3, <2>2
  <2>4. prog = program' /\ x.native = (par'.backend # "c")
    BY <1>1, <1>3 DEF Native
  <2>5. QED  BY <1>1, <2>1, <2>3, <2>4 DEF FlowInvariant, Native
<1>4. CASE Works
  BY <1>3, <1>4, WorkFollows
<1>5. CASE Cross \/ Accept
  BY <1>3, <1>5, CrossFollows
<1>6. CASE Reject
  <2>1. /\ pc <= Len(prog) /\ prog[pc].kind = "decide"
        /\ pc' = (IF prog[pc].to = "end" THEN Len(prog) + 1
                  ELSE CHOOSE i \in DOMAIN prog : prog[i].kind = "head")
        /\ prog = program' /\ val' = val
    BY <1>1, <1>6 DEF Reject, AtStep, Step
  <2>2. x.native = (par'.backend # "c")
    BY <1>1, <1>6 DEF Reject, Native
  <2>3. pc \in 1 .. Len(prog)
    BY <1>1, <1>2, <2>1
  <2>4. Safe(x, prog[pc], val)
    BY <1>1, <1>2, <2>3, AheadStep
  <2>5. val \in Memories(x)
    BY <1>1, <1>2, <2>3 DEF Ahead
  <2>6. pc' \in 1 .. Len(prog) + 1 /\ Ahead(x, prog, pc', val)
    <3>1. CASE prog[pc].to = "end"
      <4>1. pc' = Len(prog) + 1
        BY <2>1, <3>1
      <4> DEFINE tr == [j \in Len(prog) + 1 .. Len(prog) + 1 |-> val]
      <4>2. tr \in [Len(prog) + 1 .. Len(prog) + 1 -> Memories(x)]
        BY <2>5
      <4>3. tr[Len(prog) + 1] = val
        BY <1>2
      <4>4. Len(prog) + 1 .. Len(prog) = {}
        BY <1>2
      <4> HIDE DEF tr
      <4>5. Ahead(x, prog, Len(prog) + 1, val)
        BY <4>2, <4>3, <4>4 DEF Ahead
      <4>6. QED  BY <1>2, <4>1, <4>5
    <3>2. CASE prog[pc].to # "end"
      <4>1. val \in x.head
        BY <2>1, <2>4, <3>2 DEF Safe
      <4>2. \E i \in DOMAIN prog : prog[i].kind = "head"
        BY <1>1, <1>2, <4>1 DEF Sound
      <4> DEFINE k == CHOOSE i \in DOMAIN prog : prog[i].kind = "head"
      <4>3. k \in DOMAIN prog /\ prog[k].kind = "head"
        BY <4>2
      <4>4. pc' = k
        BY <2>1, <3>2
      <4> HIDE DEF k
      <4>5. k \in 1 .. Len(prog) /\ Ahead(x, prog, k, val)
        BY <1>1, <1>2, <4>1, <4>3 DEF Sound
      <4>6. QED  BY <1>2, <4>4, <4>5
    <3>3. QED  BY <3>1, <3>2
  <2>7. Ahead(x, prog, pc', val')
    BY <2>1, <2>6
  <2>8. QED  BY <1>1, <2>1, <2>2, <2>6, <2>7 DEF FlowInvariant, Native
<1>7. CASE UNCHANGED bvars
  <2>1. par' = par /\ program' = program /\ pc' = pc /\ val' = val
    BY <1>7 DEF bvars
  <2>2. Ahead(x, prog, pc', val') /\ pc' \in 1 .. Len(prog) + 1
    BY <1>1, <2>1
  <2>3. prog = program' /\ x.native = (par'.backend # "c")
    BY <1>1, <2>1 DEF Native
  <2>4. QED  BY <1>1, <2>2, <2>3 DEF FlowInvariant, Native
<1>8. QED  BY <1>4, <1>5, <1>6, <1>7 DEF Next, Works

LEMMA FlowIsSafe == FlowInvariant => RequiresMet /\ EnsuresMet
<1> SUFFICES ASSUME FlowInvariant PROVE RequiresMet /\ EnsuresMet
  OBVIOUS
<1>1. PICK x, prog :
        /\ prog = program /\ Native(x) /\ Sound(x, prog)
        /\ pc \in 1 .. Len(prog) + 1
        /\ Ahead(x, prog, pc, val)
  BY DEF FlowInvariant
<1>2. IsSeq(prog) /\ Len(prog) \in Nat
  BY <1>1, LenIsNat DEF Sound
<1>3. ASSUME NEW kind, AtStep(kind) PROVE Safe(x, Step, val) /\ Step.kind = kind
  <2>1. pc \in 1 .. Len(prog) /\ prog[pc].kind = kind /\ Step = prog[pc]
    BY <1>1, <1>2, <1>3 DEF AtStep, Step
  <2>2. QED  BY <1>1, <1>2, <2>1, AheadStep
<1>4. RequiresMet
  BY <1>3 DEF RequiresMet, Safe
<1>5. EnsuresMet
  BY <1>1, <1>3 DEF EnsuresMet, Safe, Native
<1>6. QED  BY <1>4, <1>5

\* In every state the rest of the program is safe from the intervals at hand, whatever the checks of
\* sign.c decide: nothing that comes is called with larger coefficients than its contract allows.
THEOREM FlowIsInductive == Spec => []FlowInvariant
<1>1. Init => FlowInvariant
  BY InitFlow
<1>2. FlowInvariant /\ [Next]_bvars => FlowInvariant'
  BY FlowStep
<1>3. QED  BY <1>1, <1>2, PTL DEF Spec

\* Every function of poly.c, polyvec.c and packing.c is called with coefficients that its contract
\* requires, in every mode, with any inverse NTT that ParamsAssumption allows, and in every attempt.
THEOREM RequiresAlwaysMet == Spec => []RequiresMet
<1>1. FlowInvariant => RequiresMet
  BY FlowIsSafe
<1>2. QED  BY <1>1, FlowIsInductive, PTL

\* Every function returns what its contract promises, but for the inverse NTT of a native backend.
THEOREM EnsuresAlwaysMet == Spec => []EnsuresMet
<1>1. FlowInvariant => EnsuresMet
  BY FlowIsSafe
<1>2. QED  BY <1>1, FlowIsInductive, PTL
=================================================================================
