-------------------------- MODULE SendStreamsProofs --------------------------
(***************************************************************************)
(* Facts about SendStreams for every set of files, links and values: what  *)
(* the streams are made of, where in a stream the change of a file is,     *)
(* what a tree of files looks like somewhere on the way from one state to  *)
(* another, and that the way may be begun again behind any command that    *)
(* was done.  Before them the facts about the operators of the community   *)
(* modules and the induction over the naturals that they need, stated with *)
(* a set in place of a predicate.                                          *)
(***************************************************************************)
EXTENDS SendStreams, SequenceTheorems, WellFoundedInduction, FiniteSetTheorems, Functions, TLAPS

\* Every set of naturals that is not empty has a least element, which Min is
\* (the oldest snapshot of a list).
LEMMA MinOfNat ==
  ASSUME NEW S \in SUBSET Nat, S # {}
  PROVE  Min(S) \in S /\ \A y \in S : Min(S) <= y
<1>1. PICK x \in S : \A y \in S : ~(<<y, x>> \in OpToRel(<, Nat))
  BY WFMin, NatLessThanWellFounded, Zenon
<1>2. \A y \in S : ~(y < x)
  BY <1>1 DEF OpToRel
<1>3. x \in S /\ \A y \in S : x <= y
  BY <1>2
<1>4. QED
  BY <1>3 DEF Min

\* What holds of 0 and of n+1 when it holds of n holds of every natural: the
\* induction that a set of counterexamples without a least element gives.
LEMMA NatSetInduction ==
  ASSUME NEW P \in SUBSET Nat, 0 \in P, \A n \in P : n + 1 \in P
  PROVE  P = Nat
<1> SUFFICES ASSUME Nat \ P # {} PROVE FALSE
  OBVIOUS
<1> DEFINE m == Min(Nat \ P)
<1>1. m \in Nat \ P /\ \A y \in Nat \ P : m <= y
  BY MinOfNat
<1>2. m - 1 \in P
  BY <1>1
<1>3. QED
  BY <1>1, <1>2

\* A set of naturals with an upper bound has a greatest element, which Max is
\* (the newest snapshot of a list).
LEMMA MaxOfNat ==
  ASSUME NEW n \in Nat, NEW S \in SUBSET (0..n), S # {}
  PROVE  Max(S) \in S /\ \A y \in S : Max(S) >= y
<1> DEFINE T == {n - x : x \in S}
<1>1. T \in SUBSET Nat /\ T # {}
  <2>1. \A x \in S : n - x \in Nat
    OBVIOUS
  <2>2. PICK s \in S : TRUE
    OBVIOUS
  <2>3. n - s \in T
    BY <2>2
  <2>4. QED
    BY <2>1, <2>3
<1>2. PICK t \in T : \A u \in T : t <= u
  BY <1>1, MinOfNat
<1>3. PICK x \in S : t = n - x
  BY <1>2
<1>4. \A y \in S : x >= y
  BY <1>2, <1>3
<1>5. QED
  BY <1>3, <1>4 DEF Max

-----------------------------------------------------------------------------
(* Sequences.                                                              *)

\* A sequence with an element before it.
LEMMA Preceded ==
  ASSUME NEW S, NEW a \in S, NEW t \in Seq(S)
  PROVE  /\ << a >> \o t \in Seq(S) /\ Len(<< a >> \o t) = Len(t) + 1
         /\ (<< a >> \o t)[1] = a
         /\ \A i \in 1..Len(t) : (<< a >> \o t)[i + 1] = t[i]
<1>1. << a >> \in Seq(S) /\ Len(<< a >>) = 1 /\ << a >>[1] = a
  OBVIOUS
<1>2. PICK u \in Seq(S) : u = << a >>
  BY <1>1
<1>3. /\ u \o t \in Seq(S) /\ Len(u \o t) = Len(u) + Len(t)
      /\ \A i \in 1..(Len(u) + Len(t)) : (u \o t)[i] = IF i <= Len(u) THEN u[i] ELSE t[i - Len(u)]
  BY ONLY u \in Seq(S), t \in Seq(S), ConcatProperties, Zenon
<1>4. PICK n \in Nat : n = Len(t)
  OBVIOUS
<1>5. PICK x : x = u \o t
  OBVIOUS
<1>6. Len(u) = 1 /\ u[1] = a
  BY <1>1, <1>2
<1>7. \A i \in 1..(n + 1) : x[i] = IF i <= 1 THEN u[i] ELSE t[i - 1]
  BY <1>3, <1>4, <1>6, <1>5
<1>8. x[1] = a /\ \A i \in 1..n : x[i + 1] = t[i]
  <2>1. 1 \in 1..(n + 1)
    BY <1>4
  <2>2. x[1] = a
    BY <1>6, <1>7, <2>1
  <2>3. ASSUME NEW i \in 1..n PROVE x[i + 1] = t[i]
    <3>1. i + 1 \in 1..(n + 1) /\ ~(i + 1 <= 1) /\ (i + 1) - 1 = i
      BY <1>4
    <3>2. QED
      BY <1>7, <3>1
  <2>4. QED
    BY <2>2, <2>3
<1>9. QED
  BY <1>2, <1>3, <1>4, <1>6, <1>8, <1>5

\* Sequences written out.
LEMMA Pair ==
  ASSUME NEW S, NEW a \in S, NEW b \in S
  PROVE  << a >> \o << b >> = << a, b >>
<1>1. << b >> \in Seq(S) /\ Len(<< b >>) = 1 /\ << b >>[1] = b
  OBVIOUS
<1>2. PICK t \in Seq(S) : t = << b >>
  BY <1>1
<1>3. << a, b >> \in Seq(S) /\ Len(<< a, b >>) = 2 /\ << a, b >>[1] = a /\ << a, b >>[2] = b
  OBVIOUS
<1>4. PICK y \in Seq(S) : y = << a, b >>
  BY <1>3
<1>5. PICK x : x = << a >> \o t
  OBVIOUS
<1>6. x \in Seq(S) /\ Len(x) = Len(t) + 1 /\ x[1] = a /\ \A i \in 1..Len(t) : x[i + 1] = t[i]
  <2>1. /\ << a >> \o t \in Seq(S) /\ Len(<< a >> \o t) = Len(t) + 1 /\ (<< a >> \o t)[1] = a
        /\ \A i \in 1..Len(t) : (<< a >> \o t)[i + 1] = t[i]
    BY ONLY Preceded, a \in S, t \in Seq(S)
  <2>2. QED
    BY ONLY <1>5, <2>1, Zenon
<1>7. Len(t) = 1 /\ t[1] = b
  BY <1>1, <1>2
<1>8. Len(x) = 2 /\ x[2] = b
  BY <1>6, <1>7
<1>9. Len(y) = 2 /\ y[1] = a /\ y[2] = b
  BY <1>3, <1>4
<1>10. \A i \in 1..Len(x) : x[i] = y[i]
  BY <1>6, <1>8, <1>9
<1>11. x = y
  BY <1>6, <1>8, <1>9, <1>10, SeqEqual
<1>12. QED
  BY <1>2, <1>4, <1>5, <1>11

LEMMA Fourfold ==
  ASSUME NEW S, NEW a \in S, NEW b \in S, NEW c \in S, NEW d \in S
  PROVE  << a >> \o << b, c, d >> = << a, b, c, d >>
<1>1. << b, c, d >> \in Seq(S) /\ Len(<< b, c, d >>) = 3 /\ << b, c, d >>[1] = b /\ << b, c, d >>[2] = c /\ << b, c, d >>[3] = d
  OBVIOUS
<1>2. PICK t \in Seq(S) : t = << b, c, d >>
  BY <1>1
<1>3. /\ << a, b, c, d >> \in Seq(S) /\ Len(<< a, b, c, d >>) = 4
      /\ << a, b, c, d >>[1] = a /\ << a, b, c, d >>[2] = b /\ << a, b, c, d >>[3] = c /\ << a, b, c, d >>[4] = d
  OBVIOUS
<1>4. PICK y \in Seq(S) : y = << a, b, c, d >>
  BY <1>3
<1>5. PICK x : x = << a >> \o t
  OBVIOUS
<1>6. x \in Seq(S) /\ Len(x) = Len(t) + 1 /\ x[1] = a /\ \A i \in 1..Len(t) : x[i + 1] = t[i]
  <2>1. /\ << a >> \o t \in Seq(S) /\ Len(<< a >> \o t) = Len(t) + 1 /\ (<< a >> \o t)[1] = a
        /\ \A i \in 1..Len(t) : (<< a >> \o t)[i + 1] = t[i]
    BY ONLY Preceded, a \in S, t \in Seq(S)
  <2>2. QED
    BY ONLY <1>5, <2>1, Zenon
<1>7. Len(t) = 3 /\ t[1] = b /\ t[2] = c /\ t[3] = d
  BY <1>1, <1>2
<1>8. Len(x) = 4 /\ x[2] = b /\ x[3] = c /\ x[4] = d
  BY <1>6, <1>7
<1>9. Len(y) = 4 /\ y[1] = a /\ y[2] = b /\ y[3] = c /\ y[4] = d
  BY <1>3, <1>4
<1>10. \A i \in 1..Len(x) : x[i] = y[i]
  BY <1>6, <1>8, <1>9
<1>11. x = y
  BY <1>6, <1>8, <1>9, <1>10, SeqEqual
<1>12. QED
  BY <1>2, <1>4, <1>5, <1>11

\* A finite set has its elements in some order, each of them once.
LEMMA SetToSeqIs ==
  ASSUME NEW S, IsFiniteSet(S)
  PROVE  /\ SetToSeq(S) \in Seq(S)
         /\ \A x \in S : \E i \in 1..Len(SetToSeq(S)) : SetToSeq(S)[i] = x
         /\ \A i, j \in 1..Len(SetToSeq(S)) : SetToSeq(S)[i] = SetToSeq(S)[j] => i = j
<1>1. PICK n \in Nat : n = Cardinality(S) /\ ExistsBijection(1..n, S)
  BY FS_CardinalityType
<1>2. PICK f : f \in [1..n -> S] /\ IsInjective(f)
  BY <1>1 DEF ExistsBijection, Bijection, Injection
<1>3. PICK g : g = SetToSeq(S)
  OBVIOUS
<1>4. g \in [1..n -> S] /\ IsInjective(g)
  BY <1>1, <1>2, <1>3 DEF SetToSeq
<1>5. g \in Seq(S) /\ Len(g) = n
  BY <1>4
<1>6. \A x \in S : \E i \in 1..n : g[i] = x
  <2>1. g \in Injection(1..n, S)
    BY <1>4 DEF Injection
  <2>2. Cardinality(1..n) = n
    BY FS_Interval
  <2>3. g \in Surjection(1..n, S)
    BY <1>1, <2>1, <2>2, FS_Injection
  <2>4. QED
    BY <2>3 DEF Surjection
<1>7. \A i, j \in 1..n : g[i] = g[j] => i = j
  BY <1>4 DEF IsInjective
<1>8. QED
  BY <1>3, <1>5, <1>6, <1>7

-----------------------------------------------------------------------------
(* FlattenSeq.                                                             *)

Joining(seqs, f, n) == f = [i \in 1..n |-> IF i = 1 THEN seqs[i] ELSE f[i - 1] \o seqs[i]]

LEMMA JoiningDefined ==
  ASSUME NEW seqs
  PROVE  \A n \in Nat : \E f : Joining(seqs, f, n)
<1> DEFINE P == {n \in Nat : \E f : Joining(seqs, f, n)}
<1>1. 0 \in P
  <2>1. \E f : f = [i \in 1..0 |-> seqs[i]]
    OBVIOUS
  <2>2. PICK f : f = [i \in 1..0 |-> seqs[i]]
    BY <2>1
  <2>3. f = [i \in 1..0 |-> IF i = 1 THEN seqs[i] ELSE f[i - 1] \o seqs[i]]
    BY <2>2
  <2>4. QED
    BY <2>3 DEF Joining
<1>2. ASSUME NEW n \in P PROVE n + 1 \in P
  <2>1. PICK f : Joining(seqs, f, n)
    OBVIOUS
  <2>2. n \in Nat
    OBVIOUS
  <2> DEFINE g == [i \in 1..(n + 1) |-> IF i <= n THEN f[i]
                                        ELSE IF i = 1 THEN seqs[i] ELSE f[i - 1] \o seqs[i]]
  <2>3. \A i \in 1..n : f[i] = IF i = 1 THEN seqs[i] ELSE f[i - 1] \o seqs[i]
    BY <2>1 DEF Joining
  <2>4. \A i \in 1..n : g[i] = f[i]
    BY <2>2
  <2>5. \A i \in 1..(n + 1) : i # 1 => i - 1 \in 1..n
    BY <2>2
  <2>6. \A i \in 1..(n + 1) : g[i] = IF i = 1 THEN seqs[i] ELSE g[i - 1] \o seqs[i]
    BY <2>2, <2>3, <2>4, <2>5
  <2> HIDE DEF g
  <2>7. g = [i \in 1..(n + 1) |-> g[i]]
    BY DEF g
  <2>8. Joining(seqs, g, n + 1)
    BY <2>6, <2>7 DEF Joining
  <2>9. QED
    BY <2>2, <2>8
<1>3. P = Nat
  BY <1>1, <1>2, NatSetInduction
<1>4. QED
  BY <1>3

\* Joined: the sequences before each one, put one after the other, are sequences.
LEMMA FlattenIs ==
  ASSUME NEW S, NEW seqs \in Seq(Seq(S)), NEW n \in Nat, n = Len(seqs), n # 0
  PROVE  \E f : /\ Joining(seqs, f, n)
                /\ FlattenSeq(seqs) = f[n]
                /\ \A m \in 1..n : f[m] \in Seq(S)
<1>1. \A i \in 1..n : seqs[i] \in Seq(S)
  OBVIOUS
<1>2. FlattenSeq(seqs) = (CHOOSE f : Joining(seqs, f, n))[n]
  BY DEF FlattenSeq, Joining
<1>3. PICK f : Joining(seqs, f, n) /\ FlattenSeq(seqs) = f[n]
  BY <1>2, JoiningDefined
<1> DEFINE P == {m \in Nat : m + 1 <= n => f[m + 1] \in Seq(S)}
<1>4. 0 \in P
  <2>1. f[1] = seqs[1]
    BY <1>3 DEF Joining
  <2>2. QED
    BY <1>1, <2>1
<1>5. ASSUME NEW m \in P PROVE m + 1 \in P
  <2> SUFFICES ASSUME (m + 1) + 1 <= n PROVE f[(m + 1) + 1] \in Seq(S)
    OBVIOUS
  <2>1. m \in Nat /\ f[m + 1] \in Seq(S)
    OBVIOUS
  <2>2. /\ (m + 1) + 1 \in 1..n /\ (m + 1) + 1 # 1 /\ ((m + 1) + 1) - 1 = m + 1
    BY <2>1
  <2>3. f[(m + 1) + 1] = f[m + 1] \o seqs[(m + 1) + 1]
    BY <1>3, <2>2 DEF Joining
  <2>4. seqs[(m + 1) + 1] \in Seq(S)
    BY <1>1, <2>2
  <2>5. QED
    BY <2>1, <2>3, <2>4
<1>6. P = Nat
  BY <1>4, <1>5, NatSetInduction
<1>7. ASSUME NEW m \in 1..n PROVE f[m] \in Seq(S)
  <2>1. m - 1 \in Nat /\ (m - 1) + 1 = m /\ m <= n
    OBVIOUS
  <2>2. m - 1 \in P
    BY <1>6, <2>1, Zenon
  <2>3. QED
    BY <2>1, <2>2
<1>8. QED
  BY <1>3, <1>7

\* Sequences over a set, put one after the other, are a sequence over the set.
LEMMA FlattenTyped ==
  ASSUME NEW S, NEW seqs \in Seq(Seq(S))
  PROVE  FlattenSeq(seqs) \in Seq(S)
<1>1. PICK n \in Nat : n = Len(seqs)
  OBVIOUS
<1>2. CASE n = 0
  <2>1. seqs = << >>
    <3>1. Len(seqs) = 0
      BY <1>1, <1>2
    <3>2. QED
      BY <3>1, EmptySeq, Zenon
  <2>2. FlattenSeq(seqs) = seqs
    BY <1>1, <1>2 DEF FlattenSeq
  <2>3. << >> \in Seq(S)
    OBVIOUS
  <2>4. QED
    BY <2>1, <2>2, <2>3
<1>3. CASE n # 0
  BY <1>1, <1>3, FlattenIs
<1>4. QED
  BY <1>2, <1>3

\* Where the first m of some sequences are in a sequence that is made of them.
Cut(s, seqs, m, at) ==
    /\ \A i \in 1..m : at[i] \in 0..Len(s)
    /\ \A i \in 1..m : \A k \in 1..Len(seqs[i]) : at[i] + k \in 1..Len(s) /\ s[at[i] + k] = seqs[i][k]
    /\ \A j \in 1..Len(s) : \E i \in 1..m : \E k \in 1..Len(seqs[i]) : j = at[i] + k

\* Each element of the flattened sequence is one of a sequence it is made of,
\* and each of theirs is in it.
LEMMA FlattenCut ==
  ASSUME NEW S, NEW seqs \in Seq(Seq(S))
  PROVE  \E at \in [1..Len(seqs) -> 0..Len(FlattenSeq(seqs))] : Cut(FlattenSeq(seqs), seqs, Len(seqs), at)
<1>1. PICK n \in Nat : n = Len(seqs)
  OBVIOUS
<1>2. PICK F \in Seq(S) : F = FlattenSeq(seqs)
  BY FlattenTyped
<1>3. CASE n = 0
  <2>1. seqs = << >>
    <3>1. Len(seqs) = 0
      BY <1>1, <1>3
    <3>2. QED
      BY <3>1, EmptySeq, Zenon
  <2>2. F = << >>
    BY <1>1, <1>2, <1>3, <2>1 DEF FlattenSeq
  <2>3. PICK at : at = [i \in 1..0 |-> 0]
    OBVIOUS
  <2>4. at \in [1..n -> 0..Len(F)] /\ Cut(F, seqs, n, at)
    BY <1>3, <2>2, <2>3 DEF Cut
  <2>5. QED
    BY <1>1, <1>2, <2>4
<1>4. CASE n # 0
  <2>1. PICK f : Joining(seqs, f, n) /\ F = f[n] /\ \A m \in 1..n : f[m] \in Seq(S)
    BY <1>1, <1>2, <1>4, FlattenIs
  <2>2. PICK at : at = [i \in 1..n |-> IF i = 1 THEN 0 ELSE Len(f[i - 1])]
    OBVIOUS
  <2>3. \A i \in 1..n : seqs[i] \in Seq(S)
    BY <1>1
  <2> DEFINE P == {m \in Nat : m + 1 <= n => Cut(f[m + 1], seqs, m + 1, at)}
  <2>4. 0 \in P
    <3>1. f[1] = seqs[1] /\ at[1] = 0 /\ seqs[1] \in Seq(S)
      BY <1>4, <2>1, <2>2, <2>3 DEF Joining
    <3>2. \A i \in 1..1 : i = 1
      OBVIOUS
    <3>3. \A k \in 1..Len(seqs[1]) : 0 + k = k
      BY <3>1
    <3>4. 0 \in 0..Len(seqs[1])
      BY <3>1
    <3>5. Cut(f[1], seqs, 1, at)
      BY <3>1, <3>2, <3>3, <3>4 DEF Cut
    <3>6. QED
      BY <3>5
  <2>5. ASSUME NEW m \in P PROVE m + 1 \in P
    <3> SUFFICES ASSUME (m + 1) + 1 <= n PROVE Cut(f[(m + 1) + 1], seqs, (m + 1) + 1, at)
      OBVIOUS
    <3>1. PICK l \in Nat : l = m + 1
      OBVIOUS
    <3>2. l \in 1..n /\ l + 1 \in 1..n /\ l + 1 # 1 /\ (l + 1) - 1 = l /\ l >= 1
      BY <1>1, <3>1
    <3>3. Cut(f[l], seqs, l, at)
      BY <3>1, <3>2
    <3>4. PICK g \in Seq(S) : g = f[l]
      BY <2>1, <3>2
    <3>5. PICK h \in Seq(S) : h = seqs[l + 1]
      BY <2>3, <3>2
    <3>6. f[l + 1] = g \o h
      BY <2>1, <3>2, <3>4, <3>5 DEF Joining
    <3>7. at[l + 1] = Len(g)
      BY <2>2, <3>2, <3>4
    <3>8. PICK a \in Nat, b \in Nat : a = Len(g) /\ b = Len(h)
      OBVIOUS
    <3>9. PICK w \in Seq(S) : w = g \o h
      <4>1. g \o h \in Seq(S)
        BY ONLY g \in Seq(S), h \in Seq(S)
      <4>2. QED
        BY ONLY <4>1
    <3>10. /\ Len(w) = a + b
           /\ \A i \in 1..a : w[i] = g[i]
           /\ \A i \in 1..b : w[a + i] = h[i]
      BY <3>8, <3>9
    <3>11. ASSUME NEW i \in 1..(l + 1), NEW k \in 1..Len(seqs[i])
           PROVE  at[i] + k \in 1..Len(w) /\ w[at[i] + k] = seqs[i][k]
      <4>1. CASE i = l + 1
        <5>1. k \in 1..b /\ seqs[i][k] = h[k] /\ at[i] = a
          BY <3>5, <3>7, <3>8, <3>11, <4>1
        <5>2. a + k \in 1..(a + b) /\ w[a + k] = h[k]
          <6>1. w[a + k] = h[k]
            BY <3>10, <5>1
          <6>2. k \in Nat /\ k >= 1 /\ k <= b
            BY <3>8, <5>1
          <6>3. a + k \in 1..(a + b)
            BY ONLY <6>2, a \in Nat, b \in Nat
          <6>4. QED
            BY <6>1, <6>3
        <5>3. QED
          BY <3>10, <5>1, <5>2
      <4>2. CASE i # l + 1
        <5>1. i \in 1..l
          BY <3>11, <4>2
        <5>2. at[i] + k \in 1..a /\ g[at[i] + k] = seqs[i][k]
          BY <3>3, <3>4, <3>8, <3>11, <5>1 DEF Cut
        <5>3. at[i] + k \in 1..(a + b)
          BY ONLY <5>2, a \in Nat, b \in Nat, SMTT(30)
        <5>4. QED
          BY <3>10, <5>2, <5>3
      <4>3. QED
        BY <4>1, <4>2
    <3>12. ASSUME NEW j \in 1..Len(w)
           PROVE  \E i \in 1..(l + 1) : \E k \in 1..Len(seqs[i]) : j = at[i] + k
      <4>1. CASE j <= a
        <5>1. j \in 1..Len(g)
          BY <3>8, <3>10, <3>12, <4>1
        <5>2. PICK i \in 1..l : \E k \in 1..Len(seqs[i]) : j = at[i] + k
          BY <3>3, <3>4, <5>1 DEF Cut
        <5>3. QED
          BY <5>2
      <4>2. CASE j > a
        <5>1. j - a \in 1..b /\ j = a + (j - a)
          BY <3>10, <3>12, <4>2
        <5>2. l + 1 \in 1..(l + 1)
          OBVIOUS
        <5>3. j - a \in 1..Len(seqs[l + 1]) /\ j = at[l + 1] + (j - a)
          BY <3>5, <3>7, <3>8, <5>1
        <5>4. QED
          BY <5>2, <5>3
      <4>3. QED
        BY <3>10, <3>12, <4>1, <4>2
    <3>13. ASSUME NEW i \in 1..(l + 1) PROVE at[i] \in 0..Len(w)
      <4>1. i = l + 1 \/ i \in 1..l
        BY <3>13
      <4>2. i \in 1..l => at[i] \in 0..a
        BY <3>3, <3>4, <3>8 DEF Cut
      <4>3. QED
        BY <3>7, <3>8, <3>10, <4>1, <4>2
    <3>14. Cut(w, seqs, l + 1, at)
      BY <3>11, <3>12, <3>13 DEF Cut
    <3>15. QED
      BY <3>1, <3>6, <3>9, <3>14
  <2>6. P = Nat
    BY <2>4, <2>5, NatSetInduction
  <2>7. n - 1 \in Nat /\ (n - 1) + 1 = n /\ (n - 1) + 1 <= n
    BY <1>4
  <2>8. n - 1 \in P
    BY <2>6, <2>7, Zenon
  <2>9. Cut(F, seqs, n, at)
    BY <2>1, <2>7, <2>8
  <2>10. at \in [1..n -> 0..Len(F)]
    BY <2>2, <2>9 DEF Cut
  <2>11. QED
    BY <1>1, <1>2, <2>9, <2>10
<1>5. QED
  BY <1>3, <1>4

-----------------------------------------------------------------------------
(* The progress of a transfer from one state of the files to another.      *)

\* What the mirror shows of a file or link; far: over SSH.
Shown(p, v, far) == IF p \in Links /\ v \notin Inodes \cup {NoFile} /\ ~far THEN Below(v) ELSE v

\* The mirror's directory is in the given state.
Holds(state, t, far) == \A p \in Paths : /\ t[File(p)] = Shown(p, state[p], far)
                                         /\ t[Orphan(p)] = NoFile

\* k commands of the change of p have run: what they had to do is done, and what
\* an earlier transfer left under the orphan name is done away with by those
\* to come.
Ready(p, was, is, t, far, k) ==
    LET change == Change(p, was, is)
    IN  /\ k = Len(change) \/ change[k + 1].op = "attributes" => t[File(p)] = Shown(p, is, far)
        /\ t[Orphan(p)] = NoFile \/ \E l \in (k + 1)..Len(change) : change[l].name = Orphan(p)
        /\ k < Len(change) /\ change[k + 1].op = "rename" /\ p \in Links =>
               t[Orphan(p)] \in {NoFile, Shown(p, is, far)}

\* The commands between the first and the last of a stream, and where among them
\* those of each path begin.
Middle(from, to) == FlattenSeq([i \in 1..Len(PathOrder) |->
                                   LET p == PathOrder[i] IN Change(p, from[p], to[p])])
IsPlace(from, to, at) ==
    /\ \A p \in Paths : \A k \in 1..Len(Change(p, from[p], to[p])) :
          /\ at[p] + k \in 1..Len(Middle(from, to))
          /\ Middle(from, to)[at[p] + k] = Change(p, from[p], to[p])[k]
    /\ \A j \in 1..Len(Middle(from, to)) : \E p \in Paths :
          \E k \in 1..Len(Change(p, from[p], to[p])) : j = at[p] + k
Place(from, to) == CHOOSE at \in [Paths -> 0..Len(Middle(from, to))] : IsPlace(from, to, at)

\* n commands of the stream have run, the first of them its beginning.
Reached(from, to, t, far, n) ==
    \A p \in Paths : /\ Ready(p, from[p], to[p], t, far, 0)
                     /\ \A k \in 1..Len(Change(p, from[p], to[p])) :
                           Place(from, to)[p] + k < n => Ready(p, from[p], to[p], t, far, k)

-----------------------------------------------------------------------------
(* The commands.                                                           *)

Mk(p)     == Cmd("mkfile", Orphan(p), NoFile, NoFile)
Mv(p)     == Cmd("rename", Orphan(p), File(p), NoFile)
Wr(p, v)  == Data(p, v)
Sym(p, v) == Cmd("symlink", Orphan(p), NoFile, v)
Ln(p, v)  == Cmd("link", File(p), NoFile, v)
Rm(p)     == Cmd("unlink", File(p), NoFile, NoFile)
Attr(p)     == Cmd("attributes", File(p), NoFile, NoFile)

\* What a directory's receiver can do the receiver of subvolumes can.
Can(t, far, c)   == IF far THEN RemoteSucceeds(t, c) ELSE Succeeds(t, c)
After(t, far, c) == IF far THEN RemoteApplied(t, c) ELSE Applied(t, c)

\* The commands about the file or link p.
CommandsOn(p) == {Mk(p), Mv(p), Rm(p), Attr(p)} \cup {Wr(p, v) : v \in Values} \cup {Sym(p, v) : v \in Values} \cup {Ln(p, v) : v \in Values}
AllCommands   == UNION {CommandsOn(p) : p \in Paths}

LEMMA NamesAre ==
  ASSUME NEW p \in Paths
  PROVE  File(p) \in Names /\ Orphan(p) \in Names /\ File(p) # Orphan(p)
BY DEF File, Orphan, Names

LEMMA CommandKinds ==
  ASSUME NEW p \in Paths, NEW v \in Values
  PROVE  /\ Mk(p) \in CommandsOn(p) /\ Mv(p) \in CommandsOn(p) /\ Rm(p) \in CommandsOn(p) /\ Attr(p) \in CommandsOn(p)
         /\ Wr(p, v) \in CommandsOn(p) /\ Sym(p, v) \in CommandsOn(p) /\ Ln(p, v) \in CommandsOn(p)
BY DEF CommandsOn

\* What the change of a file or link can be.
LEMMA ChangeIs ==
  ASSUME NEW p \in Paths, NEW was \in Values \cup {NoFile}, NEW is \in Values \cup {NoFile}
  PROVE  \/ was = is /\ Change(p, was, is) = << >>
         \/ was # is /\ is = NoFile /\ Change(p, was, is) = << Rm(p) >>
         \/ was # is /\ is \in Values /\ p \notin Links /\ was = NoFile /\ Change(p, was, is) = << Mk(p), Mv(p), Wr(p, is) >>
         \/ was # is /\ is \in Values /\ p \notin Links /\ Change(p, was, is) = << Wr(p, is) >>
         \/ was # is /\ is \in Inodes /\ p \in Links /\ was = NoFile /\ Change(p, was, is) = << Ln(p, is) >>
         \/ was # is /\ is \in Inodes /\ p \in Links /\ Change(p, was, is) = << Rm(p), Ln(p, is) >>
         \/ was # is /\ is \in Values \ Inodes /\ p \in Links /\ was = NoFile /\ Change(p, was, is) = << Sym(p, is), Mv(p), Attr(p) >>
         \/ was # is /\ is \in Values \ Inodes /\ p \in Links /\ Change(p, was, is) = << Rm(p), Sym(p, is), Mv(p), Attr(p) >>
<1> USE DEF Mk, Mv, Wr, Sym, Ln, Rm, Attr
<1>1. CASE was = is
  BY <1>1 DEF Change
<1>2. CASE was # is /\ is = NoFile
  BY <1>2 DEF Change
<1>3. CASE was # is /\ is # NoFile /\ was = NoFile
  <2>1. Change(p, was, is) = Create(p, is)
    BY <1>3 DEF Change
  <2>2. QED
    BY <1>3, <2>1 DEF Create
<1>4. CASE was # is /\ is # NoFile /\ was # NoFile /\ p \notin Links
  BY <1>4 DEF Change
<1>5. CASE was # is /\ is # NoFile /\ was # NoFile /\ p \in Links
  <2>1. Change(p, was, is) = << Rm(p) >> \o Create(p, is)
    BY <1>5 DEF Change
  <2>2. CASE is \in Inodes
    <3>1. Create(p, is) = << Ln(p, is) >>
      BY <1>5, <2>2 DEF Create
    <3>2. PICK a, b : a = Rm(p) /\ b = Ln(p, is)
      OBVIOUS
    <3>3. << a >> \o << b >> = << a, b >>
      BY ONLY a \in {a, b}, b \in {a, b}, Pair
    <3>4. QED
      BY ONLY <1>5, <2>1, <2>2, <3>1, <3>2, <3>3
  <2>3. CASE is \notin Inodes
    <3>1. Create(p, is) = << Sym(p, is), Mv(p), Attr(p) >>
      BY <1>5, <2>3 DEF Create
    <3>2. PICK a, b, c, d : a = Rm(p) /\ b = Sym(p, is) /\ c = Mv(p) /\ d = Attr(p)
      OBVIOUS
    <3>3. << a >> \o << b, c, d >> = << a, b, c, d >>
      BY ONLY a \in {a, b, c, d}, b \in {a, b, c, d}, c \in {a, b, c, d}, d \in {a, b, c, d}, Fourfold
    <3>4. is \in Values \ Inodes
      BY <1>5, <2>3
    <3>5. QED
      BY ONLY <1>5, <2>1, <3>1, <3>2, <3>3, <3>4
  <2>4. QED
    BY <2>2, <2>3
<1>6. QED
  BY <1>1, <1>2, <1>3, <1>4, <1>5

LEMMA ChangeTyped ==
  ASSUME NEW p \in Paths, NEW was \in Values \cup {NoFile}, NEW is \in Values \cup {NoFile}
  PROVE  Change(p, was, is) \in Seq(CommandsOn(p)) /\ Change(p, was, is) \in Seq(AllCommands)
<1>1. CommandsOn(p) \subseteq AllCommands
  BY DEF AllCommands
<1>2. is \in Inodes => is \in Values
  BY StreamsAssumption
<1>3. /\ Mk(p) \in CommandsOn(p) /\ Mv(p) \in CommandsOn(p) /\ Rm(p) \in CommandsOn(p) /\ Attr(p) \in CommandsOn(p)
      /\ is \in Values => Wr(p, is) \in CommandsOn(p) /\ Sym(p, is) \in CommandsOn(p) /\ Ln(p, is) \in CommandsOn(p)
  BY CommandKinds DEF CommandsOn
<1>4. Change(p, was, is) \in Seq(CommandsOn(p))
  <2>1. PICK S, mk, mv, rm, wr, sym, ln, at : /\ S = CommandsOn(p) /\ mk = Mk(p) /\ mv = Mv(p) /\ rm = Rm(p)
                                              /\ wr = Wr(p, is) /\ sym = Sym(p, is) /\ ln = Ln(p, is) /\ at = Attr(p)
    OBVIOUS
  <2>2. /\ << >> \in Seq(S)
        /\ rm \in S => << rm >> \in Seq(S)
        /\ mk \in S /\ mv \in S /\ wr \in S => << mk, mv, wr >> \in Seq(S)
        /\ wr \in S => << wr >> \in Seq(S)
        /\ ln \in S => << ln >> \in Seq(S)
        /\ rm \in S /\ ln \in S => << rm, ln >> \in Seq(S)
        /\ sym \in S /\ mv \in S /\ at \in S => << sym, mv, at >> \in Seq(S)
        /\ rm \in S /\ sym \in S /\ mv \in S /\ at \in S => << rm, sym, mv, at >> \in Seq(S)
    BY ONLY TRUE
  <2>3. PICK C : C = Change(p, was, is)
    OBVIOUS
  <2>4. \/ C = << >>
        \/ C = << rm >>
        \/ is \in Values /\ C = << mk, mv, wr >>
        \/ is \in Values /\ C = << wr >>
        \/ is \in Values /\ C = << ln >>
        \/ is \in Values /\ C = << rm, ln >>
        \/ is \in Values /\ C = << sym, mv, at >>
        \/ is \in Values /\ C = << rm, sym, mv, at >>
    BY <1>2, <2>1, <2>3, ChangeIs, Zenon
  <2>5. mk \in S /\ mv \in S /\ rm \in S /\ at \in S /\ (is \in Values => wr \in S /\ sym \in S /\ ln \in S)
    BY <1>3, <2>1, Zenon
  <2>6. C \in Seq(S)
    BY ONLY <2>2, <2>4, <2>5, Zenon
  <2>7. QED
    BY <2>1, <2>3, <2>6
<1>5. Seq(CommandsOn(p)) \subseteq Seq(AllCommands)
  BY <1>1
<1>6. QED
  BY <1>4, <1>5

\* What the commands about p do to its two names.
LEMMA Effects ==
  ASSUME NEW p \in Paths, NEW t \in [Names -> Held], NEW far \in BOOLEAN, NEW v
  PROVE  /\ After(t, far, Rm(p))[File(p)] = NoFile /\ After(t, far, Rm(p))[Orphan(p)] = t[Orphan(p)]
         /\ After(t, far, Mv(p))[File(p)] = t[Orphan(p)] /\ After(t, far, Mv(p))[Orphan(p)] = NoFile
         /\ Can(t, far, Mv(p)) => t[Orphan(p)] # NoFile
         /\ After(t, far, Wr(p, v))[File(p)] = v /\ After(t, far, Wr(p, v))[Orphan(p)] = t[Orphan(p)]
         /\ After(t, far, Sym(p, v))[Orphan(p)] = IF far THEN v ELSE Below(v)
         /\ Can(t, far, Ln(p, v)) => /\ After(t, far, Ln(p, v))[File(p)] = v
                                     /\ After(t, far, Ln(p, v))[Orphan(p)] = t[Orphan(p)]
         /\ After(t, far, Attr(p)) = t
<1>1. File(p) \in Names /\ Orphan(p) \in Names /\ File(p) # Orphan(p)
  BY NamesAre
<1> USE <1>1 DEF Cmd, After, Can, Applied, RemoteApplied, Succeeds, RemoteSucceeds
<1>2. After(t, far, Rm(p))[File(p)] = NoFile /\ After(t, far, Rm(p))[Orphan(p)] = t[Orphan(p)]
  BY DEF Rm
<1>3. After(t, far, Mv(p))[File(p)] = t[Orphan(p)] /\ After(t, far, Mv(p))[Orphan(p)] = NoFile
  BY DEF Mv
<1>4. Can(t, far, Mv(p)) => t[Orphan(p)] # NoFile
  BY DEF Mv
<1>5. After(t, far, Wr(p, v))[File(p)] = v /\ After(t, far, Wr(p, v))[Orphan(p)] = t[Orphan(p)]
  BY DEF Wr, Data
<1>6. After(t, far, Sym(p, v))[Orphan(p)] = IF far THEN v ELSE Below(v)
  BY DEF Sym
<1>7. Can(t, far, Ln(p, v)) => /\ After(t, far, Ln(p, v))[File(p)] = v
                               /\ After(t, far, Ln(p, v))[Orphan(p)] = t[Orphan(p)]
  BY DEF Ln
<1>8. After(t, far, Attr(p)) = t
  BY DEF Attr
<1>9. QED
  BY <1>2, <1>3, <1>4, <1>5, <1>6, <1>7, <1>8

\* The commands of the one are not about the names of the other.
LEMMA Apart ==
  ASSUME NEW p \in Paths, NEW q \in Paths, p # q, NEW c \in CommandsOn(q), NEW t \in [Names -> Held], NEW far \in BOOLEAN
  PROVE  After(t, far, c)[File(p)] = t[File(p)] /\ After(t, far, c)[Orphan(p)] = t[Orphan(p)] /\ c \notin CommandsOn(p)
<1>1. /\ File(p) \in Names /\ Orphan(p) \in Names /\ File(q) \in Names /\ Orphan(q) \in Names
      /\ {File(p), Orphan(p)} \cap {File(q), Orphan(q)} = {}
  BY NamesAre DEF File, Orphan
<1>2. c.name \in {File(q), Orphan(q)} /\ (c.op = "rename" => c.to \in {File(q), Orphan(q)})
  BY DEF CommandsOn, Cmd, Mk, Mv, Wr, Data, Sym, Ln, Rm, Attr
<1>3. \A d \in CommandsOn(p) : d.name \in {File(p), Orphan(p)}
  BY DEF CommandsOn, Cmd, Mk, Mv, Wr, Data, Sym, Ln, Rm, Attr
<1>4. After(t, far, c)[File(p)] = t[File(p)] /\ After(t, far, c)[Orphan(p)] = t[Orphan(p)]
  <2>1. c.op \in {"mkfile", "rename", "write", "clone", "symlink", "attributes", "link", "unlink"}
    BY DEF CommandsOn, Cmd, Mk, Mv, Wr, Data, Sym, Ln, Rm, Attr
  <2>2. PICK f, o, n, op : f = File(p) /\ o = Orphan(p) /\ n = c.name /\ op = c.op
    OBVIOUS
  <2>3. QED
    BY <1>1, <1>2, <2>1 DEF After, Applied, RemoteApplied
<1>5. QED
  BY <1>1, <1>2, <1>3, <1>4

-----------------------------------------------------------------------------
(* A command that succeeds brings the change of its file one command       *)
(* further, and undoes nothing of what a repetition needs.                 *)

\* What it is to be ready, for each kind of change.
LEMMA ReadyIs ==
  ASSUME NEW p \in Paths, NEW was, NEW is \in Values \cup {NoFile}, NEW t, NEW far
  PROVE  LET C == Change(p, was, is)
             R(k) == Ready(p, was, is, t, far, k)
             clean == t[Orphan(p)] = NoFile
             done == t[File(p)] = Shown(p, is, far) /\ clean
         IN  /\ C = << >> => (R(0) <=> done)
             /\ C = << Rm(p) >> => (R(0) <=> clean) /\ (R(1) <=> done)
             /\ C = << Mk(p), Mv(p), Wr(p, is) >> /\ p \notin Links => R(0) /\ R(1) /\ (R(2) <=> clean) /\ (R(3) <=> done)
             /\ C = << Wr(p, is) >> => (R(0) <=> clean) /\ (R(1) <=> done)
             /\ C = << Ln(p, is) >> => (R(0) <=> clean) /\ (R(1) <=> done)
             /\ C = << Rm(p), Ln(p, is) >> => (R(0) <=> clean) /\ (R(1) <=> clean) /\ (R(2) <=> done)
             /\ C = << Sym(p, is), Mv(p), Attr(p) >> /\ p \in Links =>
                    R(0) /\ (R(1) <=> t[Orphan(p)] \in {NoFile, Shown(p, is, far)}) /\ (R(2) <=> done) /\ (R(3) <=> done)
             /\ C = << Rm(p), Sym(p, is), Mv(p), Attr(p) >> /\ p \in Links =>
                    R(0) /\ R(1) /\ (R(2) <=> t[Orphan(p)] \in {NoFile, Shown(p, is, far)}) /\ (R(3) <=> done) /\ (R(4) <=> done)
<1>1. File(p) # Orphan(p)
  BY NamesAre
<1>2. /\ Mk(p).name = Orphan(p) /\ Mv(p).name = Orphan(p) /\ Wr(p, is).name = File(p) /\ Sym(p, is).name = Orphan(p)
      /\ Ln(p, is).name = File(p) /\ Rm(p).name = File(p) /\ Attr(p).name = File(p)
  BY DEF Mk, Mv, Wr, Data, Sym, Ln, Rm, Attr, Cmd
<1>3. /\ Mk(p).op # "rename" /\ Mv(p).op = "rename" /\ Wr(p, is).op # "rename" /\ Sym(p, is).op # "rename"
      /\ Ln(p, is).op # "rename" /\ Rm(p).op # "rename" /\ Attr(p).op = "attributes"
      /\ \A c \in {Mk(p), Mv(p), Wr(p, is), Sym(p, is), Ln(p, is), Rm(p)} : c.op # "attributes"
  BY DEF Mk, Mv, Wr, Data, Sym, Ln, Rm, Attr, Cmd
<1>4. PICK C : C = Change(p, was, is)
  OBVIOUS
<1> DEFINE R(k) == Ready(p, was, is, t, far, k)
           clean == t[Orphan(p)] = NoFile
           done == t[File(p)] = Shown(p, is, far) /\ clean
           Ahead1(k) == \E l \in (k + 1)..Len(C) : C[l].name = Orphan(p)
<1>5. \A k : R(k) <=> /\ k = Len(C) \/ C[k + 1].op = "attributes" => t[File(p)] = Shown(p, is, far)
                      /\ clean \/ Ahead1(k)
                      /\ k < Len(C) /\ C[k + 1].op = "rename" /\ p \in Links => t[Orphan(p)] \in {NoFile, Shown(p, is, far)}
  BY <1>4 DEF Ready
<1> HIDE DEF R
<1>6. ASSUME C = << >>
      PROVE  R(0) <=> done
  <2>1. Len(C) = 0 /\ ~Ahead1(0)
    BY <1>6
  <2>2. QED
    BY <1>5, <2>1
<1>7. ASSUME \E c : C = << c >> /\ c.name = File(p) /\ c.op \notin {"rename", "attributes"}
      PROVE  (R(0) <=> clean) /\ (R(1) <=> done)
  <2>1. Len(C) = 1 /\ C[1].name = File(p) /\ C[1].op \notin {"rename", "attributes"}
    BY <1>7
  <2>2. ~Ahead1(0) /\ ~Ahead1(1)
    BY <1>1, <2>1
  <2>3. QED
    BY <1>5, <2>1, <2>2
<1>8. ASSUME C = << Rm(p), Ln(p, is) >>
      PROVE  (R(0) <=> clean) /\ (R(1) <=> clean) /\ (R(2) <=> done)
  <2>1. /\ Len(C) = 2 /\ C[1].name = File(p) /\ C[1].op \notin {"rename", "attributes"}
        /\ C[2].name = File(p) /\ C[2].op \notin {"rename", "attributes"}
    BY <1>2, <1>3, <1>8
  <2>2. ~Ahead1(0) /\ ~Ahead1(1) /\ ~Ahead1(2)
    BY <1>1, <2>1
  <2>3. QED
    BY <1>5, <2>1, <2>2
<1>9. ASSUME C = << Mk(p), Mv(p), Wr(p, is) >>, p \notin Links
      PROVE  R(0) /\ R(1) /\ (R(2) <=> clean) /\ (R(3) <=> done)
  <2>1. /\ Len(C) = 3 /\ C[1].name = Orphan(p) /\ C[2].name = Orphan(p) /\ C[3].name = File(p)
        /\ C[1].op # "attributes" /\ C[2].op # "attributes" /\ C[3].op # "attributes"
    BY <1>2, <1>3, <1>9
  <2>2. Ahead1(0) /\ Ahead1(1) /\ ~Ahead1(2) /\ ~Ahead1(3)
    BY <1>1, <2>1
  <2>3. QED
    BY <1>5, <1>9, <2>1, <2>2
<1>10. ASSUME C = << Sym(p, is), Mv(p), Attr(p) >>, p \in Links
      PROVE  R(0) /\ (R(1) <=> t[Orphan(p)] \in {NoFile, Shown(p, is, far)}) /\ (R(2) <=> done) /\ (R(3) <=> done)
  <2>1. /\ Len(C) = 3 /\ C[1].name = Orphan(p) /\ C[2].name = Orphan(p) /\ C[3].name = File(p)
        /\ C[1].op \notin {"rename", "attributes"} /\ C[2].op = "rename" /\ C[3].op = "attributes"
    BY <1>2, <1>3, <1>10
  <2>2. Ahead1(0) /\ Ahead1(1) /\ ~Ahead1(2) /\ ~Ahead1(3)
    BY <1>1, <2>1
  <2>3. QED
    BY <1>5, <1>10, <2>1, <2>2
<1>11. ASSUME C = << Rm(p), Sym(p, is), Mv(p), Attr(p) >>, p \in Links
      PROVE  R(0) /\ R(1) /\ (R(2) <=> t[Orphan(p)] \in {NoFile, Shown(p, is, far)}) /\ (R(3) <=> done) /\ (R(4) <=> done)
  <2>1. /\ Len(C) = 4 /\ C[2].name = Orphan(p) /\ C[3].name = Orphan(p) /\ C[4].name = File(p)
        /\ C[1].op \notin {"rename", "attributes"} /\ C[2].op \notin {"rename", "attributes"}
        /\ C[3].op = "rename" /\ C[4].op = "attributes"
    BY <1>2, <1>3, <1>11
  <2>2. Ahead1(0) /\ Ahead1(1) /\ Ahead1(2) /\ ~Ahead1(3) /\ ~Ahead1(4)
    BY <1>1, <2>1
  <2>3. QED
    BY <1>5, <1>11, <2>1, <2>2
<1>12. QED
  BY <1>2, <1>3, <1>4, <1>6, <1>7, <1>8, <1>9, <1>10, <1>11 DEF R

LEMMA ShownIs ==
  ASSUME NEW p \in Paths, NEW v \in Values \cup {NoFile}, NEW far \in BOOLEAN
  PROVE  /\ p \notin Links \/ v \in Inodes \cup {NoFile} => Shown(p, v, far) = v
         /\ p \in Links /\ v \in Values \ Inodes => Shown(p, v, far) = IF far THEN v ELSE Below(v)
BY StreamsAssumption DEF Shown

LEMMA Progress ==
  ASSUME NEW p \in Paths, NEW was \in Values \cup {NoFile}, NEW is \in Values \cup {NoFile},
         NEW t \in [Names -> Held], NEW far \in BOOLEAN, NEW k \in 1..Len(Change(p, was, is)),
         Ready(p, was, is, t, far, k - 1), Can(t, far, Change(p, was, is)[k])
  PROVE  \A m \in 0..k : Ready(p, was, is, After(t, far, Change(p, was, is)[k]), far, m)
<1>1. PICK C : C = Change(p, was, is)
  OBVIOUS
<1>2. PICK u : u = After(t, far, C[k])
  OBVIOUS
<1>3. is \in Inodes => is \in Values
  BY StreamsAssumption
<1> DEFINE R(k1, t1) == Ready(p, was, is, t1, far, k1)
           clean(t1) == t1[Orphan(p)] = NoFile
           done(t1) == t1[File(p)] = Shown(p, is, far) /\ clean(t1)
           linked(t1) == t1[Orphan(p)] \in {NoFile, Shown(p, is, far)}
<1>4. R(k - 1, t) /\ Can(t, far, C[k]) /\ k \in 1..Len(C)
  BY <1>1
<1> SUFFICES \A m \in 0..k : R(m, u)
  BY <1>1, <1>2
<1>5. /\ C[k] = Rm(p) => u[File(p)] = NoFile /\ u[Orphan(p)] = t[Orphan(p)]
      /\ C[k] = Mv(p) => u[File(p)] = t[Orphan(p)] /\ clean(u) /\ t[Orphan(p)] # NoFile
      /\ C[k] = Wr(p, is) => u[File(p)] = is /\ u[Orphan(p)] = t[Orphan(p)]
      /\ C[k] = Sym(p, is) => u[Orphan(p)] = IF far THEN is ELSE Below(is)
      /\ C[k] = Ln(p, is) => u[File(p)] = is /\ u[Orphan(p)] = t[Orphan(p)]
      /\ C[k] = Attr(p) => u = t
  <2>1. /\ After(t, far, Rm(p))[File(p)] = NoFile /\ After(t, far, Rm(p))[Orphan(p)] = t[Orphan(p)]
        /\ After(t, far, Mv(p))[File(p)] = t[Orphan(p)] /\ After(t, far, Mv(p))[Orphan(p)] = NoFile
        /\ Can(t, far, Mv(p)) => t[Orphan(p)] # NoFile
        /\ After(t, far, Wr(p, is))[File(p)] = is /\ After(t, far, Wr(p, is))[Orphan(p)] = t[Orphan(p)]
        /\ After(t, far, Sym(p, is))[Orphan(p)] = IF far THEN is ELSE Below(is)
        /\ Can(t, far, Ln(p, is)) => /\ After(t, far, Ln(p, is))[File(p)] = is
                                     /\ After(t, far, Ln(p, is))[Orphan(p)] = t[Orphan(p)]
        /\ After(t, far, Attr(p)) = t
    BY Effects
  <2>2. PICK c : c = C[k]
    OBVIOUS
  <2>3. u = After(t, far, c) /\ Can(t, far, c)
    BY <1>2, <1>4, <2>2
  <2>4. QED
    BY <2>1, <2>2, <2>3
<1>6. \A t1 : /\ C = << >> => (R(0, t1) <=> done(t1))
              /\ C = << Rm(p) >> => (R(0, t1) <=> clean(t1)) /\ (R(1, t1) <=> done(t1))
              /\ C = << Mk(p), Mv(p), Wr(p, is) >> /\ p \notin Links =>
                    R(0, t1) /\ R(1, t1) /\ (R(2, t1) <=> clean(t1)) /\ (R(3, t1) <=> done(t1))
              /\ C = << Wr(p, is) >> => (R(0, t1) <=> clean(t1)) /\ (R(1, t1) <=> done(t1))
              /\ C = << Ln(p, is) >> => (R(0, t1) <=> clean(t1)) /\ (R(1, t1) <=> done(t1))
              /\ C = << Rm(p), Ln(p, is) >> =>
                    (R(0, t1) <=> clean(t1)) /\ (R(1, t1) <=> clean(t1)) /\ (R(2, t1) <=> done(t1))
              /\ C = << Sym(p, is), Mv(p), Attr(p) >> /\ p \in Links =>
                    R(0, t1) /\ (R(1, t1) <=> linked(t1)) /\ (R(2, t1) <=> done(t1)) /\ (R(3, t1) <=> done(t1))
              /\ C = << Rm(p), Sym(p, is), Mv(p), Attr(p) >> /\ p \in Links =>
                    R(0, t1) /\ R(1, t1) /\ (R(2, t1) <=> linked(t1)) /\ (R(3, t1) <=> done(t1)) /\ (R(4, t1) <=> done(t1))
  BY <1>1, ReadyIs
<1> HIDE DEF R
<1>7. CASE C = << Rm(p) >> /\ is = NoFile
  <2>1. k = 1 /\ C[k] = Rm(p) /\ Shown(p, is, far) = NoFile
    BY <1>4, <1>7, ShownIs
  <2>2. clean(t)
    BY <1>4, <1>6, <1>7, <2>1
  <2>3. R(0, u) /\ R(1, u)
    BY <1>5, <1>6, <1>7, <2>1, <2>2
  <2>4. \A m \in 0..k : m = 0 \/ m = 1
    BY <2>1
  <2>5. QED
    BY <2>3, <2>4
<1>8. CASE C = << Mk(p), Mv(p), Wr(p, is) >> /\ p \notin Links /\ is \in Values
  <2>1. Shown(p, is, far) = is /\ k \in {1, 2, 3} /\ C[2] = Mv(p) /\ C[3] = Wr(p, is)
    BY <1>4, <1>8, ShownIs
  <2>2. R(0, u) /\ R(1, u)
    BY <1>6, <1>8
  <2>3. k >= 2 => R(2, u)
    <3>1. CASE k = 2
      BY <1>5, <1>6, <1>8, <2>1, <3>1
    <3>2. CASE k = 3
      BY <1>4, <1>5, <1>6, <1>8, <2>1, <3>2
    <3>3. QED
      BY <2>1, <3>1, <3>2
  <2>4. k = 3 => R(3, u)
    BY <1>4, <1>5, <1>6, <1>8, <2>1
  <2>5. \A m \in 0..k : m = 0 \/ m = 1 \/ (m = 2 /\ k >= 2) \/ (m = 3 /\ k = 3)
    BY <2>1
  <2>6. QED
    BY <2>2, <2>3, <2>4, <2>5
<1>9. CASE C = << Wr(p, is) >> /\ p \notin Links /\ is \in Values
  <2>1. k = 1 /\ C[k] = Wr(p, is) /\ Shown(p, is, far) = is
    BY <1>4, <1>9, ShownIs
  <2>2. clean(t)
    BY <1>4, <1>6, <1>9, <2>1
  <2>3. R(0, u) /\ R(1, u)
    BY <1>5, <1>6, <1>9, <2>1, <2>2
  <2>4. \A m \in 0..k : m = 0 \/ m = 1
    BY <2>1
  <2>5. QED
    BY <2>3, <2>4
<1>10. CASE C = << Ln(p, is) >> /\ is \in Inodes
  <2>1. k = 1 /\ C[k] = Ln(p, is) /\ Shown(p, is, far) = is /\ is \in Values
    BY <1>3, <1>4, <1>10, ShownIs
  <2>2. clean(t)
    BY <1>4, <1>6, <1>10, <2>1
  <2>3. R(0, u) /\ R(1, u)
    BY <1>5, <1>6, <1>10, <2>1, <2>2
  <2>4. \A m \in 0..k : m = 0 \/ m = 1
    BY <2>1
  <2>5. QED
    BY <2>3, <2>4
<1>11. CASE C = << Rm(p), Ln(p, is) >> /\ is \in Inodes
  <2>1. k \in {1, 2} /\ C[1] = Rm(p) /\ C[2] = Ln(p, is) /\ Shown(p, is, far) = is /\ is \in Values
    BY <1>3, <1>4, <1>11, ShownIs
  <2>2. clean(t)
    BY <1>4, <1>6, <1>11, <2>1
  <2>3. R(0, u) /\ R(1, u)
    BY <1>5, <1>6, <1>11, <2>1, <2>2
  <2>4. k = 2 => R(2, u)
    BY <1>5, <1>6, <1>11, <2>1, <2>2
  <2>5. \A m \in 0..k : m = 0 \/ m = 1 \/ (m = 2 /\ k = 2)
    BY <2>1
  <2>6. QED
    BY <2>3, <2>4, <2>5
<1>12. CASE C = << Sym(p, is), Mv(p), Attr(p) >> /\ p \in Links /\ is \in Values \ Inodes
  <2>1. /\ k \in {1, 2, 3} /\ C[1] = Sym(p, is) /\ C[2] = Mv(p) /\ C[3] = Attr(p)
        /\ Shown(p, is, far) = IF far THEN is ELSE Below(is)
    BY <1>4, <1>12, ShownIs
  <2>2. R(0, u)
    BY <1>6, <1>12
  <2>3. CASE k = 1
    <3>1. linked(u)
      BY <1>5, <1>12, <2>1, <2>3
    <3>2. \A m \in 0..k : m = 0 \/ m = 1
      BY <2>3
    <3>3. QED
      BY <1>6, <1>12, <2>2, <3>1, <3>2
  <2>4. CASE k \in {2, 3}
    <3>1. k = 2 => linked(t)
      BY <1>4, <1>6, <1>12
    <3>2. k = 3 => done(t)
      BY <1>4, <1>6, <1>12
    <3>3. done(u)
      BY <1>5, <1>12, <2>1, <2>4, <3>1, <3>2
    <3>4. \A m \in 0..k : m = 0 \/ m = 1 \/ m = 2 \/ m = 3
      BY <2>4
    <3>5. QED
      BY <1>6, <1>12, <2>2, <3>3, <3>4
  <2>5. QED
    BY <2>1, <2>3, <2>4
<1>13. CASE C = << Rm(p), Sym(p, is), Mv(p), Attr(p) >> /\ p \in Links /\ is \in Values \ Inodes
  <2>1. /\ k \in {1, 2, 3, 4} /\ C[1] = Rm(p) /\ C[2] = Sym(p, is) /\ C[3] = Mv(p) /\ C[4] = Attr(p)
        /\ Shown(p, is, far) = IF far THEN is ELSE Below(is)
    BY <1>4, <1>13, ShownIs
  <2>2. R(0, u) /\ R(1, u)
    BY <1>6, <1>13
  <2>3. CASE k \in {1, 2}
    <3>1. k = 2 => linked(u)
      BY <1>5, <1>13, <2>1, <2>3
    <3>2. \A m \in 0..k : m = 0 \/ m = 1 \/ (m = 2 /\ k = 2)
      BY <2>3
    <3>3. QED
      BY <1>6, <1>13, <2>2, <3>1, <3>2
  <2>4. CASE k \in {3, 4}
    <3>1. k = 3 => linked(t)
      BY <1>4, <1>6, <1>13
    <3>2. k = 4 => done(t)
      BY <1>4, <1>6, <1>13
    <3>3. done(u)
      BY <1>5, <1>13, <2>1, <2>4, <3>1, <3>2
    <3>4. \A m \in 0..k : m = 0 \/ m = 1 \/ m = 2 \/ m = 3 \/ m = 4
      BY <2>4
    <3>5. QED
      BY <1>6, <1>13, <2>2, <3>3, <3>4
  <2>5. QED
    BY <2>1, <2>3, <2>4
<1>14. C # << >>
  BY <1>4
<1>15. QED
  BY <1>1, <1>7, <1>8, <1>9, <1>10, <1>11, <1>12, <1>13, <1>14, ChangeIs

-----------------------------------------------------------------------------
(* The streams.                                                            *)

LEMMA MiddleTyped ==
  ASSUME NEW from \in Contents, NEW to \in Contents
  PROVE  /\ PathOrder \in Seq(Paths)
         /\ [i \in 1..Len(PathOrder) |-> LET p == PathOrder[i] IN Change(p, from[p], to[p])] \in Seq(Seq(AllCommands))
         /\ Middle(from, to) \in Seq(AllCommands)
<1> DEFINE parts == [i \in 1..Len(PathOrder) |-> LET p == PathOrder[i] IN Change(p, from[p], to[p])]
<1>1. PathOrder \in Seq(Paths)
  BY StreamsAssumption, SetToSeqIs DEF PathOrder
<1>2. ASSUME NEW i \in 1..Len(PathOrder) PROVE parts[i] \in Seq(AllCommands)
  <2>1. PathOrder[i] \in Paths
    BY <1>1
  <2>2. from[PathOrder[i]] \in Values \cup {NoFile} /\ to[PathOrder[i]] \in Values \cup {NoFile}
    BY <2>1 DEF Contents
  <2>3. QED
    BY <2>1, <2>2, ChangeTyped
<1>3. Len(PathOrder) \in Nat
  BY <1>1
<1>4. parts \in Seq(Seq(AllCommands))
  <2> HIDE DEF AllCommands
  <2>1. QED
    BY <1>2, <1>3
<1>5. FlattenSeq(parts) \in Seq(AllCommands)
  <2> HIDE DEF parts
  <2>1. QED
    BY <1>4, FlattenTyped
<1>6. QED
  BY <1>1, <1>4, <1>5 DEF Middle

\* A sequence between two elements.
LEMMA Enclosed ==
  ASSUME NEW S, NEW b \in S, NEW e \in S, NEW M \in Seq(S), NEW w, w = << b >> \o M \o << e >>
  PROVE  /\ w \in Seq(S) /\ Len(w) = Len(M) + 2 /\ Len(M) \in Nat
         /\ w[1] = b /\ w[Len(M) + 2] = e
         /\ \A j \in 1..Len(M) : w[j + 1] = M[j]
<1>1. PICK n \in Nat : n = Len(M)
  OBVIOUS
<1>2. PICK t : t = << b >> \o M
  OBVIOUS
<1>3. t \in Seq(S) /\ Len(t) = n + 1 /\ t[1] = b /\ \A j \in 1..n : t[j + 1] = M[j]
  <2>1. /\ << b >> \o M \in Seq(S) /\ Len(<< b >> \o M) = Len(M) + 1 /\ (<< b >> \o M)[1] = b
        /\ \A i \in 1..Len(M) : (<< b >> \o M)[i + 1] = M[i]
    BY ONLY Preceded, b \in S, M \in Seq(S)
  <2>2. QED
    BY ONLY <1>1, <1>2, <2>1, Zenon
<1>4. PICK s : s = Append(t, e)
  OBVIOUS
<1>5. s \in Seq(S) /\ Len(s) = n + 2 /\ (\A j \in 1..(n + 1) : s[j] = t[j]) /\ s[n + 2] = e
  BY <1>3, <1>4
<1>6. << b >> \o M \o << e >> = s
  <2>1. t \o << e >> = Append(t, e)
    BY ONLY <1>3, e \in S, AppendIsConcat
  <2>2. QED
    BY <1>2, <1>4, <2>1
<1>7. s[1] = b
  BY <1>3, <1>5
<1>8. ASSUME NEW j \in 1..n PROVE s[j + 1] = M[j]
  <2>1. j + 1 \in 1..(n + 1)
    OBVIOUS
  <2>2. QED
    BY <1>3, <1>5, <2>1
<1>9. QED
  BY <1>1, <1>5, <1>6, <1>7, <1>8

\* A stream begins, has its commands, and ends.
IsStream(op, M, s) == /\ Len(M) \in Nat
                      /\ s \in Seq(AllCommands \cup {Begin(op), Begin("end")}) /\ Len(s) = Len(M) + 2
                      /\ s[1] = Begin(op)
                      /\ \A j \in 1..Len(M) : s[j + 1] = M[j] /\ M[j] \in AllCommands
                      /\ s[Len(M) + 2] = Begin("end")

LEMMA StreamIs ==
  ASSUME NEW op, NEW from \in Contents, NEW to \in Contents
  PROVE  IsStream(op, Middle(from, to), Stream(op, from, to))
<1>1. PICK S : S = AllCommands \cup {Begin(op), Begin("end")}
  OBVIOUS
<1>2. PICK M : M = Middle(from, to)
  OBVIOUS
<1>3. M \in Seq(AllCommands) /\ AllCommands \subseteq S
  BY <1>1, <1>2, MiddleTyped
<1>4. M \in Seq(S) /\ \A j \in 1..Len(M) : M[j] \in AllCommands
  <2>1. M \in Seq(S)
    BY <1>3, SeqMonotonic
  <2>2. QED
    BY <1>3, <2>1
<1>5. PICK b \in S, e \in S : b = Begin(op) /\ e = Begin("end")
  BY <1>1
<1>6. PICK s : s = << b >> \o M \o << e >>
  OBVIOUS
<1>7. /\ s \in Seq(S) /\ Len(s) = Len(M) + 2 /\ Len(M) \in Nat
      /\ s[1] = b /\ s[Len(M) + 2] = e
      /\ \A j \in 1..Len(M) : s[j + 1] = M[j]
  <2>1. M \in Seq(S)
    BY <1>4
  <2>2. QED
    BY ONLY Enclosed, b \in S, e \in S, <2>1, <1>6
<1>8. Stream(op, from, to) = s
  BY <1>2, <1>5, <1>6 DEF Stream, Middle
<1>9. IsStream(op, M, s)
  BY <1>1, <1>4, <1>5, <1>7 DEF IsStream
<1>10. QED
  BY <1>2, <1>8, <1>9

\* Every command of a stream has its place in the change of a path.
LEMMA PlaceIs ==
  ASSUME NEW from \in Contents, NEW to \in Contents
  PROVE  Place(from, to) \in [Paths -> 0..Len(Middle(from, to))] /\ IsPlace(from, to, Place(from, to))
<1> DEFINE parts == [i \in 1..Len(PathOrder) |-> LET p == PathOrder[i] IN Change(p, from[p], to[p])]
<1>1. PathOrder \in Seq(Paths) /\ parts \in Seq(Seq(AllCommands))
  BY MiddleTyped
<1>2. PICK n \in Nat : n = Len(PathOrder)
  BY <1>1
<1>3. /\ \A p \in Paths : \E i \in 1..n : PathOrder[i] = p
      /\ \A i, j \in 1..n : PathOrder[i] = PathOrder[j] => i = j
  BY <1>2, StreamsAssumption, SetToSeqIs DEF PathOrder
<1>4. PICK M : M = FlattenSeq(parts)
  OBVIOUS
<1>5. M = Middle(from, to) /\ Len(parts) = n
  BY <1>2, <1>4 DEF Middle
<1>6. PICK cut \in [1..n -> 0..Len(M)] : Cut(M, parts, n, cut)
  <2> HIDE DEF parts
  <2>1. \E cut \in [1..Len(parts) -> 0..Len(FlattenSeq(parts))] : Cut(FlattenSeq(parts), parts, Len(parts), cut)
    BY <1>1, FlattenCut
  <2>2. QED
    BY <1>4, <1>5, <2>1
<1>7. \A i \in 1..n : PathOrder[i] \in Paths /\ parts[i] = Change(PathOrder[i], from[PathOrder[i]], to[PathOrder[i]])
  BY <1>1, <1>2
<1> HIDE DEF parts
<1>8. PICK num \in [Paths -> 1..n] : \A p \in Paths : PathOrder[num[p]] = p
  <2> DEFINE num == [p \in Paths |-> CHOOSE i \in 1..n : PathOrder[i] = p]
  <2>1. num \in [Paths -> 1..n] /\ \A p \in Paths : PathOrder[num[p]] = p
    BY <1>3
  <2>2. QED
    BY <2>1
<1>9. PICK at : at = [p \in Paths |-> cut[num[p]]]
  OBVIOUS
<1>10. at \in [Paths -> 0..Len(M)]
  BY <1>6, <1>8, <1>9
<1>11. ASSUME NEW p \in Paths, NEW k \in 1..Len(Change(p, from[p], to[p]))
       PROVE  at[p] + k \in 1..Len(M) /\ M[at[p] + k] = Change(p, from[p], to[p])[k]
  <2>1. num[p] \in 1..n /\ parts[num[p]] = Change(p, from[p], to[p]) /\ at[p] = cut[num[p]]
    BY <1>7, <1>8, <1>9
  <2>2. k \in 1..Len(parts[num[p]])
    BY <1>11, <2>1
  <2>3. PICK i \in 1..n : i = num[p]
    BY <2>1
  <2>4. cut[i] + k \in 1..Len(M) /\ M[cut[i] + k] = parts[i][k]
    BY <1>6, <2>2, <2>3 DEF Cut
  <2>5. QED
    BY <2>1, <2>3, <2>4
<1>12. ASSUME NEW j \in 1..Len(M)
       PROVE  \E p \in Paths : \E k \in 1..Len(Change(p, from[p], to[p])) : j = at[p] + k
  <2>1. PICK i \in 1..n : \E k \in 1..Len(parts[i]) : j = cut[i] + k
    BY <1>6 DEF Cut
  <2>2. PICK p \in Paths : p = PathOrder[i]
    BY <1>7
  <2>3. num[p] = i
    BY <1>3, <1>8, <2>2
  <2>4. at[p] = cut[i] /\ parts[i] = Change(p, from[p], to[p])
    BY <1>7, <1>9, <2>2, <2>3
  <2>5. QED
    BY <2>1, <2>4
<1>13. IsPlace(from, to, at)
  BY <1>5, <1>11, <1>12 DEF IsPlace
<1>14. QED
  BY <1>5, <1>10, <1>13 DEF Place

-----------------------------------------------------------------------------
(* The way through a stream.                                               *)

LEMMA AfterTyped ==
  ASSUME NEW t \in [Names -> Held], NEW far \in BOOLEAN, NEW c \in AllCommands
  PROVE  After(t, far, c) \in [Names -> Held]
<1>1. PICK p \in Paths : c \in CommandsOn(p)
  BY DEF AllCommands
<1>2. /\ c.name \in Names /\ (c.op = "rename" => c.to \in Names)
      /\ c.op \in {"symlink", "link", "write", "clone"} => c.val \in Values
      /\ c.op \in {"mkfile", "rename", "write", "clone", "symlink", "attributes", "link", "unlink"}
  BY <1>1, NamesAre DEF CommandsOn, Cmd, Mk, Mv, Wr, Data, Sym, Ln, Rm, Attr
<1>3. {Blank, NoFile} \subseteq Held /\ Values \subseteq Held /\ \A v \in Values : Below(v) \in Held
  BY DEF Held
<1> HIDE DEF Names, Held
<1>4. Applied(t, c) \in [Names -> Held]
  <2>1. CASE c.op = "mkfile"
    BY <1>2, <1>3, <2>1 DEF Applied
  <2>2. CASE c.op = "rename"
    BY <1>2, <1>3, <2>2 DEF Applied
  <2>3. CASE c.op = "unlink"
    BY <1>2, <1>3, <2>3 DEF Applied
  <2>4. CASE c.op = "symlink"
    BY <1>2, <1>3, <2>4 DEF Applied
  <2>5. CASE c.op \in {"write", "clone"}
    BY <1>2, <1>3, <2>5 DEF Applied
  <2>6. CASE c.op = "link"
    BY <1>2, <1>3, <2>6 DEF Applied
  <2>7. CASE c.op = "attributes"
    BY <2>7 DEF Applied
  <2>8. QED
    BY <1>2, <2>1, <2>2, <2>3, <2>4, <2>5, <2>6, <2>7
<1>5. RemoteApplied(t, c) \in [Names -> Held]
  <2>1. CASE c.op = "mkfile"
    BY <1>2, <1>3, <2>1 DEF RemoteApplied
  <2>2. CASE c.op = "symlink"
    BY <1>2, <1>3, <2>2 DEF RemoteApplied
  <2>3. CASE c.op \notin {"mkfile", "symlink"}
    BY <1>4, <2>3 DEF RemoteApplied
  <2>4. QED
    BY <2>1, <2>2, <2>3
<1>6. QED
  BY <1>4, <1>5 DEF After

\* Who is further is also as far.
LEMMA ReachedLess ==
  ASSUME NEW from \in Contents, NEW to \in Contents, NEW t, NEW far, NEW n \in Int, Reached(from, to, t, far, n),
         NEW m \in Int, m <= n
  PROVE  Reached(from, to, t, far, m)
<1>1. ASSUME NEW p \in Paths, NEW k \in 1..Len(Change(p, from[p], to[p])), Place(from, to)[p] + k < m
      PROVE  Place(from, to)[p] + k < n
  <2>1. PICK a \in Int : a = Place(from, to)[p] + k
    BY <1>1, PlaceIs
  <2>2. QED
    BY <1>1, <2>1
<1>2. QED
  BY <1>1 DEF Reached

\* What has changed takes a command.
LEMMA ChangeIsSome ==
  ASSUME NEW p \in Paths, NEW was \in Values \cup {NoFile}, NEW is \in Values \cup {NoFile}, was # is
  PROVE  Change(p, was, is) # << >>
<1> DEFINE C == Change(p, was, is)
<1>1. \/ C = << Rm(p) >> \/ C = << Mk(p), Mv(p), Wr(p, is) >> \/ C = << Wr(p, is) >>
      \/ C = << Ln(p, is) >> \/ C = << Rm(p), Ln(p, is) >>
      \/ C = << Sym(p, is), Mv(p), Attr(p) >> \/ C = << Rm(p), Sym(p, is), Mv(p), Attr(p) >>
  BY ChangeIs, Zenon
<1> HIDE DEF C
<1>2. C # << >>
  BY <1>1
<1>3. QED
  BY <1>2 DEF C

\* A directory that holds the one state is at the beginning of the way.
LEMMA ReachedStart ==
  ASSUME NEW from \in Contents, NEW to \in Contents, NEW t, NEW far, Holds(from, t, far)
  PROVE  Reached(from, to, t, far, 1)
<1> SUFFICES ASSUME NEW p \in Paths
             PROVE  /\ Ready(p, from[p], to[p], t, far, 0)
                    /\ \A k \in 1..Len(Change(p, from[p], to[p])) : ~(Place(from, to)[p] + k < 1)
  BY DEF Reached
<1>1. from[p] \in Values \cup {NoFile} /\ to[p] \in Values \cup {NoFile}
  BY DEF Contents
<1>2. t[File(p)] = Shown(p, from[p], far) /\ t[Orphan(p)] = NoFile
  BY DEF Holds
<1>3. Change(p, from[p], to[p]) \in Seq(CommandsOn(p))
  BY <1>1, ChangeTyped
<1>4. Len(Change(p, from[p], to[p])) = 0 => from[p] = to[p]
  <2>1. Len(Change(p, from[p], to[p])) = 0 => Change(p, from[p], to[p]) = << >>
    BY <1>3, EmptySeq
  <2>2. QED
    BY <1>1, <2>1, ChangeIsSome
<1>5. Ready(p, from[p], to[p], t, far, 0)
  <2>1. PICK C : C = Change(p, from[p], to[p])
    OBVIOUS
  <2>2. \A c \in {Mk(p), Wr(p, to[p]), Sym(p, to[p]), Ln(p, to[p]), Rm(p)} : c.op # "attributes"
    BY DEF Mk, Wr, Data, Sym, Ln, Rm, Cmd
  <2>3. C = << >> \/ C[1] \in {Mk(p), Wr(p, to[p]), Sym(p, to[p]), Ln(p, to[p]), Rm(p)}
    BY <1>1, <2>1, ChangeIs
  <2>4. C[1].op = "attributes" => from[p] = to[p]
    BY <1>4, <2>1, <2>2, <2>3
  <2>5. QED
    BY <1>2, <1>4, <2>1, <2>4 DEF Ready
<1>6. Place(from, to)[p] \in Nat
  BY PlaceIs
<1>7. QED
  BY <1>5, <1>6

\* At the end of the way it holds the other.
LEMMA ReachedEnd ==
  ASSUME NEW from \in Contents, NEW to \in Contents, NEW t, NEW far, NEW n \in Nat,
         Reached(from, to, t, far, n), n >= Len(Middle(from, to)) + 1
  PROVE  Holds(to, t, far)
<1> SUFFICES ASSUME NEW p \in Paths
             PROVE  t[File(p)] = Shown(p, to[p], far) /\ t[Orphan(p)] = NoFile
  BY DEF Holds
<1>1. from[p] \in Values \cup {NoFile} /\ to[p] \in Values \cup {NoFile}
  BY DEF Contents
<1>2. PICK l \in Nat : l = Len(Change(p, from[p], to[p]))
  BY <1>1, ChangeTyped
<1>3. Ready(p, from[p], to[p], t, far, l)
  <2>1. CASE l = 0
    BY <2>1 DEF Reached
  <2>2. CASE l # 0
    <3>1. l \in 1..l
      BY <2>2
    <3>2. Place(from, to)[p] + l \in 1..Len(Middle(from, to))
      BY <1>2, <3>1, PlaceIs DEF IsPlace
    <3>3. Len(Middle(from, to)) \in Nat
      BY StreamIs DEF IsStream
    <3>4. Place(from, to)[p] + l < n
      BY <3>2, <3>3
    <3>5. QED
      BY <1>2, <3>1, <3>4 DEF Reached
  <2>3. QED
    BY <2>1, <2>2
<1>4. ~\E i \in (l + 1)..l : TRUE
  OBVIOUS
<1>5. QED
  BY <1>2, <1>3, <1>4 DEF Ready

\* Each command that succeeds is a step on the way.
LEMMA ReachedStep ==
  ASSUME NEW from \in Contents, NEW to \in Contents, NEW t \in [Names -> Held], NEW far \in BOOLEAN,
         NEW n \in 1..Len(Middle(from, to)), Reached(from, to, t, far, n), Can(t, far, Middle(from, to)[n])
  PROVE  Reached(from, to, After(t, far, Middle(from, to)[n]), far, n + 1)
<1>1. Len(Middle(from, to)) \in Nat /\ n \in Nat
  BY StreamIs DEF IsStream
<1>2. PICK p \in Paths : \E k \in 1..Len(Change(p, from[p], to[p])) : n = Place(from, to)[p] + k
  BY PlaceIs DEF IsPlace
<1>3. PICK k \in 1..Len(Change(p, from[p], to[p])) : n = Place(from, to)[p] + k
  BY <1>2
<1>4. PICK c : c = Middle(from, to)[n]
  OBVIOUS
<1>5. PICK u : u = After(t, far, c)
  OBVIOUS
<1>6. c = Change(p, from[p], to[p])[k]
  BY <1>3, <1>4, PlaceIs DEF IsPlace
<1>7. \A q \in Paths : from[q] \in Values \cup {NoFile} /\ to[q] \in Values \cup {NoFile} /\ Place(from, to)[q] \in Nat
  BY PlaceIs DEF Contents
<1>8. \A q \in Paths : Change(q, from[q], to[q]) \in Seq(CommandsOn(q))
  BY <1>7, ChangeTyped
<1>9. k \in Nat /\ k >= 1 /\ Len(Change(p, from[p], to[p])) \in Nat
  BY <1>8
<1>10. Ready(p, from[p], to[p], t, far, k - 1)
  <2>1. CASE k = 1
    BY <2>1 DEF Reached
  <2>2. CASE k # 1
    <3>1. k - 1 \in 1..Len(Change(p, from[p], to[p])) /\ Place(from, to)[p] + (k - 1) < n
      BY <1>3, <1>7, <1>9, <2>2
    <3>2. QED
      BY <3>1 DEF Reached
  <2>3. QED
    BY <2>1, <2>2
<1>11. \A m \in 0..k : Ready(p, from[p], to[p], u, far, m)
  <2>1. from[p] \in Values \cup {NoFile} /\ to[p] \in Values \cup {NoFile} /\ Can(t, far, Change(p, from[p], to[p])[k])
    BY <1>4, <1>6, <1>7
  <2>2. \A m \in 0..k : Ready(p, from[p], to[p], After(t, far, Change(p, from[p], to[p])[k]), far, m)
    BY <1>10, <2>1, Progress
  <2>3. QED
    BY <1>5, <1>6, <2>2
<1>12. c \in CommandsOn(p)
  BY <1>6, <1>8
<1>13. ASSUME NEW q \in Paths
       PROVE  /\ Ready(q, from[q], to[q], u, far, 0)
              /\ \A l \in 1..Len(Change(q, from[q], to[q])) :
                    Place(from, to)[q] + l < n + 1 => Ready(q, from[q], to[q], u, far, l)
  <2>1. CASE q = p
    <3>1. 0 \in 0..k
      BY <1>9
    <3>2. ASSUME NEW l \in 1..Len(Change(p, from[p], to[p])), Place(from, to)[p] + l < n + 1 PROVE l \in 0..k
      BY <1>3, <1>7, <1>9, <3>2
    <3>3. QED
      BY <1>11, <2>1, <3>1, <3>2
  <2>2. CASE q # p
    <3>1. u[File(q)] = t[File(q)] /\ u[Orphan(q)] = t[Orphan(q)] /\ c \notin CommandsOn(q)
      BY <1>5, <1>12, <2>2, Apart
    <3>2. \A l : Ready(q, from[q], to[q], u, far, l) <=> Ready(q, from[q], to[q], t, far, l)
      BY <3>1 DEF Ready
    <3>3. ASSUME NEW l \in 1..Len(Change(q, from[q], to[q])), Place(from, to)[q] + l < n + 1
          PROVE  Place(from, to)[q] + l < n
      <4>1. Change(q, from[q], to[q])[l] \in CommandsOn(q)
        BY <1>8
      <4>2. Middle(from, to)[Place(from, to)[q] + l] = Change(q, from[q], to[q])[l]
        BY PlaceIs DEF IsPlace
      <4>3. PICK a \in Int : a = Place(from, to)[q] + l
        BY <1>7
      <4>4. a # n
        BY <1>4, <3>1, <4>1, <4>2, <4>3
      <4>5. QED
        BY <1>1, <3>3, <4>3, <4>4
    <3>4. QED
      BY <3>2, <3>3 DEF Reached
  <2>3. QED
    BY <2>1, <2>2
<1>14. Reached(from, to, u, far, n + 1)
  BY <1>13 DEF Reached
<1>15. QED
  BY <1>4, <1>5, <1>14
=============================================================================
