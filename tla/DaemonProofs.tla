----------------------------- MODULE DaemonProofs -----------------------------
(***************************************************************************)
(* Theorems about Daemon for every list of configurations that Validate    *)
(* accepts, every number of snapshots, faults and races.                   *)
(***************************************************************************)
EXTENDS Daemon, SequenceTheorems, WellFoundedInduction, TLAPS

Ats == {"waiting", "failed", "ensure", "expire", "sync", "prune"}

Tasks == [round : {0, 1}, sub : plan.subs, mirror : Nat, at : Ats, view : SUBSET Nat]

\* What a function can be doing; only the batch that is waited for has failed ones.
Placed(t) == /\ t.mirror # 0 => t.mirror \in DOMAIN MirrorsOf(t.sub)
             /\ t.at \in {"ensure", "expire"} => t.mirror = 0
             /\ Writing(t) => t.mirror # 0
             /\ t.view \subseteq 1..taken[t.sub]
TasksOK == /\ tasks \subseteq Tasks
           /\ \A t \in tasks : Placed(t) /\ (t.at = "failed" => t \in Batch)

\* A mirror holds snapshots that were taken, in directories that were made and
\* are named after the subvolume.
EntriesOK == \A e \in mirrored : /\ [mirror |-> e.mirror, dir |-> e.dir] \in made
                                 /\ e.sub \in plan.subs /\ e.dir = plan.dir[e.sub]
                                 /\ e.snap \in 1..taken[e.sub]

RunOK == /\ chosen \in DOMAIN Configs
         /\ main \in {"idle", "snapshots", "sync"}
         /\ round \in {0, 1} /\ overlap \in BOOLEAN
         /\ lost \subseteq plan.subs /\ down \subseteq MirrorNames
         /\ faults \in 0..setting.faults /\ races \in 0..setting.races

LocalOK == /\ taken \in [Indices -> 0..MaxSnaps]
           /\ local \in [Indices -> SUBSET Nat]
           /\ \A x \in Indices : local[x] \subseteq 1..taken[x]

CmdOK == /\ cmd.left \subseteq plan.subs \X Nat
         /\ \A s \in cmd.left : s[2] # 0 => s[2] \in DOMAIN MirrorsOf(s[1])
         /\ cmd.at \in {"next", "prune"} /\ cmd.view \subseteq 1..MaxSnaps

Types == RunOK /\ LocalOK /\ TasksOK /\ EntriesOK /\ CmdOK

\* A run that began with nothing left behind is alone: its functions are of one
\* batch, one for each subvolume and mirror, and no snapshot is taken any more
\* once a sync has looked them up.
Alone == ~overlap =>
    /\ \A t \in tasks : t.round = round /\ (main # "idle" => (t.mirror = 0 <=> main = "snapshots"))
    /\ \A t, u \in tasks : /\ t.mirror = 0 <=> u.mirror = 0
                           /\ t.sub = u.sub /\ t.mirror = u.mirror => t = u
    /\ \A t \in tasks : Writing(t) => local[t.sub] \subseteq t.view

\* What is at the source is at the mirror too.
Here(x, k) == local[x] \subseteq Stored(Place(x, k), x)

\* A sync that has come to prune has stored everything, and every mirror
\* is either served or has a function to serve it.
Serving == WellNamed /\ ~overlap =>
    /\ \A t \in tasks : t.at = "prune" => Here(t.sub, t.mirror)
    /\ main = "sync" /\ races = setting.races =>
          \A x \in plan.enabled : \A k \in DOMAIN MirrorsOf(x) :
              Mirror(x, k).disabled \/ Here(x, k) \/ \E t \in tasks : t.sub = x /\ t.mirror = k

\* The inductive invariant.
IInv == Types /\ Alone /\ Serving

-----------------------------------------------------------------------------
(* Numbers.                                                                *)

\* A set of places in a list, or of snapshots, that is not empty has a first and a last.
LEMMA Ends ==
  ASSUME NEW n \in Nat, NEW S \in SUBSET (0..n), S # {}
  PROVE  /\ Min(S) \in S /\ \A y \in S : Min(S) <= y
         /\ Max(S) \in S /\ \A y \in S : Max(S) >= y
<1>1. ASSUME NEW T \in SUBSET Nat, T # {} PROVE \E x \in T : \A y \in T : x <= y
  <2>1. PICK x \in T : \A y \in T : ~(<<y, x>> \in OpToRel(<, Nat))
    BY <1>1, WFMin, NatLessThanWellFounded, Zenon
  <2>2. \A y \in T : ~(y < x)
    BY <2>1 DEF OpToRel
  <2>3. QED
    BY <2>2
<1>2. PICK x \in S : \A y \in S : x <= y
  BY <1>1
<1> DEFINE T == {n - s : s \in S}
<1>3. T \in SUBSET Nat /\ T # {}
  OBVIOUS
<1>4. PICK t \in T : \A u \in T : t <= u
  BY <1>1, <1>3
<1>5. PICK z \in S : t = n - z
  OBVIOUS
<1>6. \A y \in S : z >= y
  BY <1>4, <1>5
<1>7. QED
  BY <1>2, <1>6 DEF Min, Max

\* What holds of 0 and of n+1 when it holds of n holds of every natural: the
\* induction that a set of counterexamples without a least element gives.
LEMMA NatSetInduction ==
  ASSUME NEW P \in SUBSET Nat, 0 \in P, \A n \in P : n + 1 \in P
  PROVE  P = Nat
<1> SUFFICES ASSUME Nat \ P # {} PROVE FALSE
  OBVIOUS
<1>1. PICK m \in Nat \ P : \A y \in Nat \ P : ~(<<y, m>> \in OpToRel(<, Nat))
  BY WFMin, NatLessThanWellFounded, Zenon
<1>2. \A y \in Nat \ P : ~(y < m)
  BY <1>1 DEF OpToRel
<1>3. m - 1 \in P
  BY <1>2
<1>4. QED
  BY <1>3

-----------------------------------------------------------------------------
(* Names and mirrors of a configuration.                                   *)

\* The loops of ResolveMirrors: what is kept of a list, element after element.
Wanted(c, s, n) == Known(c, n) /\ n \notin ToSet(s.excludeMirrors)
Loop(c, s, names, f, n) ==
    f = [k \in 0..n |-> IF k = 0 THEN <<>>
                        ELSE IF Wanted(c, s, names[k]) THEN Append(f[k - 1], names[k])
                        ELSE f[k - 1]]
Kept(c, s, names, r, n) == /\ r \in Seq(STRING)
                           /\ \A i \in DOMAIN r : \E j \in 1..n : r[i] = names[j] /\ Wanted(c, s, names[j])
                           /\ IsUnique(names) => IsUnique(r)

LEMMA LoopDefined ==
  ASSUME NEW c, NEW s, NEW names
  PROVE  \A n \in Nat : \E f : Loop(c, s, names, f, n)
<1> DEFINE P == {n \in Nat : \E f : Loop(c, s, names, f, n)}
<1>1. 0 \in P
  <2>1. Loop(c, s, names, [k \in 0..0 |-> <<>>], 0)
    BY DEF Loop
  <2>2. QED
    BY <2>1
<1>2. ASSUME NEW n \in P PROVE n + 1 \in P
  <2>1. PICK f : Loop(c, s, names, f, n)
    OBVIOUS
  <2> DEFINE g == [k \in 0..(n + 1) |-> IF k <= n THEN f[k]
                                        ELSE IF Wanted(c, s, names[k]) THEN Append(f[k - 1], names[k])
                                        ELSE f[k - 1]]
  <2>2. \A k \in 0..n : f[k] = IF k = 0 THEN <<>>
                               ELSE IF Wanted(c, s, names[k]) THEN Append(f[k - 1], names[k])
                               ELSE f[k - 1]
    BY <2>1 DEF Loop
  <2>3. \A k \in 0..n : g[k] = f[k]
    OBVIOUS
  <2>3a. n \in Nat
    OBVIOUS
  <2>4. \A k \in 0..(n + 1) : k # 0 => k - 1 \in 0..n
    BY <2>3a
  <2>5. \A k \in 0..(n + 1) : g[k] = IF k = 0 THEN <<>>
                                     ELSE IF Wanted(c, s, names[k]) THEN Append(g[k - 1], names[k])
                                     ELSE g[k - 1]
    BY <2>2, <2>3, <2>3a, <2>4
  <2> HIDE DEF g
  <2>6. g = [k \in 0..(n + 1) |-> g[k]]
    BY DEF g
  <2>7. Loop(c, s, names, g, n + 1)
    BY <2>5, <2>6 DEF Loop
  <2>8. QED
    BY <2>3a, <2>7
<1>3. P = Nat
  BY <1>1, <1>2, NatSetInduction
<1>4. QED
  BY <1>3

LEMMA LoopKeeps ==
  ASSUME NEW c, NEW s, NEW names \in Seq(STRING), NEW f, Loop(c, s, names, f, Len(names))
  PROVE  Kept(c, s, names, f[Len(names)], Len(names))
<1> DEFINE P == {n \in Nat : n <= Len(names) => Kept(c, s, names, f[n], n)}
<1>0. Len(names) \in Nat /\ DOMAIN names = 1..Len(names)
  OBVIOUS
<1>1. 0 \in P
  <2>1. f[0] = <<>>
    BY <1>0 DEF Loop
  <2>2. Kept(c, s, names, f[0], 0)
    BY <2>1 DEF Kept, IsUnique
  <2>3. QED
    BY <2>2
<1>2. ASSUME NEW n \in P, n + 1 <= Len(names) PROVE Kept(c, s, names, f[n + 1], n + 1)
  <2>1. Kept(c, s, names, f[n], n) /\ n \in Nat /\ n + 1 \in DOMAIN names /\ names[n + 1] \in STRING
    BY <1>0, <1>2
  <2>2. f[n + 1] = IF Wanted(c, s, names[n + 1]) THEN Append(f[n], names[n + 1]) ELSE f[n]
    <3>1. n + 1 \in 0..Len(names) /\ n + 1 # 0 /\ (n + 1) - 1 = n
      BY <1>0, <1>2, <2>1
    <3>2. f[n + 1] = IF Wanted(c, s, names[n + 1]) THEN Append(f[(n + 1) - 1], names[n + 1]) ELSE f[(n + 1) - 1]
      BY <3>1 DEF Loop
    <3>3. QED
      BY <3>1, <3>2, Zenon
  <2>3. CASE ~Wanted(c, s, names[n + 1])
    <3>1. 1..n \subseteq 1..(n + 1) /\ f[n + 1] = f[n]
      BY <2>1, <2>2, <2>3
    <3>2. QED
      <4>1. \A i \in DOMAIN f[n] : \E j \in 1..(n + 1) : f[n][i] = names[j] /\ Wanted(c, s, names[j])
        BY <2>1, <3>1, Zenon DEF Kept
      <4>2. f[n] \in Seq(STRING) /\ (IsUnique(names) => IsUnique(f[n]))
        BY <2>1, Zenon DEF Kept
      <4>3. Kept(c, s, names, f[n], n + 1)
        BY <4>1, <4>2, Zenon DEF Kept
      <4>4. QED
        BY <3>1, <4>3
  <2>4. CASE Wanted(c, s, names[n + 1])
    <3>1. PICK q, r : q = f[n] /\ r = f[n + 1] /\ r = Append(q, names[n + 1])
      BY <2>2, <2>4
    <3>2. /\ q \in Seq(STRING) /\ r \in Seq(STRING) /\ Len(r) = Len(q) + 1 /\ r[Len(r)] = names[n + 1]
          /\ \A i \in 1..Len(q) : r[i] = q[i]
      BY <2>1, <3>1, AppendProperties DEF Kept
    <3>3. \A i \in DOMAIN r : i = Len(r) \/ (i \in DOMAIN q /\ r[i] = q[i])
      BY <3>2
    <3>4. \A i \in DOMAIN q : \E j \in 1..n : q[i] = names[j] /\ Wanted(c, s, names[j])
      BY <2>1, <3>1 DEF Kept
    <3>5. \A i \in DOMAIN r : \E j \in 1..(n + 1) : r[i] = names[j] /\ Wanted(c, s, names[j])
      <4>1. 1..n \subseteq 1..(n + 1) /\ n + 1 \in 1..(n + 1)
        BY <2>1
      <4>2. \A i \in DOMAIN r : i = Len(r) \/ \E j \in 1..n : r[i] = names[j] /\ Wanted(c, s, names[j])
        BY <3>3, <3>4, Zenon
      <4>3. QED
        BY <2>4, <3>2, <4>1, <4>2, Zenon
    <3>6. ASSUME IsUnique(names) PROVE IsUnique(r)
      <4>1. \A i \in DOMAIN q : q[i] # names[n + 1]
        BY <1>0, <2>1, <3>4, <3>6 DEF IsUnique
      <4>2. IsUnique(q)
        BY <2>1, <3>1, <3>6 DEF Kept
      <4>3. QED
        BY <3>2, <3>3, <4>1, <4>2 DEF IsUnique
    <3>7. QED
      BY <3>1, <3>2, <3>5, <3>6 DEF Kept
  <2>5. QED
    BY <2>3, <2>4
<1>2a. \A n \in P : n + 1 \in P
  BY <1>0, <1>2
<1>3. P = Nat
  <2> HIDE DEF P
  <2>1. P \in SUBSET Nat
    BY DEF P
  <2>2. QED
    BY <1>1, <1>2a, <2>1, NatSetInduction
<1>4. Len(names) \in P
  BY <1>0, <1>3
<1>5. QED
  BY <1>0, <1>4

\* What ResolveMirrors returns: names of mirrors that are known, none of them twice
\* when none was given twice.
LEMMA ResolvedMirrors ==
  ASSUME NEW c, NEW v, NEW s, v.mirrors \in Seq(STRING), s.mirrors \in Seq(STRING)
  PROVE  /\ ResolveMirrors(c, v, s) \in Seq(STRING)
         /\ \A i \in DOMAIN ResolveMirrors(c, v, s) : Known(c, ResolveMirrors(c, v, s)[i])
         /\ IsUnique(v.mirrors \o s.mirrors) => IsUnique(ResolveMirrors(c, v, s))
<1>1. PICK names : names = v.mirrors \o s.mirrors
  OBVIOUS
<1>2. names \in Seq(STRING)
  BY ONLY v.mirrors \in Seq(STRING), s.mirrors \in Seq(STRING), <1>1, ConcatProperties, Zenon
<1>3. ResolveMirrors(c, v, s) = (CHOOSE f : Loop(c, s, names, f, Len(names)))[Len(names)]
  BY <1>1 DEF ResolveMirrors, Loop, Wanted
<1>4. PICK f : Loop(c, s, names, f, Len(names)) /\ ResolveMirrors(c, v, s) = f[Len(names)]
  <2>1. Len(names) \in Nat
    BY <1>2
  <2>2. QED
    BY <1>3, <2>1, LoopDefined
<1>5. Kept(c, s, names, f[Len(names)], Len(names))
  BY <1>2, <1>4, LoopKeeps
<1>6. \A i \in DOMAIN f[Len(names)] : Known(c, f[Len(names)][i])
  BY <1>5, Zenon DEF Kept, Wanted
<1>7. f[Len(names)] \in Seq(STRING) /\ (IsUnique(names) => IsUnique(f[Len(names)]))
  BY <1>5, Zenon DEF Kept
<1>8. QED
  BY <1>1, <1>4, <1>6, <1>7, Zenon

\* What is joined by a dot is x, a dot, and y.
IsJoined(w, x, y) == /\ Len(w) = Len(x) + 1 + Len(y) /\ w[Len(x) + 1] = "."
                     /\ \A i \in 1..Len(x) : w[i] = x[i]
                     /\ \A i \in 1..Len(y) : w[Len(x) + 1 + i] = y[i]

LEMMA Joined ==
  ASSUME NEW S, NEW x \in Seq(S), NEW y \in Seq(S), "." \in S
  PROVE  IsJoined(x \o Dot \o y, x, y)
<1>0. PICK w : w = x \o Dot \o y
  OBVIOUS
<1>1. Dot \in Seq(S) /\ Len(Dot) = 1
  BY DEF Dot
<1>2. Dot[1] = "."
  BY DEF Dot
<1>3. PICK m \in Nat, n \in Nat : m = Len(x) /\ n = Len(y)
  OBVIOUS
<1>4. PICK u : u = x \o Dot
  OBVIOUS
<1>5. u \in Seq(S) /\ Len(u) = Len(x) + Len(Dot)
  BY ONLY <1>1, <1>4, x \in Seq(S), ConcatProperties, Zenon
<1>6. \A i \in 1..Len(x) + Len(Dot) : u[i] = IF i <= Len(x) THEN x[i] ELSE Dot[i - Len(x)]
  BY ONLY <1>1, <1>4, x \in Seq(S), ConcatProperties, Zenon
<1>7. w = u \o y /\ u \in Seq(S)
  BY <1>0, <1>4, <1>5
<1>8. Len(w) = Len(u) + Len(y)
  BY ONLY <1>7, y \in Seq(S), ConcatProperties, Zenon
<1>9. \A i \in 1..Len(u) + Len(y) : w[i] = IF i <= Len(u) THEN u[i] ELSE y[i - Len(u)]
  BY ONLY <1>7, y \in Seq(S), ConcatProperties, Zenon
<1>10. Len(u) = m + 1 /\ Len(w) = m + 1 + n
  BY <1>1, <1>3, <1>5, <1>8
<1>11. \A i \in 1..m + 1 : w[i] = IF i <= m THEN x[i] ELSE Dot[i - m]
  BY ONLY <1>1, <1>3, <1>6, <1>9, <1>10
<1>12. w[m + 1] = "."
  <2>1. m + 1 \in 1..m + 1 /\ ~(m + 1 <= m) /\ (m + 1) - m = 1
    BY <1>3
  <2>2. QED
    BY ONLY <1>2, <1>11, <2>1
<1>13. \A i \in 1..n : w[m + 1 + i] = y[i]
  <2> TAKE i \in 1..n
  <2>1. m + 1 + i \in 1..(m + 1 + n) /\ ~(m + 1 + i <= m + 1) /\ (m + 1 + i) - (m + 1) = i
    BY <1>3
  <2>2. w[m + 1 + i] = y[(m + 1 + i) - (m + 1)]
    BY ONLY <1>3, <1>9, <1>10, <2>1
  <2>3. QED
    BY <2>1, <2>2
<1>14. \A i \in 1..m : w[i] = x[i]
  BY <1>3, <1>11
<1>15. QED
  BY <1>0, <1>3, <1>10, <1>12, <1>13, <1>14 DEF IsJoined

\* What has no dot when it is joined has none in either part.
LEMMA NoDot ==
  ASSUME NEW S, NEW x \in Seq(S), NEW y \in Seq(S), "." \notin ToSet(x \o y)
  PROVE  (\A i \in 1..Len(x) : x[i] # ".") /\ (\A i \in 1..Len(y) : y[i] # ".")
<1>1. PICK m \in Nat, n \in Nat : m = Len(x) /\ n = Len(y)
  OBVIOUS
<1>2. PICK z : z = x \o y
  OBVIOUS
<1>3. z \in Seq(S) /\ Len(z) = Len(x) + Len(y)
  BY ONLY <1>2, x \in Seq(S), y \in Seq(S), ConcatProperties, Zenon
<1>4. \A i \in 1..Len(x) + Len(y) : z[i] = IF i <= Len(x) THEN x[i] ELSE y[i - Len(x)]
  BY ONLY <1>2, x \in Seq(S), y \in Seq(S), ConcatProperties, Zenon
<1>5. DOMAIN z = 1..(m + n)
  BY <1>1, <1>3
<1>6. \A i \in 1..(m + n) : z[i] # "."
  BY <1>2, <1>5 DEF ToSet
<1>7. ASSUME NEW i \in 1..m PROVE x[i] # "."
  <2>1. i \in 1..(m + n) /\ i <= m
    BY <1>1
  <2>2. QED
    BY ONLY <1>1, <1>4, <1>6, <2>1
<1>8. ASSUME NEW i \in 1..n PROVE y[i] # "."
  <2>1. m + i \in 1..(m + n) /\ ~(m + i <= m) /\ (m + i) - m = i
    BY <1>1
  <2>2. z[m + i] = y[(m + i) - m]
    BY ONLY <1>1, <1>4, <2>1
  <2>3. QED
    BY <1>6, <2>1, <2>2
<1>9. QED
  BY <1>1, <1>7, <1>8

\* What is joined by a dot can be taken apart at the dot.
LEMMA DotSplits ==
  ASSUME NEW S, "." \in S, NEW a \in Seq(S), NEW b \in Seq(S), NEW c \in Seq(S), NEW d \in Seq(S),
         "." \notin ToSet(a \o b), "." \notin ToSet(c \o d),
         a \o Dot \o b = c \o Dot \o d
  PROVE  a = c /\ b = d
<1>1. PICK w : w = a \o Dot \o b /\ w = c \o Dot \o d
  OBVIOUS
<1>2. PICK m \in Nat, n \in Nat, j \in Nat, k \in Nat :
         m = Len(a) /\ n = Len(b) /\ j = Len(c) /\ k = Len(d)
  OBVIOUS
<1>3. /\ Len(w) = m + 1 + n /\ w[m + 1] = "."
      /\ \A i \in 1..m : w[i] = a[i]
      /\ \A i \in 1..n : w[m + 1 + i] = b[i]
  <2>1. IsJoined(w, a, b)
    BY <1>1, Joined
  <2>2. QED
    BY <1>2, <2>1 DEF IsJoined
<1>4. /\ Len(w) = j + 1 + k /\ w[j + 1] = "."
      /\ \A i \in 1..j : w[i] = c[i]
      /\ \A i \in 1..k : w[j + 1 + i] = d[i]
  <2>1. IsJoined(w, c, d)
    BY <1>1, Joined
  <2>2. QED
    BY <1>2, <2>1 DEF IsJoined
<1>5. (\A i \in 1..m : a[i] # ".") /\ (\A i \in 1..j : c[i] # ".")
  BY <1>2, NoDot
<1>6. m = j
  <2>1. ASSUME m < j PROVE FALSE
    <3>1. m + 1 \in 1..j
      BY <1>2, <2>1
    <3>2. QED
      BY ONLY <1>3, <1>4, <1>5, <3>1
  <2>2. ASSUME j < m PROVE FALSE
    <3>1. j + 1 \in 1..m
      BY <1>2, <2>2
    <3>2. QED
      BY ONLY <1>3, <1>4, <1>5, <3>1
  <2>3. QED
    BY <1>2, <2>1, <2>2
<1>7. n = k
  BY ONLY <1>2, <1>3, <1>4, <1>6
<1>8. (\A i \in 1..m : a[i] = c[i]) /\ (\A i \in 1..n : b[i] = d[i])
  BY ONLY <1>3, <1>4, <1>6, <1>7
<1>9. a = c
  BY <1>2, <1>6, <1>8, SeqEqual
<1>10. b = d
  BY <1>2, <1>7, <1>8, SeqEqual
<1>11. QED
  BY <1>9, <1>10

-----------------------------------------------------------------------------
(* The plan.                                                               *)

VolOf(c, x)   == c.volumes[x[1]]
SubOf(c, x)   == VolOf(c, x).subvolumes[x[2]]
SubsOf(c)     == {x \in Indices : x[1] \in DOMAIN c.volumes /\ x[2] \in DOMAIN VolOf(c, x).subvolumes}
NamesOf(c, x) == ResolveMirrors(c, VolOf(c, x), SubOf(c, x))

\* What the proofs use of a plan: in a configuration as the documentation has
\* it, no two subvolumes have a directory in common, neither has one the bare
\* name of a subvolume, and a subvolume has no mirror twice.
PlanOK(p) == /\ p.enabled \subseteq p.subs /\ p.subs \subseteq Indices
             /\ \A x \in p.subs : \E n \in Nat : DOMAIN p.mirrors[x] = 1..n /\ Len(p.mirrors[x]) = n
             /\ p.documented =>
                  /\ \A x, y \in p.subs : p.dir[x] = p.dir[y] => x = y
                  /\ \A x, y \in p.subs : p.bare[x] # p.dir[y]
                  /\ \A x \in p.subs : \A k, l \in DOMAIN p.mirrors[x] :
                        p.mirrors[x][k].name = p.mirrors[x][l].name => k = l

LEMMA ResolvedParts ==
  ASSUME NEW c
  PROVE  /\ Resolved(c).subs = {x \in SubsOf(c) : ~VolOf(c, x).disabled}
         /\ Resolved(c).enabled = {x \in SubsOf(c) : ~VolOf(c, x).disabled /\ ~SubOf(c, x).disabled}
         /\ Resolved(c).mirrors = [x \in SubsOf(c) |-> [k \in DOMAIN NamesOf(c, x) |-> GetMirror(c, NamesOf(c, x)[k])]]
         /\ Resolved(c).dir = [x \in SubsOf(c) |-> SnapshotName(VolOf(c, x), SubOf(c, x))]
         /\ Resolved(c).bare = [x \in SubsOf(c) |-> SubvolumeName(SubOf(c, x))]
BY DEF Resolved, SubsOf, VolOf, SubOf, NamesOf

LEMMA ResolvedDocumented ==
  ASSUME NEW c, Resolved(c).documented, NEW x \in SubsOf(c)
  PROVE  /\ "." \notin ToSet(VolumeName(VolOf(c, x)) \o SubvolumeName(SubOf(c, x)))
         /\ SubOf(c, x).snapshotName = Unset
         /\ IsUnique(VolOf(c, x).mirrors \o SubOf(c, x).mirrors)
<1>1. Resolved(c).documented = \A y \in SubsOf(c) :
            /\ "." \notin ToSet(VolumeName(VolOf(c, y)) \o SubvolumeName(SubOf(c, y)))
            /\ SubOf(c, y).snapshotName = Unset
            /\ IsUnique(VolOf(c, y).mirrors \o SubOf(c, y).mirrors)
  BY DEF Resolved, SubsOf, VolOf, SubOf
<1>2. QED
  BY <1>1

\* What IsConfig and Validate say of one subvolume, and of two.
LEMMA NamesTyped ==
  ASSUME NEW c, IsConfig(c), NEW x \in SubsOf(c)
  PROVE  /\ VolumeName(VolOf(c, x)) \in Seq(STRING) /\ SubvolumeName(SubOf(c, x)) \in Seq(STRING)
         /\ VolOf(c, x).mirrors \in Seq(STRING) /\ SubOf(c, x).mirrors \in Seq(STRING)
<1>1. IsVolume(VolOf(c, x))
  BY DEF IsConfig, SubsOf, VolOf
<1>2. IsSubvolume(SubOf(c, x))
  BY <1>1 DEF IsVolume, SubsOf, SubOf
<1>3. QED
  BY <1>1, <1>2 DEF IsVolume, IsSubvolume, VolumeName, SubvolumeName, OrElse

LEMMA NamesUnique ==
  ASSUME NEW c, Validate(c), NEW x \in SubsOf(c), NEW y \in SubsOf(c),
         VolumeName(VolOf(c, x)) = VolumeName(VolOf(c, y)),
         SubvolumeName(SubOf(c, x)) = SubvolumeName(SubOf(c, y))
  PROVE  x = y
<1>1. /\ x = <<x[1], x[2]>> /\ y = <<y[1], y[2]>>
      /\ x[1] \in DOMAIN c.volumes /\ y[1] \in DOMAIN c.volumes
      /\ x[2] \in DOMAIN VolOf(c, x).subvolumes /\ y[2] \in DOMAIN VolOf(c, y).subvolumes
  BY DEF SubsOf, Indices
<1>2. x[1] = y[1]
  <2>1. IsUnique([i \in DOMAIN c.volumes |-> VolumeName(c.volumes[i])])
    BY DEF Validate
  <2>2. QED
    BY <1>1, <2>1 DEF IsUnique, VolOf
<1>3. VolOf(c, x) = VolOf(c, y)
  BY <1>2 DEF VolOf
<1>4. x[2] = y[2]
  <2>1. IsUnique([j \in DOMAIN VolOf(c, x).subvolumes |-> SubvolumeName(VolOf(c, x).subvolumes[j])])
    BY <1>1 DEF Validate, VolOf
  <2>2. QED
    BY <1>1, <1>3, <2>1 DEF IsUnique, SubOf
<1>5. QED
  BY <1>1, <1>2, <1>4

\* A mirror that is known is found under its name.
LEMMA FoundByName ==
  ASSUME NEW c, IsConfig(c), NEW name, Known(c, name)
  PROVE  GetMirror(c, name).name = name
<1> DEFINE I == {i \in 1..Len(c.mirrors) : c.mirrors[i].name = name}
<1>1. c.mirrors \in Seq(ToSet(c.mirrors))
  BY DEF IsConfig
<1>2. DOMAIN c.mirrors = 1..Len(c.mirrors) /\ Len(c.mirrors) \in Nat
  BY <1>1
<1>3. I \in SUBSET (0..Len(c.mirrors)) /\ I # {}
  BY <1>2 DEF Known
<1>4. Min(I) \in I
  BY <1>2, <1>3, Ends
<1>5. SelectInSeq(c.mirrors, LAMBDA m : m.name = name) = Min(I)
  BY <1>3 DEF SelectInSeq
<1>6. QED
  BY <1>4, <1>5 DEF GetMirror

LEMMA ResolvedOK ==
  ASSUME NEW c, IsConfig(c), Validate(c)
  PROVE  PlanOK(Resolved(c))
<1>1. PICK p : p = Resolved(c)
  OBVIOUS
<1>2. /\ p.subs \subseteq SubsOf(c) /\ p.enabled \subseteq p.subs /\ SubsOf(c) \subseteq Indices
      /\ p.mirrors = [x \in SubsOf(c) |-> [k \in DOMAIN NamesOf(c, x) |-> GetMirror(c, NamesOf(c, x)[k])]]
      /\ p.dir = [x \in SubsOf(c) |-> SnapshotName(VolOf(c, x), SubOf(c, x))]
      /\ p.bare = [x \in SubsOf(c) |-> SubvolumeName(SubOf(c, x))]
  BY <1>1, ResolvedParts DEF SubsOf
<1>3. ASSUME NEW x \in SubsOf(c)
      PROVE  /\ NamesOf(c, x) \in Seq(STRING)
             /\ \A i \in DOMAIN NamesOf(c, x) : Known(c, NamesOf(c, x)[i])
             /\ p.documented => IsUnique(NamesOf(c, x))
  <2>1. VolOf(c, x).mirrors \in Seq(STRING) /\ SubOf(c, x).mirrors \in Seq(STRING)
    BY NamesTyped
  <2>2. p.documented => IsUnique(VolOf(c, x).mirrors \o SubOf(c, x).mirrors)
    BY <1>1, ResolvedDocumented
  <2>3. QED
    BY <2>1, <2>2, ResolvedMirrors, Zenon DEF NamesOf
<1>4. ASSUME NEW x \in p.subs
      PROVE  \E n \in Nat : DOMAIN p.mirrors[x] = 1..n /\ Len(p.mirrors[x]) = n
  <2>1. PICK ms, names : ms = p.mirrors[x] /\ names = NamesOf(c, x)
    OBVIOUS
  <2>2. names \in Seq(STRING) /\ ms = [k \in DOMAIN names |-> GetMirror(c, names[k])]
    BY <1>2, <1>3, <2>1
  <2>3. PICK n \in Nat : n = Len(names) /\ DOMAIN names = 1..n
    BY <2>2
  <2>4. DOMAIN ms = 1..n /\ Len(ms) = n
    BY <2>2, <2>3
  <2>5. QED
    BY <2>1, <2>4
<1>5. ASSUME p.documented, NEW x \in p.subs
      PROVE  \A k, l \in DOMAIN p.mirrors[x] : p.mirrors[x][k].name = p.mirrors[x][l].name => k = l
  <2>1. PICK ms, names : ms = p.mirrors[x] /\ names = NamesOf(c, x)
    OBVIOUS
  <2>2. ms = [k \in DOMAIN names |-> GetMirror(c, names[k])] /\ x \in SubsOf(c)
    BY <1>2, <2>1
  <2>3. \A k \in DOMAIN names : ms[k].name = names[k]
    BY <1>3, <2>1, <2>2, FoundByName
  <2>4. IsUnique(names) /\ DOMAIN ms = DOMAIN names
    BY <1>3, <1>5, <2>1, <2>2
  <2>5. QED
    BY <2>1, <2>3, <2>4 DEF IsUnique
<1>6. ASSUME p.documented, NEW x \in p.subs
      PROVE  /\ p.dir[x] = VolumeName(VolOf(c, x)) \o Dot \o SubvolumeName(SubOf(c, x))
             /\ p.bare[x] = SubvolumeName(SubOf(c, x))
             /\ "." \notin ToSet(VolumeName(VolOf(c, x)) \o SubvolumeName(SubOf(c, x)))
             /\ VolumeName(VolOf(c, x)) \in Seq(STRING \cup {"."})
             /\ SubvolumeName(SubOf(c, x)) \in Seq(STRING \cup {"."})
  <2>1. x \in SubsOf(c)
    BY <1>2
  <2>2. SubOf(c, x).snapshotName = Unset
    BY <1>1, <1>6, <2>1, ResolvedDocumented
  <2>3. p.dir[x] = VolumeName(VolOf(c, x)) \o Dot \o SubvolumeName(SubOf(c, x))
    BY <1>2, <2>1, <2>2 DEF SnapshotName, OrElse
  <2>4. VolumeName(VolOf(c, x)) \in Seq(STRING) /\ SubvolumeName(SubOf(c, x)) \in Seq(STRING)
    BY <2>1, NamesTyped
  <2>5. /\ VolumeName(VolOf(c, x)) \in Seq(STRING \cup {"."})
        /\ SubvolumeName(SubOf(c, x)) \in Seq(STRING \cup {"."})
    BY <2>4, SeqMonotonic
  <2>6. QED
    BY <1>1, <1>2, <1>6, <2>1, <2>3, <2>5, ResolvedDocumented
<1>7. ASSUME p.documented, NEW x \in p.subs, NEW y \in p.subs, p.dir[x] = p.dir[y] PROVE x = y
  <2>1. /\ VolumeName(VolOf(c, x)) = VolumeName(VolOf(c, y))
        /\ SubvolumeName(SubOf(c, x)) = SubvolumeName(SubOf(c, y))
    BY <1>6, <1>7, DotSplits
  <2>2. QED
    BY <1>2, <2>1, NamesUnique
<1>8. ASSUME p.documented, NEW x \in p.subs, NEW y \in p.subs PROVE p.bare[x] # p.dir[y]
  <2>1. PICK b, v, s : b = p.bare[x] /\ v = VolumeName(VolOf(c, y)) /\ s = SubvolumeName(SubOf(c, y))
    OBVIOUS
  <2>2. /\ p.dir[y] = v \o Dot \o s
        /\ v \in Seq(STRING \cup {"."}) /\ s \in Seq(STRING \cup {"."})
    BY <1>6, <1>8, <2>1
  <2>3. IsJoined(p.dir[y], v, s)
    BY <2>2, Joined
  <2>4. b \in Seq(STRING \cup {"."}) /\ \A i \in 1..Len(b) : b[i] # "."
    BY <1>6, <1>8, <2>1, NoDot
  <2>5. Len(v) \in Nat /\ Len(s) \in Nat
    BY <2>2
  <2>6. QED
    BY <2>1, <2>3, <2>4, <2>5 DEF IsJoined
<1>9. p.documented => /\ \A x, y \in p.subs : p.dir[x] = p.dir[y] => x = y
                      /\ \A x, y \in p.subs : p.bare[x] # p.dir[y]
                      /\ \A x \in p.subs : \A k, l \in DOMAIN p.mirrors[x] :
                            p.mirrors[x][k].name = p.mirrors[x][l].name => k = l
  BY ONLY <1>5, <1>7, <1>8, Zenon
<1>10. p.subs \subseteq Indices
  BY <1>2
<1>11. PlanOK(p)
  BY ONLY <1>2, <1>4, <1>9, <1>10, Zenon DEF PlanOK
<1>12. QED
  BY <1>1, <1>11

-----------------------------------------------------------------------------
(* The plan does not change while btrsync runs.                            *)

LEMMA PlanFacts ==
  ASSUME RunOK
  PROVE  /\ PlanOK(plan)
         /\ setting.faults \in Nat /\ setting.races \in Nat /\ setting.daemon \in BOOLEAN
BY ConfigsAssumption, ResolvedOK DEF RunOK, plan, Plans, setting

LEMMA ChosenStays == [Next]_vars => chosen' = chosen
BY DEF Next, vars, Begin, AnswerError, AnswerNil, Do, Start, Ensure, Expire, Sync, Prune,
   Cmd, CmdBegin, CmdStep, CmdNew, CmdLocal, CmdMirror, Break, Mend, env

LEMMA PlanStays ==
  ASSUME chosen' = chosen
  PROVE  /\ plan' = plan /\ setting' = setting /\ WellNamed' = WellNamed /\ MirrorNames' = MirrorNames
         /\ \A x : MirrorsOf(x)' = MirrorsOf(x)
         /\ \A x, k : Mirror(x, k)' = Mirror(x, k) /\ Place(x, k)' = Place(x, k)
BY DEF plan, setting, WellNamed, MirrorNames, MirrorsOf, Mirror, Place

\* What there is to do for a subvolume and a mirror.
LEMMA MirrorIndices ==
  ASSUME RunOK
  PROVE  /\ plan.enabled \subseteq plan.subs /\ plan.subs \subseteq Indices
         /\ \A x \in plan.subs : \A k \in DOMAIN MirrorsOf(x) : k \in Nat /\ k # 0 /\ k <= Len(MirrorsOf(x))
BY PlanFacts DEF PlanOK, MirrorsOf

\* Two functions that write to one directory of a mirror serve one subvolume's
\* one mirror.
LEMMA PlacesDiffer ==
  ASSUME RunOK, WellNamed, NEW x \in plan.subs, NEW y \in plan.subs,
         NEW k \in DOMAIN MirrorsOf(x), NEW l \in DOMAIN MirrorsOf(y), Place(x, k) = Place(y, l)
  PROVE  x = y /\ k = l
<1>1. plan.dir[x] = plan.dir[y] /\ Mirror(x, k).name = Mirror(y, l).name
  BY DEF Place
<1>2. plan.documented
  BY DEF WellNamed
<1>3. x = y
  BY <1>1, <1>2, PlanFacts DEF PlanOK
<1>4. QED
  BY <1>1, <1>2, <1>3, PlanFacts DEF PlanOK, Mirror, MirrorsOf

-----------------------------------------------------------------------------
(* How functions go on.                                                    *)

\* A function has ended, or is at another place with what it has looked up.
Gone(t) == tasks' = tasks \ {t}
Turned(t, at, view) ==
    \E u \in Tasks : /\ u.round = t.round /\ u.sub = t.sub /\ u.mirror = t.mirror
                     /\ u.at = at /\ u.view = view
                     /\ tasks' = (tasks \ {t}) \cup {u}

LEMMA TurnIs ==
  ASSUME TasksOK, NEW t \in tasks, NEW at \in Ats
  PROVE  /\ \A view \in SUBSET Nat : Become(t, [t EXCEPT !.at = at, !.view = view]) => Turned(t, at, view)
         /\ Become(t, [t EXCEPT !.at = at]) => Turned(t, at, t.view)
<1>1. t \in Tasks
  BY DEF TasksOK, Tasks
<1>2. ASSUME NEW view \in SUBSET Nat, Become(t, [t EXCEPT !.at = at, !.view = view])
      PROVE  Turned(t, at, view)
  <2>1. PICK u : u = [t EXCEPT !.at = at, !.view = view]
    OBVIOUS
  <2>2. /\ u \in Tasks /\ u.round = t.round /\ u.sub = t.sub /\ u.mirror = t.mirror
        /\ u.at = at /\ u.view = view
    BY <1>1, <2>1 DEF Tasks
  <2>3. QED
    BY <1>2, <2>1, <2>2 DEF Turned, Become
<1>3. ASSUME Become(t, [t EXCEPT !.at = at]) PROVE Turned(t, at, t.view)
  <2>1. PICK u : u = [t EXCEPT !.at = at]
    OBVIOUS
  <2>2. /\ u \in Tasks /\ u.round = t.round /\ u.sub = t.sub /\ u.mirror = t.mirror
        /\ u.at = at /\ u.view = t.view
    BY <1>1, <2>1 DEF Tasks
  <2>3. QED
    BY <1>3, <2>1, <2>2 DEF Turned, Become
<1>4. QED
  BY <1>2, <1>3

LEMMA FailIs ==
  ASSUME TasksOK, NEW t \in tasks, Fail(t)
  PROVE  (t \in Batch /\ Turned(t, "failed", {})) \/ (t \notin Batch /\ Gone(t))
<1>1. "failed" \in Ats /\ {} \in SUBSET Nat
  BY DEF Ats
<1>2. CASE t \in Batch
  BY <1>1, <1>2, TurnIs DEF Fail
<1>3. CASE t \notin Batch
  BY <1>3 DEF Fail, Gone, Finish
<1>4. QED
  BY <1>2, <1>3

\* What is due to each function, of all that can go on.
LEMMA StartIs ==
  ASSUME Types, NEW t \in tasks, Start(t)
  PROVE  /\ UNCHANGED <<env, store, main, round, overlap, races, cmd>>
         /\ t.at = "waiting"
         /\ \/ Gone(t) /\ (Disabled(t) \/ t \notin Batch)
            \/ t \in Batch /\ Turned(t, "failed", {})
            \/ /\ Turned(t, IF InSnapshots(t) THEN "ensure" ELSE "sync", local[t.sub])
               /\ ~Disabled(t)
<1>1. UNCHANGED <<env, store, main, round, overlap, races, cmd>> /\ t.at = "waiting"
  BY DEF Start
<1>2. TasksOK /\ local[t.sub] \in SUBSET Nat
  <2>1. t.sub \in Indices
    BY MirrorIndices DEF Types, TasksOK, Tasks
  <2>2. QED
    BY <2>1 DEF Types, LocalOK
<1>3. CASE Disabled(t)
  BY <1>1, <1>3 DEF Start, Gone, Finish
<1>4. CASE ~Disabled(t) /\ t.sub \in lost
  BY <1>1, <1>2, <1>4, FailIs DEF Start
<1>5. CASE ~Disabled(t) /\ t.sub \notin lost
  <2>1. PICK at : at = IF InSnapshots(t) THEN "ensure" ELSE "sync"
    OBVIOUS
  <2>2. Become(t, [t EXCEPT !.at = at, !.view = local[t.sub]])
    BY <1>5, <2>1 DEF Start
  <2>3. at \in Ats
    BY <2>1 DEF Ats
  <2>4. Turned(t, at, local[t.sub])
    BY <1>2, <2>2, <2>3, TurnIs
  <2>5. QED
    BY <1>1, <1>5, <2>1, <2>4
<1>6. QED
  BY <1>3, <1>4, <1>5

LEMMA EnsureIs ==
  ASSUME Types, NEW t \in tasks, Ensure(t)
  PROVE  /\ UNCHANGED <<env, main, round, overlap, mirrored, made, races, cmd>>
         /\ t.at = "ensure" /\ Turned(t, "expire", t.view)
         /\ \/ UNCHANGED <<taken, local>>
            \/ /\ taken[t.sub] < MaxSnaps
               /\ taken' = [taken EXCEPT ![t.sub] = @ + 1]
               /\ local' = [local EXCEPT ![t.sub] = @ \cup {taken[t.sub] + 1}]
<1>1. "expire" \in Ats /\ TasksOK
  BY DEF Types, Ats
<1>2. QED
  BY <1>1, TurnIs DEF Ensure

LEMMA ExpireIs ==
  ASSUME Types, NEW t \in tasks, Expire(t)
  PROVE  /\ UNCHANGED <<env, main, round, overlap, taken, mirrored, made, races, cmd>>
         /\ t.at = "expire"
         /\ \E gone : local' = [local EXCEPT ![t.sub] = @ \ gone]
         /\ Gone(t) \/ (t \in Batch /\ Turned(t, "failed", {}))
<1>1. TasksOK
  BY DEF Types
<1>2. PICK gone : /\ local' = [local EXCEPT ![t.sub] = @ \ gone]
                  /\ IF gone \subseteq local[t.sub] THEN Finish(t) ELSE Fail(t)
  BY DEF Expire
<1>3. Gone(t) \/ (t \in Batch /\ Turned(t, "failed", {}))
  BY <1>1, <1>2, FailIs DEF Gone, Finish
<1>4. QED
  BY <1>2, <1>3 DEF Expire

Missing(t) == t.view \ Stored(Place(t.sub, t.mirror), t.sub)

LEMMA SyncIs ==
  ASSUME Types, NEW t \in tasks, Sync(t)
  PROVE  /\ UNCHANGED <<env, main, round, overlap, taken, local, races, cmd>>
         /\ t.at = "sync"
         /\ \/ /\ UNCHANGED <<mirrored, made>>
               /\ (Gone(t) /\ t \notin Batch) \/ (t \in Batch /\ Turned(t, "failed", {}))
            \/ /\ Missing(t) = {} /\ Turned(t, "prune", t.view)
               /\ UNCHANGED mirrored /\ made \subseteq made'
            \/ \E s \in Missing(t) :
                  /\ mirrored' = mirrored \cup {Entry(Place(t.sub, t.mirror), t.sub, s)}
                  /\ made' = made \cup {Place(t.sub, t.mirror)}
                  /\ Turned(t, "sync", t.view)
<1>0. UNCHANGED <<env, main, round, overlap, taken, local, races, cmd>> /\ t.at = "sync"
  BY DEF Sync
<1>1. TasksOK /\ "prune" \in Ats /\ "sync" \in Ats
  BY DEF Types, Ats
<1>2. PICK p, missing, m : /\ p = Place(t.sub, t.mirror) /\ missing = Missing(t) /\ m = Mirror(t.sub, t.mirror)
                           /\ missing = t.view \ Stored(p, t.sub)
  BY DEF Missing
<1>3. \/ Fail(t) /\ UNCHANGED <<mirrored, made>>
      \/ /\ mirrored' = mirrored \cup
                  (IF missing = {} THEN {} ELSE {Entry(p, t.sub, Min(missing))})
         /\ made' = IF Manager(m) = "directory" /\ t.view = {} THEN made ELSE made \cup {p}
         /\ Become(t, [t EXCEPT !.at = IF missing = {} THEN "prune" ELSE "sync"])
  BY <1>2 DEF Sync
<1>4. CASE Fail(t) /\ UNCHANGED <<mirrored, made>>
  BY <1>0, <1>1, <1>4, FailIs
<1>5. CASE ~(Fail(t) /\ UNCHANGED <<mirrored, made>>) /\ missing = {}
  <2>1. Become(t, [t EXCEPT !.at = "prune"])
    BY <1>3, <1>5
  <2>2. Turned(t, "prune", t.view)
    BY <1>1, <2>1, TurnIs
  <2>3. mirrored' = mirrored \cup {} /\ made \subseteq made'
    BY <1>3, <1>5
  <2>4. QED
    BY <1>0, <1>2, <1>5, <2>2, <2>3
<1>6. CASE ~(Fail(t) /\ UNCHANGED <<mirrored, made>>) /\ missing # {}
  <2>1. Become(t, [t EXCEPT !.at = "sync"])
    BY <1>3, <1>6
  <2>2. Turned(t, "sync", t.view)
    BY <1>1, <2>1, TurnIs
  <2>3. missing \in SUBSET (0..taken[t.sub]) /\ taken[t.sub] \in Nat /\ missing \subseteq t.view
    <3>1. t.sub \in Indices /\ t.view \subseteq 1..taken[t.sub]
      BY MirrorIndices DEF Types, TasksOK, Tasks, Placed
    <3>2. taken[t.sub] \in 0..MaxSnaps
      BY <3>1 DEF Types, LocalOK
    <3>3. QED
      BY <1>2, <3>1, <3>2
  <2>4. Min(missing) \in missing
    BY <1>6, <2>3, Ends
  <2>5. mirrored' = mirrored \cup {Entry(p, t.sub, Min(missing))} /\ made' = made \cup {p}
    BY <1>3, <1>6, <2>3
  <2>6. QED
    BY <1>0, <1>2, <2>2, <2>4, <2>5
<1>7. QED
  BY <1>4, <1>5, <1>6

LEMMA PruneIs ==
  ASSUME Types, NEW t \in tasks, Prune(t)
  PROVE  LET p == Place(t.sub, t.mirror)
             m == Mirror(t.sub, t.mirror)
         IN  /\ UNCHANGED <<env, main, round, overlap, taken, local, made, races, cmd>>
             /\ t.at = "prune"
             /\ \E some \in SUBSET Stale(m, p, t.sub, t.view) : mirrored' = mirrored \ some
             /\ \/ Gone(t)
                \/ t \in Batch /\ Turned(t, "failed", {})
<1> DEFINE p == Place(t.sub, t.mirror)
           m == Mirror(t.sub, t.mirror)
<1>1. TasksOK
  BY DEF Types
<1>2. \/ Pruned(m, p, t.sub, t.view) /\ Finish(t)
      \/ PrunedPartly(m, p, t.sub, t.view) /\ Fail(t)
  BY DEF Prune
<1>3. \E some \in SUBSET Stale(m, p, t.sub, t.view) : mirrored' = mirrored \ some
  BY <1>2 DEF Pruned, PrunedPartly
<1>4. Gone(t) \/ (t \in Batch /\ Turned(t, "failed", {}))
  BY <1>1, <1>2, FailIs DEF Gone, Finish
<1>5. QED
  BY <1>3, <1>4 DEF Prune

\* `btrsync prune` takes its steps beside the rest.
LEMMA CmdIs ==
  ASSUME Types, NEW x, NEW k, <<x, k>> \in cmd.left, CmdStep(x, k)
  PROVE  /\ UNCHANGED <<env, main, round, tasks, overlap, taken, made, races>>
         /\ local' = local \/ \E gone : local' = [local EXCEPT ![x] = @ \ gone]
         /\ \/ mirrored' = mirrored
            \/ /\ k # 0
               /\ \E some \in SUBSET Stale(Mirror(x, k), CmdPlace(x, k), x, cmd.view) : mirrored' = mirrored \ some
<1> USE DEF env, store
<1>1. CASE CmdNew(x, k)
  BY <1>1 DEF CmdNew
<1>2. CASE CmdLocal(x, k)
  BY <1>2 DEF CmdLocal
<1>3. CASE CmdMirror(x, k)
  BY <1>3 DEF CmdMirror, Pruned, PrunedPartly
<1>4. QED
  BY <1>1, <1>2, <1>3 DEF CmdStep

LEMMA CmdSplit ==
  ASSUME Types, Cmd
  PROVE  CmdBegin \/ \E x \in plan.subs, k \in Nat : <<x, k>> \in cmd.left /\ CmdStep(x, k)
<1>1. ASSUME NEW s \in cmd.left, CmdStep(s[1], s[2])
      PROVE  \E x \in plan.subs, k \in Nat : <<x, k>> \in cmd.left /\ CmdStep(x, k)
  <2>1. s \in plan.subs \X Nat
    BY DEF Types, CmdOK
  <2>2. s[1] \in plan.subs /\ s[2] \in Nat /\ <<s[1], s[2]>> = s
    BY <2>1
  <2>3. QED
    BY <1>1, <2>2
<1>2. QED
  BY <1>1 DEF Cmd

\* What any step does to the snapshots at the source.
LEMMA LocalChange ==
  ASSUME Types, [Next]_vars
  PROVE  \/ UNCHANGED <<taken, local>>
         \/ taken' = taken /\ \E x \in Indices : \E gone : local' = [local EXCEPT ![x] = @ \ gone]
         \/ \E t \in tasks : Ensure(t)
<1> USE DEF store, env
<1>0. plan.subs \subseteq Indices /\ \A t \in tasks : t.sub \in plan.subs
  BY MirrorIndices DEF Types, TasksOK, Tasks
<1>1. CASE UNCHANGED vars
  BY <1>1 DEF vars
<1>2. CASE Begin \/ AnswerError \/ AnswerNil \/ Break \/ Mend \/ CmdBegin
  BY <1>2 DEF Begin, AnswerError, AnswerNil, Break, Mend, CmdBegin
<1>3. ASSUME NEW t \in tasks, Start(t) \/ Sync(t) \/ Prune(t) PROVE UNCHANGED <<taken, local>>
  BY <1>3 DEF Start, Sync, Prune
<1>4. ASSUME NEW t \in tasks, Expire(t)
      PROVE  taken' = taken /\ \E x \in Indices : \E gone : local' = [local EXCEPT ![x] = @ \ gone]
  BY <1>0, <1>4, ExpireIs
<1>5. ASSUME NEW x \in plan.subs, NEW k \in Nat, <<x, k>> \in cmd.left, CmdStep(x, k)
      PROVE  \/ UNCHANGED <<taken, local>>
             \/ taken' = taken /\ \E y \in Indices : \E gone : local' = [local EXCEPT ![y] = @ \ gone]
  BY <1>0, <1>5, CmdIs
<1>6. CASE Cmd
  BY <1>2, <1>5, <1>6, CmdSplit
<1>7. QED
  BY <1>1, <1>2, <1>3, <1>4, <1>6 DEF Next, Do

LEMMA LocalStep ==
  ASSUME Types, [Next]_vars
  PROVE  /\ LocalOK'
         /\ \A x \in Indices : taken[x] <= taken'[x]
         /\ (\A t \in tasks : ~Ensure(t)) => \A x \in Indices : local'[x] \subseteq local[x]
<1>1. LocalOK /\ MaxSnaps \in Nat
  BY MaxSnapsAssumption DEF Types
<1>2. CASE UNCHANGED <<taken, local>>
  BY <1>1, <1>2 DEF LocalOK
<1>3. ASSUME taken' = taken, NEW x \in Indices, NEW gone, local' = [local EXCEPT ![x] = @ \ gone]
      PROVE  LocalOK' /\ \A y \in Indices : local'[y] \subseteq local[y] /\ taken'[y] = taken[y]
  <2>1. \A y \in Indices : local'[y] \subseteq local[y]
    BY <1>1, <1>3 DEF LocalOK
  <2>2. local' \in [Indices -> SUBSET Nat]
    BY <1>1, <1>3, <2>1 DEF LocalOK
  <2>3. QED
    BY <1>1, <1>3, <2>1, <2>2 DEF LocalOK
<1>4. ASSUME NEW t \in tasks, Ensure(t) PROVE LocalOK' /\ \A x \in Indices : taken[x] <= taken'[x]
  <2>1. t.sub \in Indices
    BY MirrorIndices DEF Types, TasksOK, Tasks
  <2>2. CASE UNCHANGED <<taken, local>>
    BY <1>1, <2>2 DEF LocalOK
  <2>3. CASE /\ taken[t.sub] < MaxSnaps
             /\ taken' = [taken EXCEPT ![t.sub] = @ + 1]
             /\ local' = [local EXCEPT ![t.sub] = @ \cup {taken[t.sub] + 1}]
    <3>1. \A x \in Indices : taken[x] \in 0..MaxSnaps /\ local[x] \subseteq 1..taken[x] /\ local[x] \in SUBSET Nat
      BY <1>1 DEF LocalOK
    <3>2. \A x \in Indices : taken'[x] = IF x = t.sub THEN taken[x] + 1 ELSE taken[x]
      BY <1>1, <2>3 DEF LocalOK
    <3>3. \A x \in Indices : local'[x] = IF x = t.sub THEN local[x] \cup {taken[x] + 1} ELSE local[x]
      BY <1>1, <2>3 DEF LocalOK
    <3>4. taken' \in [Indices -> 0..MaxSnaps] /\ \A x \in Indices : taken[x] <= taken'[x]
      BY <1>1, <2>1, <2>3, <3>1, <3>2 DEF LocalOK
    <3>5. local' \in [Indices -> SUBSET Nat]
      BY <1>1, <2>1, <2>3, <3>1, <3>3 DEF LocalOK
    <3>6. \A x \in Indices : local'[x] \subseteq 1..taken'[x]
      <4> TAKE x \in Indices
      <4>1. PICK n \in Nat : n = taken[x] /\ local[x] \subseteq 1..n
        BY <3>1
      <4>2. n + 1 \in 1..(n + 1) /\ 1..n \subseteq 1..(n + 1)
        OBVIOUS
      <4>3. CASE x = t.sub
        <5>1. taken'[x] = n + 1 /\ local'[x] = local[x] \cup {n + 1}
          BY <3>2, <3>3, <4>1, <4>3
        <5>2. QED
          BY ONLY <4>1, <4>2, <5>1
      <4>4. CASE x # t.sub
        BY <3>2, <3>3, <4>1, <4>4
      <4>5. QED
        BY <4>3, <4>4
    <3>7. QED
      BY <3>4, <3>5, <3>6 DEF LocalOK
  <2>4. QED
    BY <1>4, <2>2, <2>3, EnsureIs
<1>5. \A x \in Indices : taken[x] \in Nat
  BY <1>1 DEF LocalOK
<1>6. QED
  BY <1>2, <1>3, <1>4, <1>5, LocalChange

-----------------------------------------------------------------------------
(* Types.                                                                  *)

\* The batch that is waited for.
LEMMA BatchIs ==
  \A t : t \in Batch <=> /\ main # "idle" /\ t \in tasks /\ t.round = round
                         /\ t.mirror = 0 <=> main = "snapshots"
BY DEF Batch, InSnapshots

LEMMA BatchStays ==
  ASSUME UNCHANGED <<main, round>>, NEW t \in Batch, NEW v \in tasks', v.round = t.round, v.mirror = t.mirror
  PROVE  v \in Batch'
BY BatchIs DEF Batch, InSnapshots

LEMMA PlacedStays ==
  ASSUME RunOK, LocalOK, LocalOK', chosen' = chosen, \A x \in Indices : taken[x] <= taken'[x],
         NEW v \in Tasks, Placed(v)
  PROVE  v \in Tasks' /\ Placed(v)'
<1>1. v \in Tasks'
  BY PlanStays DEF Tasks
<1>2. MirrorsOf(v.sub)' = MirrorsOf(v.sub)
  BY PlanStays
<1>3. v.sub \in Indices
  BY MirrorIndices DEF Tasks
<1>4. taken[v.sub] \in Nat /\ taken'[v.sub] \in Nat /\ taken[v.sub] <= taken'[v.sub]
  BY <1>3 DEF LocalOK
<1>5. v.view \subseteq 1..taken'[v.sub]
  BY <1>4 DEF Placed
<1>6. QED
  BY <1>1, <1>2, <1>5 DEF Placed, Writing

LEMMA NewTasks ==
  ASSUME RunOK, round' \in {0, 1}
  PROVE  /\ \A v \in SnapshotTasks : /\ v \in Tasks /\ Placed(v) /\ v.at = "waiting"
                                     /\ v.round = round' /\ v.mirror = 0
         /\ \A v \in SyncTasks : /\ v \in Tasks /\ Placed(v) /\ v.at = "waiting"
                                 /\ v.round = round' /\ v.mirror # 0
<1>1. ASSUME NEW v, NEW x \in plan.subs, NEW k \in Nat, v = Task(x, k), k = 0 \/ k \in DOMAIN MirrorsOf(x)
      PROVE  v \in Tasks /\ Placed(v) /\ v.at = "waiting" /\ v.round = round' /\ v.mirror = k
  BY <1>1 DEF Task, Tasks, Ats, Placed, Writing
<1>2. \A v \in SnapshotTasks : \E x \in plan.subs : v = Task(x, 0)
  BY DEF SnapshotTasks
<1>3. \A v \in SyncTasks : \E x \in plan.enabled : \E k \in DOMAIN MirrorsOf(x) : v = Task(x, k)
  BY DEF SyncTasks
<1>4. ASSUME NEW v \in SnapshotTasks
      PROVE  v \in Tasks /\ Placed(v) /\ v.at = "waiting" /\ v.round = round' /\ v.mirror = 0
  BY <1>1, <1>2
<1>5. ASSUME NEW v \in SyncTasks
      PROVE  v \in Tasks /\ Placed(v) /\ v.at = "waiting" /\ v.round = round' /\ v.mirror # 0
  <2>1. PICK x \in plan.enabled : \E k \in DOMAIN MirrorsOf(x) : v = Task(x, k)
    BY <1>3
  <2>2. PICK k \in DOMAIN MirrorsOf(x) : v = Task(x, k)
    BY <2>1
  <2>3. x \in plan.subs /\ k \in Nat /\ k # 0
    BY MirrorIndices
  <2>4. QED
    BY <1>1, <2>2, <2>3
<1>6. QED
  BY <1>4, <1>5

LEMMA TasksTurn ==
  ASSUME Types, LocalOK', UNCHANGED <<chosen, main, round>>, \A x \in Indices : taken[x] <= taken'[x],
         NEW t \in tasks, NEW at \in Ats, NEW view \in SUBSET Nat,
         \/ Gone(t)
         \/ /\ Turned(t, at, view)
            /\ at \in {"ensure", "expire"} => t.mirror = 0
            /\ at \in {"sync", "prune"} => t.mirror # 0
            /\ view \subseteq 1..taken[t.sub]
            /\ at = "failed" => t \in Batch
  PROVE  TasksOK'
<1>1. RunOK /\ LocalOK /\ TasksOK
  BY DEF Types
<1>2. \A v \in tasks : v \in Tasks' /\ Placed(v)'
  BY <1>1, PlacedStays DEF TasksOK
<1>3. \A v \in tasks \cap tasks' : v.at = "failed" => v \in Batch'
  BY <1>1, BatchStays DEF TasksOK
<1>4. CASE Gone(t)
  <2>1. tasks' \subseteq tasks
    BY <1>4 DEF Gone
  <2>2. QED
    BY <1>2, <1>3, <2>1 DEF TasksOK
<1>5. CASE ~Gone(t)
  <2>1. PICK u \in Tasks : /\ u.round = t.round /\ u.sub = t.sub /\ u.mirror = t.mirror
                           /\ u.at = at /\ u.view = view
                           /\ tasks' = (tasks \ {t}) \cup {u}
    BY <1>5 DEF Turned
  <2>2. Placed(u)
    BY <1>1, <1>5, <2>1 DEF Placed, Writing, TasksOK
  <2>3. u \in Tasks' /\ Placed(u)'
    BY <1>1, <2>2, PlacedStays
  <2>4. u.at = "failed" => u \in Batch'
    BY <1>5, <2>1, BatchStays
  <2>5. \A v \in tasks' : v = u \/ v \in tasks \cap tasks'
    BY <2>1
  <2>6. QED
    BY <1>2, <1>3, <2>3, <2>4, <2>5 DEF TasksOK
<1>6. QED
  BY <1>4, <1>5

LEMMA TasksMain ==
  ASSUME Types, LocalOK', chosen' = chosen, \A x \in Indices : taken[x] <= taken'[x],
         Begin \/ AnswerError \/ AnswerNil
  PROVE  TasksOK' /\ main' \in {"idle", "snapshots", "sync"} /\ round' \in {0, 1}
<1>1. RunOK /\ LocalOK /\ TasksOK
  BY DEF Types
<1>2. main' \in {"idle", "snapshots", "sync"} /\ round' \in {0, 1}
  BY <1>1 DEF Begin, AnswerError, AnswerNil, RunOK
<1>3. \A v \in tasks' : (v \in tasks /\ v.at # "failed") \/ v \in SnapshotTasks \/ v \in SyncTasks
  <2>1. CASE Begin
    BY <1>1, <2>1, BatchIs DEF Begin, TasksOK
  <2>2. CASE AnswerError
    BY <1>1, <2>2 DEF AnswerError
  <2>3. CASE AnswerNil
    BY <1>1, <2>3 DEF AnswerNil, TasksOK
  <2>4. QED
    BY <2>1, <2>2, <2>3
<1>4. ASSUME NEW v \in tasks' PROVE v \in Tasks' /\ Placed(v)' /\ v.at # "failed"
  <2>1. v \in Tasks /\ Placed(v) /\ v.at # "failed"
    BY <1>1, <1>2, <1>3, NewTasks DEF TasksOK
  <2>2. QED
    BY <1>1, <2>1, PlacedStays
<1>5. TasksOK'
  BY <1>4 DEF TasksOK
<1>6. QED
  BY <1>2, <1>5

LEMMA TasksStep ==
  ASSUME Types, [Next]_vars
  PROVE  TasksOK'
<1> USE DEF env, store
<1>0. /\ LocalOK' /\ chosen' = chosen /\ \A x \in Indices : taken[x] <= taken'[x]
      /\ TasksOK /\ LocalOK /\ RunOK
  BY LocalStep, ChosenStays DEF Types
<1>1. CASE UNCHANGED <<main, round, tasks>>
  <2>1. \A v \in tasks : v \in Tasks' /\ Placed(v)'
    BY <1>0, PlacedStays DEF TasksOK
  <2>2. \A v \in tasks' : v.at = "failed" => v \in Batch'
    BY <1>0, <1>1, BatchStays DEF TasksOK
  <2>3. QED
    BY <1>1, <2>1, <2>2 DEF TasksOK
<1>2. CASE Begin \/ AnswerError \/ AnswerNil
  BY <1>0, <1>2, TasksMain
<1>3. ASSUME NEW t \in tasks, Do(t) PROVE TasksOK'
  <2>0. /\ t \in Tasks /\ Placed(t) /\ t.view \in SUBSET Nat /\ t.view \subseteq 1..taken[t.sub]
        /\ local[t.sub] \in SUBSET Nat /\ local[t.sub] \subseteq 1..taken[t.sub]
    BY <1>0, MirrorIndices DEF TasksOK, Tasks, Placed, LocalOK
  <2>1. "failed" \in Ats /\ "ensure" \in Ats /\ "expire" \in Ats /\ "sync" \in Ats /\ "prune" \in Ats
    BY DEF Ats
  <2>2. {} \in SUBSET Nat /\ {} \subseteq 1..taken[t.sub]
    OBVIOUS
  <2>3. CASE Start(t)
    <3>1. \/ Gone(t)
          \/ t \in Batch /\ Turned(t, "failed", {})
          \/ t.mirror = 0 /\ Turned(t, "ensure", local[t.sub])
          \/ t.mirror # 0 /\ Turned(t, "sync", local[t.sub])
      BY <2>3, StartIs DEF InSnapshots
    <3>2. UNCHANGED <<chosen, main, round>>
      BY <2>3, StartIs
    <3>3. QED
      BY <1>0, <2>0, <2>1, <2>2, <3>1, <3>2, TasksTurn
  <2>4. CASE Ensure(t)
    <3>1. UNCHANGED <<chosen, main, round>> /\ t.mirror = 0 /\ Turned(t, "expire", t.view)
      BY <2>0, <2>4, EnsureIs DEF Placed
    <3>2. QED
      BY <1>0, <2>0, <2>1, <3>1, TasksTurn
  <2>5. CASE Expire(t)
    <3>1. UNCHANGED <<chosen, main, round>> /\ (Gone(t) \/ (t \in Batch /\ Turned(t, "failed", {})))
      BY <2>5, ExpireIs
    <3>2. QED
      BY <1>0, <2>0, <2>1, <2>2, <3>1, TasksTurn
  <2>6. CASE Sync(t)
    <3>1. /\ UNCHANGED <<chosen, main, round>> /\ t.mirror # 0
          /\ \/ Gone(t)
             \/ t \in Batch /\ Turned(t, "failed", {})
             \/ Turned(t, "prune", t.view)
             \/ Turned(t, "sync", t.view)
      BY <2>0, <2>6, SyncIs DEF Placed, Writing
    <3>2. QED
      BY <1>0, <2>0, <2>1, <2>2, <3>1, TasksTurn
  <2>7. CASE Prune(t)
    <3>1. UNCHANGED <<chosen, main, round>> /\ (Gone(t) \/ (t \in Batch /\ Turned(t, "failed", {})))
      BY <2>7, PruneIs
    <3>2. QED
      BY <1>0, <2>0, <2>1, <2>2, <3>1, TasksTurn
  <2>8. QED
    BY <1>3, <2>3, <2>4, <2>5, <2>6, <2>7 DEF Do
<1>4. CASE Cmd
  <2>1. CmdBegin => UNCHANGED <<main, round, tasks>>
    BY DEF CmdBegin
  <2>2. UNCHANGED <<main, round, tasks>>
    BY <1>4, <2>1, CmdSplit, CmdIs
  <2>3. QED
    BY <1>1, <2>2
<1>5. CASE Break \/ Mend
  BY <1>1, <1>5 DEF Break, Mend
<1>6. CASE UNCHANGED vars
  BY <1>1, <1>6 DEF vars
<1>7. QED
  BY <1>2, <1>3, <1>4, <1>5, <1>6 DEF Next

LEMMA RunStep ==
  ASSUME Types, [Next]_vars
  PROVE  RunOK'
<1> USE DEF env, store
<1>0. RunOK /\ chosen' = chosen /\ setting' = setting /\ MirrorNames' = MirrorNames /\ plan' = plan
  BY ChosenStays, PlanStays DEF Types
<1>1. setting.races \in Nat /\ setting.faults \in Nat /\ plan.enabled \subseteq plan.subs
  BY <1>0, PlanFacts, MirrorIndices
<1>2. UNCHANGED <<main, round>> \/ (main' \in {"idle", "snapshots", "sync"} /\ round' \in {0, 1})
  BY <1>0 DEF Next, vars, Begin, AnswerError, AnswerNil, Do, Start, Ensure, Expire, Sync, Prune,
     Cmd, CmdBegin, CmdStep, CmdNew, CmdLocal, CmdMirror, Break, Mend, RunOK
<1>3. overlap' = overlap \/ overlap' \in BOOLEAN
  <2>1. CASE Begin
    BY <2>1 DEF Begin
  <2>2. CASE ~Begin
    BY <2>2 DEF Next, vars, AnswerError, AnswerNil, Do, Start, Ensure, Expire, Sync, Prune,
       Cmd, CmdBegin, CmdStep, CmdNew, CmdLocal, CmdMirror, Break, Mend
  <2>3. QED
    BY <2>1, <2>2
<1>4. races' \in 0..setting.races
  <2>1. CASE AnswerNil
    BY <1>0, <1>1, <2>1 DEF AnswerNil, AllQuiet, RunOK
  <2>2. CASE ~AnswerNil
    BY <1>0, <2>2 DEF Next, vars, Begin, AnswerError, Do, Start, Ensure, Expire, Sync, Prune,
       Cmd, CmdBegin, CmdStep, CmdNew, CmdLocal, CmdMirror, Break, Mend, RunOK
  <2>3. QED
    BY <2>1, <2>2
<1>5. lost' \subseteq plan.subs /\ down' \subseteq MirrorNames /\ faults' \in 0..setting.faults
  <2>1. CASE Break
    BY <1>0, <1>1, <2>1 DEF Break, RunOK
  <2>2. CASE Mend
    BY <1>0, <2>2 DEF Mend, RunOK
  <2>3. CASE ~Break /\ ~Mend
    BY <1>0, <2>3 DEF Next, vars, Begin, AnswerError, AnswerNil, Do, Start, Ensure, Expire, Sync, Prune,
       Cmd, CmdBegin, CmdStep, CmdNew, CmdLocal, CmdMirror, RunOK
  <2>4. QED
    BY <2>1, <2>2, <2>3
<1>6. QED
  BY <1>0, <1>2, <1>3, <1>4, <1>5, Zenon DEF RunOK

\* What any step does to the mirrors.
Sends(t, s) == /\ Sync(t) /\ s \in Missing(t)
               /\ mirrored' = mirrored \cup {Entry(Place(t.sub, t.mirror), t.sub, s)}
               /\ made' = made \cup {Place(t.sub, t.mirror)}
               /\ Turned(t, "sync", t.view)

LEMMA MirroredChange ==
  ASSUME Types, [Next]_vars
  PROVE  \/ mirrored' = mirrored /\ made \subseteq made'
         \/ \E t \in tasks : \E s \in Missing(t) : Sends(t, s)
         \/ \E t \in tasks : /\ Prune(t) /\ made' = made
                             /\ \E some \in SUBSET Stale(Mirror(t.sub, t.mirror), Place(t.sub, t.mirror), t.sub, t.view) :
                                   mirrored' = mirrored \ some
         \/ \E x \in plan.subs, k \in Nat :
                /\ <<x, k>> \in cmd.left /\ k # 0 /\ made' = made
                /\ \E some \in SUBSET Stale(Mirror(x, k), CmdPlace(x, k), x, cmd.view) : mirrored' = mirrored \ some
<1> USE DEF env, store
<1>1. CASE UNCHANGED vars
  BY <1>1 DEF vars
<1>2. CASE Begin \/ AnswerError \/ AnswerNil \/ Break \/ Mend \/ CmdBegin
  BY <1>2 DEF Begin, AnswerError, AnswerNil, Break, Mend, CmdBegin
<1>3. ASSUME NEW t \in tasks, Start(t) \/ Ensure(t) \/ Expire(t) PROVE UNCHANGED <<mirrored, made>>
  BY <1>3 DEF Start, Ensure, Expire
<1>4. ASSUME NEW t \in tasks, Sync(t)
      PROVE  (mirrored' = mirrored /\ made \subseteq made') \/ \E s \in Missing(t) : Sends(t, s)
  BY <1>4, SyncIs DEF Sends
<1>5. ASSUME NEW t \in tasks, Prune(t)
      PROVE  /\ made' = made
             /\ \E some \in SUBSET Stale(Mirror(t.sub, t.mirror), Place(t.sub, t.mirror), t.sub, t.view) :
                   mirrored' = mirrored \ some
  BY <1>5, PruneIs
<1>6. ASSUME NEW x \in plan.subs, NEW k \in Nat, <<x, k>> \in cmd.left, CmdStep(x, k)
      PROVE  /\ made' = made
             /\ \/ mirrored' = mirrored
                \/ k # 0 /\ \E some \in SUBSET Stale(Mirror(x, k), CmdPlace(x, k), x, cmd.view) : mirrored' = mirrored \ some
  BY <1>6, CmdIs
<1>7. CASE Cmd
  BY <1>2, <1>6, <1>7, CmdSplit
<1>8. QED
  BY <1>1, <1>2, <1>3, <1>4, <1>5, <1>7 DEF Next, Do

LEMMA EntriesStep ==
  ASSUME Types, [Next]_vars
  PROVE  EntriesOK'
<1>0. /\ EntriesOK /\ TasksOK /\ RunOK /\ LocalOK /\ LocalOK' /\ plan' = plan
      /\ \A x \in Indices : taken[x] <= taken'[x]
  BY LocalStep, ChosenStays, PlanStays DEF Types
<1>1. ASSUME NEW e \in mirrored, made \subseteq made'
      PROVE  /\ [mirror |-> e.mirror, dir |-> e.dir] \in made'
             /\ e.sub \in plan'.subs /\ e.dir = plan'.dir[e.sub] /\ e.snap \in 1..taken'[e.sub]
  <2>1. e.sub \in Indices /\ e.snap \in 1..taken[e.sub]
    BY <1>0, MirrorIndices DEF EntriesOK
  <2>2. taken[e.sub] \in Nat /\ taken'[e.sub] \in Nat /\ taken[e.sub] <= taken'[e.sub]
    BY <1>0, <2>1 DEF LocalOK
  <2>3. e.snap \in 1..taken'[e.sub]
    BY <2>1, <2>2
  <2>4. QED
    BY <1>0, <1>1, <2>3 DEF EntriesOK
<1>2. CASE mirrored' \subseteq mirrored /\ made \subseteq made'
  BY <1>1, <1>2 DEF EntriesOK
<1>3. ASSUME NEW t \in tasks, NEW s \in Missing(t), Sends(t, s) PROVE EntriesOK'
  <2>1. PICK p, e : p = Place(t.sub, t.mirror) /\ e = Entry(p, t.sub, s)
    OBVIOUS
  <2>2. mirrored' = mirrored \cup {e} /\ made' = made \cup {p} /\ taken' = taken
    BY <1>3, <2>1, SyncIs DEF Sends
  <2>3. t.sub \in plan.subs /\ s \in 1..taken[t.sub]
    BY <1>0 DEF Missing, TasksOK, Tasks, Placed
  <2>4. /\ [mirror |-> e.mirror, dir |-> e.dir] = p
        /\ e.sub = t.sub /\ e.dir = plan.dir[t.sub] /\ e.snap = s
    BY <2>1 DEF Entry, Place
  <2>5. /\ [mirror |-> e.mirror, dir |-> e.dir] \in made'
        /\ e.sub \in plan'.subs /\ e.dir = plan'.dir[e.sub] /\ e.snap \in 1..taken'[e.sub]
    BY <1>0, <2>2, <2>3, <2>4
  <2>6. made \subseteq made'
    BY <2>2
  <2>7. QED
    BY <1>1, <2>2, <2>5, <2>6 DEF EntriesOK
<1>4. QED
  BY <1>2, <1>3, MirroredChange

LEMMA CmdOKStep ==
  ASSUME Types, [Next]_vars
  PROVE  CmdOK'
<1>0. /\ CmdOK /\ LocalOK /\ RunOK /\ plan' = plan /\ \A x : MirrorsOf(x)' = MirrorsOf(x)
  BY ChosenStays, PlanStays DEF Types
<1>1. CASE cmd' = cmd
  BY <1>0, <1>1 DEF CmdOK
<1>2. ASSUME NEW left \in SUBSET cmd.left, NEW at \in {"next", "prune"}, NEW view \in SUBSET (1..MaxSnaps),
             Work(left, at, view)
      PROVE  CmdOK'
  BY <1>0, <1>2 DEF Work, CmdOK
<1>3. CASE CmdBegin
  <2>1. \A s \in Steps : s \in plan.subs \X Nat /\ (s[2] # 0 => s[2] \in DOMAIN MirrorsOf(s[1]))
    <3>1. ASSUME NEW x \in plan.enabled, NEW k, k = 0 \/ k \in DOMAIN MirrorsOf(x), NEW s, s = <<x, k>>
          PROVE  s \in plan.subs \X Nat /\ (s[2] # 0 => s[2] \in DOMAIN MirrorsOf(s[1]))
      BY <1>0, <3>1, MirrorIndices
    <3>2. QED
      BY <3>1 DEF Steps
  <2>2. cmd'.left = Steps /\ cmd'.at = "next" /\ cmd'.view = {}
    BY <1>3 DEF CmdBegin, Work
  <2>3. QED
    BY <1>0, <2>1, <2>2 DEF CmdOK
<1>4. ASSUME NEW x \in plan.subs, NEW k \in Nat, <<x, k>> \in cmd.left, CmdStep(x, k) PROVE CmdOK'
  <2>1. local[x] \subseteq 1..MaxSnaps
    <3>1. x \in Indices
      BY <1>0, MirrorIndices
    <3>2. taken[x] \in 0..MaxSnaps /\ local[x] \subseteq 1..taken[x] /\ MaxSnaps \in Nat
      BY <1>0, <3>1, MaxSnapsAssumption DEF LocalOK
    <3>3. QED
      BY <3>2
  <2>2. Stop \/ Step(x, k) \/ Work(cmd.left, "prune", local[x])
    BY <1>4 DEF CmdStep, CmdNew, CmdLocal, CmdMirror
  <2>3. CASE Stop
    BY <1>2, <2>3 DEF Stop
  <2>4. CASE Step(x, k)
    <3>1. cmd.left \ {<<x, k>>} \in SUBSET cmd.left /\ {} \in SUBSET (1..MaxSnaps)
      OBVIOUS
    <3>2. QED
      BY <1>2, <2>4, <3>1 DEF Step
  <2>5. CASE Work(cmd.left, "prune", local[x])
    BY <1>2, <2>1, <2>5
  <2>6. QED
    BY <2>2, <2>3, <2>4, <2>5
<1>5. CASE ~Cmd
  <2>1. cmd' = cmd
    BY <1>5 DEF Next, vars, Begin, AnswerError, AnswerNil, Do, Start, Ensure, Expire, Sync, Prune, Break, Mend
  <2>2. QED
    BY <1>1, <2>1
<1>6. QED
  BY <1>3, <1>4, <1>5, CmdSplit

LEMMA TypesStep == Types /\ [Next]_vars => Types'
BY LocalStep, TasksStep, RunStep, EntriesStep, CmdOKStep DEF Types

-----------------------------------------------------------------------------
(* Initially.                                                              *)

LEMMA InitIInv == Init => IInv
<1> SUFFICES ASSUME Init PROVE IInv
  OBVIOUS
<1>1. chosen \in DOMAIN Configs
  BY DEF Init
<1>2. setting.races \in Nat /\ setting.faults \in Nat
  BY <1>1, ConfigsAssumption DEF setting
<1>3. RunOK
  <2>1. setting.faults \in 0..setting.faults /\ setting.races \in 0..setting.races
    BY <1>2
  <2>2. QED
    BY <1>1, <2>1 DEF Init, RunOK
<1>4. LocalOK
  BY MaxSnapsAssumption DEF Init, LocalOK
<1>5. TasksOK /\ EntriesOK /\ CmdOK
  BY DEF Init, TasksOK, EntriesOK, CmdOK
<1>6. Alone /\ Serving
  BY DEF Init, Alone, Serving
<1>7. QED
  BY <1>3, <1>4, <1>5, <1>6 DEF IInv, Types

-----------------------------------------------------------------------------
(* A run that is alone.                                                    *)

LEMMA DoShrinks ==
  ASSUME Types, NEW t \in tasks, Do(t), ~Ensure(t)
  PROVE  \A x \in Indices : local'[x] \subseteq local[x]
<1> USE DEF store
<1>1. CASE Start(t) \/ Sync(t) \/ Prune(t)
  BY <1>1 DEF Start, Sync, Prune
<1>2. CASE Expire(t)
  <2>1. PICK gone : local' = [local EXCEPT ![t.sub] = @ \ gone]
    BY <1>2, ExpireIs
  <2>2. QED
    BY <2>1 DEF Types, LocalOK
<1>3. QED
  BY <1>1, <1>2 DEF Do

LEMMA AloneTurn ==
  ASSUME Types, Alone, UNCHANGED <<overlap, main, round>>,
         NEW t \in tasks, NEW at, NEW view,
         \/ Gone(t) /\ \A x \in Indices : local'[x] \subseteq local[x]
         \/ /\ Turned(t, at, view)
            /\ \/ t.mirror = 0 /\ at \notin {"sync", "prune"}
               \/ /\ \A x \in Indices : local'[x] \subseteq local[x]
                  /\ at \in {"sync", "prune"} => local[t.sub] \subseteq view
  PROVE  Alone'
<1> SUFFICES ASSUME ~overlap PROVE Alone'
  BY DEF Alone
<1>0. /\ \A v \in tasks : /\ v.sub \in Indices
                          /\ Writing(v) => v.mirror # 0
                          /\ v.round = round /\ (main # "idle" => (v.mirror = 0 <=> main = "snapshots"))
                          /\ Writing(v) => local[v.sub] \subseteq v.view
      /\ \A v, w \in tasks : /\ v.mirror = 0 <=> w.mirror = 0
                             /\ v.sub = w.sub /\ v.mirror = w.mirror => v = w
  BY MirrorIndices DEF Types, TasksOK, Tasks, Placed, Alone
<1>1. CASE Gone(t) /\ \A x \in Indices : local'[x] \subseteq local[x]
  <2>1. tasks' \subseteq tasks
    BY <1>1 DEF Gone
  <2>2. \A v \in tasks : Writing(v) => local'[v.sub] \subseteq v.view
    BY <1>0, <1>1
  <2>3. QED
    BY <1>0, <2>1, <2>2 DEF Alone, Writing
<1>2. CASE Turned(t, at, view) /\ ~(Gone(t) /\ \A x \in Indices : local'[x] \subseteq local[x])
  <2>1. PICK u : /\ u.round = t.round /\ u.sub = t.sub /\ u.mirror = t.mirror
                 /\ u.at = at /\ u.view = view
                 /\ tasks' = (tasks \ {t}) \cup {u}
    BY <1>2 DEF Turned
  <2>2. \A v \in tasks' : v = u \/ (v \in tasks /\ v # t)
    BY <2>1
  <2>3. \A v \in tasks' : v.round = round /\ (main # "idle" => (v.mirror = 0 <=> main = "snapshots"))
    BY <1>0, <2>1, <2>2
  <2>4. \A v, w \in tasks' : (v.mirror = 0 <=> w.mirror = 0) /\ (v.sub = w.sub /\ v.mirror = w.mirror => v = w)
    BY <1>0, <2>1, <2>2
  <2>5. \A v \in tasks' : Writing(v) => local'[v.sub] \subseteq v.view
    <3>1. CASE t.mirror = 0 /\ at \notin {"sync", "prune"}
      BY <1>0, <2>1, <2>2, <3>1 DEF Writing
    <3>2. CASE ~(t.mirror = 0 /\ at \notin {"sync", "prune"})
      BY <1>0, <1>2, <2>1, <2>2, <3>2 DEF Writing
    <3>3. QED
      BY <3>1, <3>2
  <2>6. QED
    BY <2>3, <2>4, <2>5 DEF Alone, Writing
<1>3. QED
  BY <1>1, <1>2

LEMMA AloneMain ==
  ASSUME Types, Alone, Begin \/ AnswerError \/ AnswerNil
  PROVE  Alone'
<1> USE DEF store, env
<1>0. round \in {0, 1} /\ RunOK
  BY DEF Types, RunOK
<1>1. CASE Begin
  <2> SUFFICES ASSUME tasks = {} PROVE Alone'
    BY <1>1 DEF Begin, Alone
  <2>1. tasks' = SnapshotTasks /\ main' = "snapshots" /\ round' \in {0, 1}
    BY <1>1 DEF Begin
  <2>2. \A v \in tasks' : v.round = round' /\ v.mirror = 0 /\ v.at = "waiting"
    BY <1>0, <2>1, NewTasks
  <2>3. \A v, w \in tasks' : v.sub = w.sub /\ v.mirror = w.mirror => v = w
    BY <2>1 DEF SnapshotTasks, Task
  <2>4. QED
    BY <2>1, <2>2, <2>3 DEF Alone, Writing
<1>2. CASE tasks' \subseteq tasks /\ main' = "idle" /\ UNCHANGED <<overlap, round, local>>
  BY <1>2 DEF Alone, Writing
<1>3. CASE AnswerNil /\ main = "snapshots"
  <2> SUFFICES ASSUME ~overlap PROVE Alone'
    BY <1>3 DEF AnswerNil, Alone
  <2>1. tasks \subseteq Batch
    BY <1>3, BatchIs DEF Alone
  <2>2. tasks' = SyncTasks /\ main' = "sync" /\ round' = round
    BY <1>3, <2>1 DEF AnswerNil
  <2>3. \A v \in tasks' : v.round = round' /\ v.mirror # 0 /\ v.at = "waiting"
    BY <1>0, <2>2, NewTasks
  <2>4. \A v, w \in tasks' : v.sub = w.sub /\ v.mirror = w.mirror => v = w
    BY <2>2 DEF SyncTasks, Task
  <2>5. QED
    BY <2>2, <2>3, <2>4 DEF Alone, Writing
<1>4. AnswerError \/ (AnswerNil /\ main # "snapshots")
         => tasks' \subseteq tasks /\ main' = "idle" /\ UNCHANGED <<overlap, round, local>>
  BY DEF AnswerError, AnswerNil
<1>5. QED
  BY <1>1, <1>2, <1>3, <1>4

LEMMA AloneStep == Types /\ Alone /\ [Next]_vars => Alone'
<1> SUFFICES ASSUME Types, Alone, [Next]_vars PROVE Alone'
  OBVIOUS
<1> USE DEF store, env
<1>1. CASE Begin \/ AnswerError \/ AnswerNil
  BY <1>1, AloneMain
<1>2. CASE UNCHANGED <<main, round, tasks, overlap>> /\ \A x \in Indices : local'[x] \subseteq local[x]
  <2>1. \A v \in tasks : v.sub \in Indices
    BY MirrorIndices DEF Types, TasksOK, Tasks
  <2>2. QED
    BY <1>2, <2>1 DEF Alone, Writing
<1>3. ASSUME NEW t \in tasks, Do(t) PROVE Alone'
  <2>0. (t.at \in {"ensure", "expire"} => t.mirror = 0) /\ t.sub \in Indices
    BY MirrorIndices DEF Types, TasksOK, Placed, Tasks
  <2>1. ~Ensure(t) => \A x \in Indices : local'[x] \subseteq local[x]
    BY <1>3, DoShrinks
  <2>2. CASE overlap
    BY <2>2, <1>3 DEF Alone, Do, Start, Ensure, Expire, Sync, Prune
  <2>3. CASE Start(t) /\ ~Ensure(t)
    <3>1. \/ Gone(t)
          \/ Turned(t, "failed", {})
          \/ t.mirror = 0 /\ Turned(t, "ensure", local[t.sub])
          \/ Turned(t, "sync", local[t.sub])
      BY <2>3, StartIs DEF InSnapshots
    <3>2. UNCHANGED <<overlap, main, round>>
      BY <2>3, StartIs
    <3>3. QED
      BY <2>1, <2>3, <3>1, <3>2, AloneTurn
  <2>4. CASE Ensure(t)
    <3>1. UNCHANGED <<overlap, main, round>> /\ t.mirror = 0 /\ Turned(t, "expire", t.view)
      BY <2>0, <2>4, EnsureIs
    <3>2. QED
      BY <3>1, AloneTurn
  <2>5. CASE (Expire(t) \/ Prune(t)) /\ ~Ensure(t)
    <3>1. UNCHANGED <<overlap, main, round>> /\ (Gone(t) \/ Turned(t, "failed", {}))
      BY <2>5, ExpireIs, PruneIs
    <3>2. QED
      BY <2>1, <2>5, <3>1, AloneTurn
  <2>6. CASE Sync(t) /\ ~overlap /\ ~Ensure(t)
    <3>1. /\ UNCHANGED <<overlap, main, round>>
          /\ Gone(t) \/ Turned(t, "failed", {}) \/ Turned(t, "prune", t.view) \/ Turned(t, "sync", t.view)
      BY <2>6, SyncIs
    <3>2. local[t.sub] \subseteq t.view
      BY <2>6 DEF Alone, Writing, Sync
    <3>3. QED
      BY <2>1, <2>6, <3>1, <3>2, AloneTurn
  <2>7. QED
    BY <1>3, <2>2, <2>3, <2>4, <2>5, <2>6 DEF Do
<1>4. CASE Cmd
  <2>1. CASE CmdBegin
    BY <1>2, <2>1 DEF CmdBegin
  <2>2. ASSUME NEW x \in plan.subs, NEW k \in Nat, <<x, k>> \in cmd.left, CmdStep(x, k) PROVE Alone'
    <3>1. UNCHANGED <<main, round, tasks, overlap>>
      BY <2>2, CmdIs
    <3>2. local' = local \/ \E gone : local' = [local EXCEPT ![x] = @ \ gone]
      BY <2>2, CmdIs
    <3>3. \A y \in Indices : local'[y] \subseteq local[y]
      BY <3>2 DEF Types, LocalOK
    <3>4. QED
      BY <1>2, <3>1, <3>3
  <2>3. QED
    BY <1>4, <2>1, <2>2, CmdSplit
<1>5. CASE Break \/ Mend \/ UNCHANGED vars
  BY <1>2, <1>5 DEF Break, Mend, vars
<1>6. QED
  BY <1>1, <1>3, <1>4, <1>5 DEF Next

-----------------------------------------------------------------------------
(* What leaves a mirror, and what stays.                                   *)

LEMMA GoneAreExpired ==
  ASSUME Types, Alone, [Next]_vars, WellNamed, ~overlap
  PROVE  \A e \in mirrored \ mirrored' : e.snap \notin local[e.sub]
<1>0. RunOK /\ TasksOK /\ EntriesOK /\ CmdOK
  BY DEF Types
<1>1. /\ \A x, y \in plan.subs : plan.dir[x] = plan.dir[y] => x = y
      /\ \A x, y \in plan.subs : plan.bare[x] # plan.dir[y]
  BY <1>0, PlanFacts DEF PlanOK, WellNamed
<1>2. ASSUME NEW m, NEW p, NEW x \in plan.subs, NEW view, NEW e \in Stale(m, p, x, view)
      PROVE  /\ e.dir = p.dir /\ e.sub \in plan.subs /\ e.dir = plan.dir[e.sub]
             /\ e.sub # x \/ e.snap \notin view
  BY <1>0, <1>2 DEF Stale, At, EntriesOK
<1>3. ASSUME NEW t \in tasks, Prune(t),
             NEW e \in Stale(Mirror(t.sub, t.mirror), Place(t.sub, t.mirror), t.sub, t.view)
      PROVE  e.snap \notin local[e.sub]
  <2>1. t.sub \in plan.subs
    BY <1>0 DEF TasksOK, Tasks
  <2>2. Place(t.sub, t.mirror).dir = plan.dir[t.sub]
    BY DEF Place
  <2>3. e.sub = t.sub /\ e.snap \notin t.view
    BY <1>1, <1>2, <2>1, <2>2
  <2>4. local[t.sub] \subseteq t.view
    BY <1>3 DEF Prune, Writing, Alone
  <2>5. QED
    BY <2>3, <2>4
<1>4. ASSUME NEW x \in plan.subs, NEW k, NEW e \in Stale(Mirror(x, k), CmdPlace(x, k), x, cmd.view)
      PROVE  FALSE
  <2>1. CmdPlace(x, k).dir = plan.bare[x]
    BY DEF CmdPlace
  <2>2. QED
    BY <1>1, <1>2, <2>1
<1>5. QED
  BY <1>3, <1>4, MirroredChange DEF Sends

LEMMA HereStays ==
  ASSUME Types, Alone, [Next]_vars, WellNamed, ~overlap,
         NEW x \in Indices, NEW k, local'[x] \subseteq local[x], Here(x, k)
  PROVE  Here(x, k)'
<1>1. Place(x, k)' = Place(x, k)
  BY ChosenStays, PlanStays
<1>2. ASSUME NEW n \in local'[x] PROVE n \in Stored(Place(x, k), x)'
  <2>1. n \in Stored(Place(x, k), x)
    BY <1>2 DEF Here
  <2>2. PICK e \in At(Place(x, k)) : e.sub = x /\ e.snap = n
    BY <2>1 DEF Stored
  <2>3. e \in mirrored'
    BY <1>2, <2>2, GoneAreExpired DEF At
  <2>4. e \in At(Place(x, k))'
    BY <1>1, <2>2, <2>3 DEF At
  <2>5. QED
    BY <2>2, <2>4 DEF Stored
<1>3. QED
  BY <1>2 DEF Here

\* The end of a sync: all that it looked up is stored, and nothing was taken since.
LEMMA SyncedIsHere ==
  ASSUME Types, Alone, [Next]_vars, WellNamed, ~overlap,
         NEW t \in tasks, Sync(t), Missing(t) = {}
  PROVE  Here(t.sub, t.mirror)'
<1>1. local[t.sub] \subseteq t.view
  BY DEF Alone, Writing, Sync
<1>2. Here(t.sub, t.mirror)
  BY <1>1 DEF Here, Missing
<1>3. t.sub \in Indices /\ local' = local
  BY SyncIs, MirrorIndices DEF Types, TasksOK, Tasks
<1>4. QED
  BY <1>2, <1>3, HereStays

\* No snapshot is taken beside a sync.
LEMMA SyncsShrink ==
  ASSUME Types, Alone, [Next]_vars, ~overlap, main = "sync" \/ \E t \in tasks : Writing(t)
  PROVE  \A x \in Indices : local'[x] \subseteq local[x]
<1>1. ASSUME NEW t \in tasks, Ensure(t) PROVE FALSE
  <2>1. t.mirror = 0
    BY <1>1 DEF Ensure, Types, TasksOK, Placed
  <2>2. main # "sync"
    BY <2>1 DEF Alone
  <2>3. \A u \in tasks : ~Writing(u)
    BY <2>1 DEF Alone, Types, TasksOK, Placed
  <2>4. QED
    BY <2>2, <2>3
<1>2. QED
  BY <1>1, LocalStep

\* How a function comes to prune, and how it ends.
LEMMA DoTurns ==
  ASSUME Types, NEW t \in tasks, Do(t)
  PROVE  /\ UNCHANGED <<chosen, main, round, overlap, races>>
         /\ \/ Gone(t) /\ (t \notin Batch \/ Disabled(t) \/ t.mirror = 0 \/ t.at = "prune")
            \/ \E at, view : /\ Turned(t, at, view)
                             /\ at = "prune" => Sync(t) /\ Missing(t) = {}
<1> USE DEF env, store
<1>1. CASE Start(t)
  <2>1. CASE Gone(t) /\ (Disabled(t) \/ t \notin Batch)
    BY <1>1, <2>1, StartIs
  <2>2. CASE Turned(t, "failed", {})
    BY <1>1, <2>2, StartIs
  <2>3. CASE Turned(t, IF InSnapshots(t) THEN "ensure" ELSE "sync", local[t.sub])
    <3>1. (IF InSnapshots(t) THEN "ensure" ELSE "sync") # "prune"
      OBVIOUS
    <3>2. QED
      BY <1>1, <2>3, <3>1, StartIs
  <2>4. QED
    BY <1>1, <2>1, <2>2, <2>3, StartIs
<1>2. CASE Ensure(t)
  BY <1>2, EnsureIs
<1>3. CASE Expire(t)
  <2>1. t.mirror = 0
    BY <1>3 DEF Expire, Types, TasksOK, Placed
  <2>2. QED
    BY <1>3, <2>1, ExpireIs
<1>4. CASE Sync(t)
  BY <1>4, SyncIs
<1>5. CASE Prune(t)
  <2>1. UNCHANGED <<chosen, main, round, overlap, races>> /\ t.at = "prune"
    BY <1>5, PruneIs
  <2>2. Gone(t) \/ Turned(t, "failed", {})
    BY <1>5, PruneIs
  <2>3. QED
    BY <2>1, <2>2
<1>6. QED
  BY <1>1, <1>2, <1>3, <1>4, <1>5 DEF Do

\* Steps that are no function's.
LEMMA OtherSteps ==
  ASSUME Types, [Next]_vars
  PROVE  \/ Begin \/ AnswerError \/ AnswerNil
         \/ \E t \in tasks : Do(t)
         \/ UNCHANGED <<main, round, tasks, overlap, races>>
<1> USE DEF env, store
<1>1. CASE Cmd
  <2>1. CmdBegin => UNCHANGED <<main, round, tasks, overlap, races>>
    BY DEF CmdBegin
  <2>2. QED
    BY <1>1, <2>1, CmdSplit, CmdIs
<1>2. CASE Break \/ Mend \/ UNCHANGED vars
  BY <1>2 DEF Break, Mend, vars
<1>3. QED
  BY <1>1, <1>2 DEF Next

LEMMA PruningStep ==
  ASSUME Types, Alone, Serving, [Next]_vars, WellNamed, ~overlap', NEW v \in tasks', v.at = "prune"
  PROVE  Here(v.sub, v.mirror)'
<1> USE DEF env, store
<1>0. round \in {0, 1} /\ RunOK
  BY DEF Types, RunOK
<1>1. CASE Begin
  <2>1. tasks' = SnapshotTasks /\ round' \in {0, 1}
    BY <1>1 DEF Begin
  <2>2. QED
    BY <1>0, <2>1, NewTasks
<1>2. ASSUME v \in tasks, ~overlap PROVE Here(v.sub, v.mirror)'
  <2>1. Here(v.sub, v.mirror)
    BY <1>2 DEF Serving
  <2>2. \A x \in Indices : local'[x] \subseteq local[x]
    BY <1>2, SyncsShrink DEF Writing
  <2>3. v.sub \in Indices
    BY <1>2, MirrorIndices DEF Types, TasksOK, Tasks
  <2>4. QED
    BY <1>2, <2>1, <2>2, <2>3, HereStays
<1>3. CASE AnswerError \/ AnswerNil
  <2>1. v \in tasks \/ v \in SyncTasks
    BY <1>3 DEF AnswerError, AnswerNil
  <2>2. ~overlap /\ round' \in {0, 1}
    BY <1>0, <1>3 DEF AnswerError, AnswerNil
  <2>3. v \notin SyncTasks
    BY <1>0, <2>2, NewTasks
  <2>4. QED
    BY <1>2, <2>1, <2>2, <2>3
<1>4. ASSUME NEW t \in tasks, Do(t) PROVE Here(v.sub, v.mirror)'
  <2>1. ~overlap
    BY <1>4, DoTurns
  <2>2. CASE v \in tasks
    BY <1>2, <2>1, <2>2
  <2>3. CASE v \notin tasks
    <3>1. PICK at, view : Turned(t, at, view) /\ (at = "prune" => Sync(t) /\ Missing(t) = {})
      BY <1>4, <2>3, DoTurns DEF Gone
    <3>2. v.at = at /\ v.sub = t.sub /\ v.mirror = t.mirror
      BY <2>3, <3>1 DEF Turned
    <3>3. Here(t.sub, t.mirror)'
      BY <2>1, <3>1, <3>2, SyncedIsHere
    <3>4. QED
      BY <3>2, <3>3
  <2>4. QED
    BY <2>2, <2>3
<1>5. CASE UNCHANGED <<main, round, tasks, overlap, races>>
  BY <1>2, <1>5
<1>6. QED
  BY <1>1, <1>3, <1>4, <1>5, OtherSteps

LEMMA ServedStep ==
  ASSUME Types, Alone, Serving, [Next]_vars, WellNamed, ~overlap', main' = "sync", races' = setting.races,
         NEW x \in plan.enabled, NEW k \in DOMAIN MirrorsOf(x)
  PROVE  Mirror(x, k).disabled \/ Here(x, k)' \/ \E t \in tasks' : t.sub = x /\ t.mirror = k
<1> USE DEF env, store
<1>0. x \in Indices /\ k # 0
  BY MirrorIndices DEF Types
<1>1. ~Begin /\ ~AnswerError
  BY DEF Begin, AnswerError
<1>2. CASE AnswerNil
  <2>1. Task(x, k) \in SyncTasks
    BY DEF SyncTasks
  <2>2. SyncTasks \subseteq tasks'
    BY <1>2 DEF AnswerNil
  <2>3. Task(x, k).sub = x /\ Task(x, k).mirror = k
    BY DEF Task
  <2>4. QED
    BY <2>1, <2>2, <2>3
<1>3. CASE UNCHANGED <<main, overlap, races>>
  <2>0. main = "sync" /\ ~overlap
    BY <1>3
  <2>1. \A y \in Indices : local'[y] \subseteq local[y]
    BY <2>0, SyncsShrink
  <2>2. Mirror(x, k).disabled \/ Here(x, k) \/ \E t \in tasks : t.sub = x /\ t.mirror = k
    BY <1>3 DEF Serving
  <2>3. CASE Mirror(x, k).disabled
    BY <2>3
  <2>4. CASE Here(x, k)
    BY <1>0, <2>0, <2>1, <2>4, HereStays
  <2>5. ASSUME NEW v \in tasks, v.sub = x, v.mirror = k, ~Mirror(x, k).disabled, ~Here(x, k)
        PROVE  \E t \in tasks' : t.sub = x /\ t.mirror = k
    <3>1. v.at # "prune"
      BY <2>0, <2>5 DEF Serving
    <3>2. v \in Batch
      BY <1>0, <2>0, <2>5, BatchIs DEF Alone
    <3>3. ~Disabled(v)
      BY <1>0, <2>5 DEF Disabled, InSnapshots
    <3>4. CASE v \in tasks'
      BY <2>5, <3>4
    <3>5. CASE v \notin tasks'
      <4>1. PICK t \in tasks : Do(t)
        BY <1>1, <3>5, <1>2, <2>5, OtherSteps, <1>3 DEF AnswerNil
      <4>2. v = t
        BY <3>5, <4>1, DoTurns DEF Gone, Turned
      <4>3. PICK at, view : Turned(t, at, view)
        BY <1>0, <2>5, <3>1, <3>2, <3>3, <4>1, <4>2, DoTurns
      <4>4. QED
        BY <2>5, <4>2, <4>3 DEF Turned
    <3>6. QED
      BY <3>4, <3>5
  <2>6. QED
    BY <2>2, <2>3, <2>4, <2>5
<1>4. CASE ~AnswerNil
  <2>1. UNCHANGED <<main, overlap, races>>
    BY <1>1, <1>4, OtherSteps, DoTurns
  <2>2. QED
    BY <1>3, <2>1
<1>5. QED
  BY <1>2, <1>4

LEMMA IInvStep == IInv /\ [Next]_vars => IInv'
<1> SUFFICES ASSUME IInv, [Next]_vars PROVE IInv'
  OBVIOUS
<1>1. Types /\ Alone /\ Serving
  BY DEF IInv
<1>2. Types' /\ Alone'
  BY <1>1, TypesStep, AloneStep
<1>3. plan' = plan /\ setting' = setting /\ WellNamed' = WellNamed
  BY ChosenStays, PlanStays
<1>4. Serving'
  <2> SUFFICES ASSUME WellNamed, ~overlap' PROVE Serving'
    BY <1>3 DEF Serving
  <2>1. \A t \in tasks' : t.at = "prune" => Here(t.sub, t.mirror)'
    BY <1>1, PruningStep
  <2>2. ASSUME main' = "sync", races' = setting.races, NEW x \in plan.enabled, NEW k \in DOMAIN MirrorsOf(x)
        PROVE  Mirror(x, k)'.disabled \/ Here(x, k)' \/ \E t \in tasks' : t.sub = x /\ t.mirror = k
    <3>1. Mirror(x, k)' = Mirror(x, k)
      BY ChosenStays, PlanStays
    <3>2. QED
      BY <1>1, <2>2, <3>1, ServedStep
  <2>3. \A x : MirrorsOf(x)' = MirrorsOf(x)
    BY ChosenStays, PlanStays
  <2>4. QED
    BY <1>3, <2>1, <2>2, <2>3 DEF Serving
<1>5. QED
  BY <1>2, <1>4 DEF IInv

LEMMA Invariance == Spec => []IInv
<1>1. Init => IInv
  BY InitIInv
<1>2. IInv /\ [Next]_vars => IInv'
  BY IInvStep
<1>3. QED
  BY <1>1, <1>2, PTL DEF Spec

-----------------------------------------------------------------------------
(* What holds of every behaviour.                                          *)

\* Type correctness: among the rest, run() keeps no error of a run that nobody
\* waits for, and a mirror holds snapshots only in directories that were made.
THEOREM TypeCorrect == Spec => []TypeOK
<1>1. IInv => TypeOK
  <2> SUFFICES ASSUME IInv PROVE TypeOK
    OBVIOUS
  <2>1. RunOK /\ LocalOK /\ TasksOK /\ EntriesOK /\ CmdOK
    BY DEF IInv, Types
  <2>2. ASSUME NEW t \in tasks
        PROVE  /\ t.round \in {0, 1} /\ t.sub \in plan.subs /\ t.mirror \in 0..Len(MirrorsOf(t.sub))
               /\ t.at \in {"waiting", "failed", "ensure", "expire", "sync", "prune"}
               /\ t.at = "failed" => t \in Batch
    <3>1. t.round \in {0, 1} /\ t.sub \in plan.subs /\ t.mirror \in Nat /\ t.at \in Ats
      BY <2>1 DEF TasksOK, Tasks
    <3>2. PICK n \in Nat : n = Len(MirrorsOf(t.sub)) /\ DOMAIN MirrorsOf(t.sub) = 1..n
      BY <2>1, <3>1, PlanFacts DEF PlanOK, MirrorsOf
    <3>3. t.mirror \in 0..n
      BY <2>1, <3>1, <3>2 DEF TasksOK, Placed
    <3>4. QED
      BY <2>1, <3>1, <3>2, <3>3 DEF TasksOK, Ats
  <2>3. \A e \in mirrored : /\ [mirror |-> e.mirror, dir |-> e.dir] \in made
                            /\ e.sub \in plan.subs /\ e.snap \in 1..taken[e.sub]
    BY <2>1 DEF EntriesOK
  <2>4. QED
    BY <2>1, <2>2, <2>3, Zenon DEF TypeOK, RunOK, LocalOK, CmdOK
<1>2. QED
  BY <1>1, Invariance, PTL

\* One sync at a time writes to a directory of a mirror: the names resolved
\* by run.go keep the directories of the subvolumes apart, resolveMirrors
\* names no mirror twice, and a run that left nothing behind is alone.
THEOREM OneSyncWrites == Spec => []OneWriter
<1>1. IInv => OneWriter
  <2> SUFFICES ASSUME IInv, WellNamed, ~overlap,
                      NEW t \in tasks, NEW u \in tasks, Writing(t), Writing(u),
                      Place(t.sub, t.mirror) = Place(u.sub, u.mirror)
               PROVE  t = u
    BY DEF OneWriter
  <2>1. RunOK /\ TasksOK /\ Alone
    BY DEF IInv, Types
  <2>2. /\ t.sub \in plan.subs /\ t.mirror \in DOMAIN MirrorsOf(t.sub)
        /\ u.sub \in plan.subs /\ u.mirror \in DOMAIN MirrorsOf(u.sub)
    BY <2>1 DEF TasksOK, Tasks, Placed
  <2>3. t.sub = u.sub /\ t.mirror = u.mirror
    BY <2>1, <2>2, PlacesDiffer
  <2>4. QED
    BY <2>1, <2>3 DEF Alone
<1>2. QED
  BY <1>1, Invariance, PTL

\* What a mirror loses is no longer at its source, whether a sync prunes it or
\* `btrsync prune` does, in whatever order they go.
THEOREM MirrorsLoseWhatIsGone == Spec => PrunedAreGone
<1>1. IInv /\ [Next]_vars
        => [WellNamed /\ ~overlap => \A e \in mirrored \ mirrored' : e.snap \notin local[e.sub]]_vars
  BY GoneAreExpired DEF IInv
<1>2. QED
  BY <1>1, Invariance, PTL DEF Spec, PrunedAreGone

\* A run that answers nil, lost no function or error to the queue's races and had no other run
\* beside it has brought the newest snapshot of each enabled subvolume to each
\* of its mirrors.
THEOREM NilRunsMirror == Spec => NilMeansMirrored
<1>1. ASSUME IInv, [Next]_vars, main = "sync", main' = "idle", \A t \in Batch : t.at # "failed",
             races' = setting.races, WellNamed, ~overlap
      PROVE  \A x \in Indices, k \in 1..2 : Served(x, k) => Newest(x, k)
  <2>1. Types /\ Alone /\ Serving /\ RunOK /\ LocalOK
    BY <1>1 DEF IInv, Types
  <2>2. AnswerNil
    <3>1. ~Begin /\ ~AnswerError
      BY <1>1 DEF Begin, AnswerError
    <3>2. QED
      BY <1>1, <2>1, <3>1, OtherSteps, DoTurns
  <2>3. AllDone /\ races = setting.races
    <3>1. races \in 0..setting.races /\ setting.races \in Nat
      BY <2>1, PlanFacts DEF RunOK
    <3>2. QED
      BY <1>1, <2>2, <3>1 DEF AnswerNil
  <2>4. ASSUME NEW x \in Indices, NEW k, Served(x, k) PROVE Newest(x, k)
    <3>1. k # 0 /\ x \in plan.enabled /\ k \in DOMAIN MirrorsOf(x) /\ ~Mirror(x, k).disabled
      BY <2>1, <2>4, MirrorIndices DEF Served
    <3>2. \A t \in tasks : t.mirror = 0
      BY <1>1, <2>1, <2>3, BatchIs DEF Alone, AllDone
    <3>3. Here(x, k)
      BY <1>1, <2>1, <2>3, <3>1, <3>2 DEF Serving
    <3>4. CASE local[x] # {}
      <4>1. taken[x] \in Nat /\ local[x] \in SUBSET (0..taken[x])
        BY <2>1 DEF LocalOK
      <4>2. Max(local[x]) \in local[x]
        BY <3>4, <4>1, Ends
      <4>3. QED
        BY <3>3, <4>2 DEF Here, Newest
    <3>5. QED
      BY <3>4 DEF Newest
  <2>5. QED
    BY <2>4
<1>2. IInv /\ [Next]_vars
        => [(/\ main = "sync" /\ main' = "idle"
             /\ \A t \in Batch : t.at # "failed"
             /\ races' = setting.races /\ WellNamed /\ ~overlap)
            => \A x \in Indices, k \in 1..2 : Served(x, k) => Newest(x, k)]_vars
  BY <1>1
<1>3. QED
  BY <1>2, Invariance, PTL DEF Spec, NilMeansMirrored
=============================================================================
