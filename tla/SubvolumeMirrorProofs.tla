------------------------ MODULE SubvolumeMirrorProofs ------------------------
(***************************************************************************)
(* Theorems about SubvolumeMirror for every set of files, links and        *)
(* values, any number of snapshots and any number of faults.               *)
(***************************************************************************)
EXTENDS SubvolumeMirror, SendStreamsProofs

FileOps   == {"mkfile", "symlink", "attributes", "link", "rename", "unlink", "write", "clone"}
BeginOps  == {"subvol", "snapshot"}

\* The commands of streams whose files hold values of V.
Commands(V) == {c \in [op : FileOps \cup BeginOps \cup {"end"}, name : Names \cup {NoFile},
                       to : Names \cup {NoFile}, val : V \cup {NoFile}] :
                   /\ c.op \in FileOps => c.name \in Names
                   /\ c.op = "rename" => c.to \in Names
                   /\ c.op \in {"symlink", "link", "write", "clone"} => c.val \in V}

-----------------------------------------------------------------------------
(* The streams.                                                            *)

\* Those of them about p, and those that make it, as it was, what it is now.
NamedAs(V, p) == {c \in Commands(V) : c.name \in {File(p), Orphan(p)}}
ChangesOf(V, p, was, is) == {c \in NamedAs(V, p) : was # is /\ (c.op = "link" => is # NoFile)}

LEMMA CreateCommands ==
  ASSUME NEW V, NEW p \in Paths, NEW v \in V
  PROVE  Create(p, v) \in Seq(NamedAs(V, p))
<1>1. File(p) \in Names /\ Orphan(p) \in Names
  BY NamesAre
<1>2. Cmd("link", File(p), NoFile, v) \in NamedAs(V, p)
  BY <1>1 DEF Cmd, NamedAs, Commands, FileOps, BeginOps
<1>3. Cmd("symlink", Orphan(p), NoFile, v) \in NamedAs(V, p)
  BY <1>1 DEF Cmd, NamedAs, Commands, FileOps, BeginOps
<1>4. Cmd("rename", Orphan(p), File(p), NoFile) \in NamedAs(V, p)
  BY <1>1 DEF Cmd, NamedAs, Commands, FileOps, BeginOps
<1>5. Cmd("mkfile", Orphan(p), NoFile, NoFile) \in NamedAs(V, p)
  BY <1>1 DEF Cmd, NamedAs, Commands, FileOps, BeginOps
<1>6. Data(p, v) \in NamedAs(V, p)
  BY <1>1 DEF Data, Cmd, NamedAs, Commands, FileOps, BeginOps
<1>7. Cmd("attributes", File(p), NoFile, NoFile) \in NamedAs(V, p)
  BY <1>1 DEF Cmd, NamedAs, Commands, FileOps, BeginOps
<1> HIDE DEF Names
<1>8. QED
  BY <1>2, <1>3, <1>4, <1>5, <1>6, <1>7 DEF Create

LEMMA ChangeCommands ==
  ASSUME NEW V, NEW p \in Paths, NEW was, NEW is \in V \cup {NoFile}
  PROVE  Change(p, was, is) \in Seq(ChangesOf(V, p, was, is)) /\ Change(p, was, is) \in Seq(Commands(V))
<1> SUFFICES Change(p, was, is) \in Seq(ChangesOf(V, p, was, is))
  <2>1. ChangesOf(V, p, was, is) \subseteq Commands(V)
    BY DEF ChangesOf, NamedAs
  <2>2. Seq(ChangesOf(V, p, was, is)) \subseteq Seq(Commands(V))
    BY <2>1
  <2>3. QED
    BY <2>2
<1>1. File(p) \in Names
  BY NamesAre
<1>2. was # is => Cmd("unlink", File(p), NoFile, NoFile) \in ChangesOf(V, p, was, is)
  BY <1>1 DEF Cmd, ChangesOf, NamedAs, Commands, FileOps, BeginOps
<1>3. is \in V /\ was # is => Data(p, is) \in ChangesOf(V, p, was, is)
  BY <1>1 DEF Data, Cmd, ChangesOf, NamedAs, Commands, FileOps, BeginOps
<1>4. is \in V /\ was # is /\ is # NoFile => Create(p, is) \in Seq(ChangesOf(V, p, was, is))
  <2>1. was # is /\ is # NoFile => NamedAs(V, p) \subseteq ChangesOf(V, p, was, is)
    BY DEF ChangesOf
  <2>2. was # is /\ is # NoFile => Seq(NamedAs(V, p)) \subseteq Seq(ChangesOf(V, p, was, is))
    BY <2>1
  <2>3. is \in V => Create(p, is) \in Seq(NamedAs(V, p))
    BY CreateCommands
  <2>4. QED
    BY <2>2, <2>3
<1>5. is \in V /\ was # is /\ is # NoFile => << Cmd("unlink", File(p), NoFile, NoFile) >> \o Create(p, is) \in Seq(ChangesOf(V, p, was, is))
  BY <1>2, <1>4
<1>6. CASE was = is
  BY <1>6 DEF Change
<1>7. CASE was # is /\ is = NoFile
  BY <1>2, <1>7 DEF Change
<1>8. CASE was # is /\ is # NoFile
  <2>1. is \in V
    BY <1>8
  <2>2. CASE was = NoFile
    BY <1>4, <1>8, <2>1, <2>2 DEF Change
  <2>3. CASE was # NoFile /\ p \in Links
    <3>1. Change(p, was, is) = << Cmd("unlink", File(p), NoFile, NoFile) >> \o Create(p, is)
      BY <1>8, <2>3 DEF Change
    <3>2. QED
      BY <1>5, <1>8, <2>1, <3>1
  <2>4. CASE was # NoFile /\ p \notin Links
    BY <1>3, <1>8, <2>1, <2>4 DEF Change
  <2>5. QED
    BY <2>2, <2>3, <2>4
<1>9. QED
  BY <1>6, <1>7, <1>8

LEMMA PathsInOrder == PathOrder \in Seq(Paths)
BY StreamsAssumption, SetToSeqIs DEF PathOrder

LEMMA StreamCommands ==
  ASSUME NEW V, NEW op \in BeginOps, NEW from, NEW to, \A p \in Paths : to[p] \in V \cup {NoFile}
  PROVE  /\ Stream(op, from, to) \in Seq(Commands(V)) /\ Len(Stream(op, from, to)) >= 2
         /\ Stream(op, from, to)[1] = Begin(op)
<1>1. Begin(op) \in Commands(V) /\ Begin("end") \in Commands(V)
  BY DEF Begin, Cmd, Commands, FileOps, BeginOps
<1> DEFINE parts == [i \in 1..Len(PathOrder) |-> LET p == PathOrder[i] IN Change(p, from[p], to[p])]
<1>2. parts \in Seq(Seq(Commands(V)))
  <2>1. \A i \in 1..Len(PathOrder) : parts[i] \in Seq(Commands(V))
    BY PathsInOrder, ChangeCommands
  <2>2. Len(PathOrder) \in Nat
    BY PathsInOrder
  <2> HIDE DEF Commands
  <2>3. QED
    BY <2>1, <2>2
<1>3. PICK middle : middle = FlattenSeq(parts) /\ middle \in Seq(Commands(V))
  BY <1>2, FlattenTyped
<1>4. Stream(op, from, to) = << Begin(op) >> \o middle \o << Begin("end") >>
  BY <1>3 DEF Stream
<1>5. QED
  BY <1>1, <1>3, <1>4

\* The stream of a partial copy t, whose parent shows f.
PartOf(f, t, p) == (IF t[Orphan(p)] = NoFile THEN << >> ELSE Create(p, Blank)) \o Change(p, f[p], t[File(p)])
PartMiddle(f, t) == FlattenSeq([i \in 1..Len(PathOrder) |-> PartOf(f, t, PathOrder[i])])
PartStream(op, f, t) == << Begin(op) >> \o PartMiddle(f, t) \o << Begin("end") >>

\* What p has in it when nothing is left under its orphan name.
PartCommands(f, t, p) ==
    {c \in NamedAs(Held, p) : t[Orphan(p)] = NoFile => f[p] # t[File(p)] /\ (c.op = "link" => t[File(p)] # NoFile)}

LEMMA PartOfTyped ==
  ASSUME NEW t \in [Names -> Held], NEW f, NEW p \in Paths
  PROVE  PartOf(f, t, p) \in Seq(PartCommands(f, t, p))
<1>1. PICK is \in Held : is = t[File(p)]
  BY NamesAre
<1>2. PICK was : was = f[p]
  OBVIOUS
<1>3. Change(p, was, is) \in Seq(ChangesOf(Held, p, was, is))
  BY ChangeCommands
<1>4. ChangesOf(Held, p, was, is) \subseteq PartCommands(f, t, p)
  BY <1>1, <1>2 DEF ChangesOf, PartCommands
<1>5. Change(p, was, is) \in Seq(PartCommands(f, t, p))
  BY <1>3, <1>4, SeqMonotonic
<1>6. CASE t[Orphan(p)] = NoFile
  <2>1. PartOf(f, t, p) = << >> \o Change(p, was, is)
    BY <1>1, <1>2, <1>6 DEF PartOf
  <2>2. PICK S, C : S = PartCommands(f, t, p) /\ C = Change(p, was, is)
    OBVIOUS
  <2>3. << >> \o C \in Seq(S)
    <3>1. C \in Seq(S)
      BY <1>5, <2>2
    <3>2. QED
      BY ONLY <3>1
  <2>4. QED
    BY ONLY <2>1, <2>2, <2>3
<1>7. CASE t[Orphan(p)] # NoFile
  <2>1. PartOf(f, t, p) = Create(p, Blank) \o Change(p, was, is)
    BY <1>1, <1>2, <1>7 DEF PartOf
  <2>2. Create(p, Blank) \in Seq(NamedAs(Held, p))
    BY CreateCommands DEF Held
  <2>3. NamedAs(Held, p) \subseteq PartCommands(f, t, p)
    BY <1>7 DEF PartCommands
  <2>4. Create(p, Blank) \in Seq(PartCommands(f, t, p))
    BY <2>2, <2>3, SeqMonotonic
  <2>5. PICK S, C, D : S = PartCommands(f, t, p) /\ C = Change(p, was, is) /\ D = Create(p, Blank)
    OBVIOUS
  <2>6. D \o C \in Seq(S)
    <3>1. C \in Seq(S) /\ D \in Seq(S)
      BY <1>5, <2>4, <2>5
    <3>2. QED
      BY ONLY <3>1
  <2>7. QED
    BY ONLY <2>1, <2>5, <2>6
<1>8. QED
  BY <1>6, <1>7

LEMMA PartTyped ==
  ASSUME NEW t \in [Names -> Held], NEW f, NEW op \in BeginOps
  PROVE  /\ PartMiddle(f, t) \in Seq(UNION {PartCommands(f, t, p) : p \in Paths})
         /\ PartStream(op, f, t) \in Seq(Commands(Held))
         /\ Len(PartStream(op, f, t)) = Len(PartMiddle(f, t)) + 2
         /\ PartStream(op, f, t)[Len(PartMiddle(f, t)) + 2] = Begin("end")
         /\ \A j \in 1..Len(PartMiddle(f, t)) : PartStream(op, f, t)[j + 1] = PartMiddle(f, t)[j]
<1>1. PICK S : S = UNION {PartCommands(f, t, p) : p \in Paths}
  OBVIOUS
<1>2. PICK parts : parts = [i \in 1..Len(PathOrder) |-> PartOf(f, t, PathOrder[i])]
  OBVIOUS
<1>3. parts \in Seq(Seq(S))
  <2>1. ASSUME NEW i \in 1..Len(PathOrder) PROVE parts[i] \in Seq(S)
    <3>1. PathOrder[i] \in Paths
      BY PathsInOrder
    <3>2. PICK p \in Paths : p = PathOrder[i]
      BY <3>1
    <3>3. PartOf(f, t, p) \in Seq(PartCommands(f, t, p)) /\ PartCommands(f, t, p) \subseteq S
      BY <1>1, PartOfTyped
    <3>4. PartOf(f, t, p) \in Seq(S)
      BY <3>3, SeqMonotonic
    <3>5. QED
      BY <1>2, <3>2, <3>4
  <2>2. PICK n \in Nat : n = Len(PathOrder)
    BY PathsInOrder
  <2>3. parts = [i \in 1..n |-> parts[i]] /\ \A i \in 1..n : parts[i] \in Seq(S)
    BY <1>2, <2>1, <2>2
  <2>4. QED
    BY ONLY <2>2, <2>3, n \in Nat
<1>4. PICK M : M = PartMiddle(f, t)
  OBVIOUS
<1>5. M \in Seq(S)
  BY <1>2, <1>3, <1>4, FlattenTyped DEF PartMiddle
<1>6. PICK C : C = Commands(Held)
  OBVIOUS
<1>7. S \subseteq C
  BY <1>1, <1>6 DEF PartCommands, NamedAs
<1>8. M \in Seq(C)
  BY <1>5, <1>7, SeqMonotonic
<1>9. PICK b \in C, e \in C : b = Begin(op) /\ e = Begin("end")
  BY <1>6 DEF Begin, Cmd, Commands, FileOps, BeginOps
<1>10. PICK s : s = << b >> \o M \o << e >>
  OBVIOUS
<1>11. /\ s \in Seq(C) /\ Len(s) = Len(M) + 2 /\ Len(M) \in Nat
       /\ s[1] = b /\ s[Len(M) + 2] = e
       /\ \A j \in 1..Len(M) : s[j + 1] = M[j]
  BY ONLY Enclosed, b \in C, e \in C, <1>8, <1>10
<1>12. PartStream(op, f, t) = s
  BY <1>4, <1>9, <1>10 DEF PartStream
<1>13. QED
  BY <1>1, <1>4, <1>5, <1>6, <1>9, <1>11, <1>12

\* FindDiffOffset: there is a longest beginning that two streams share.
LEMMA AgreeingIs ==
  ASSUME NEW S, NEW a \in Seq(S), NEW b \in Seq(S)
  PROVE  LET k == Agreeing(a, b)
         IN  /\ k \in 0..Len(a) /\ k <= Len(b)
             /\ SubSeq(a, 1, k) = SubSeq(b, 1, k)
             /\ k < Len(a) /\ k < Len(b) => a[k + 1] # b[k + 1]
<1> DEFINE K == {k \in 0..Len(a) : k <= Len(b) /\ \A i \in 1..k : a[i] = b[i]}
<1>1. Len(a) \in Nat /\ Len(b) \in Nat
  OBVIOUS
<1>2. K \in SUBSET (0..Len(a)) /\ 0 \in K
  BY <1>1
<1>3. PICK k \in K : \A l \in K : k >= l
  <2> HIDE DEF K
  <2>1. K # {}
    BY <1>2
  <2>2. QED
    BY <1>1, <1>2, <2>1, MaxOfNat
<1>4. k \in 0..Len(a) /\ k <= Len(b) /\ \A i \in 1..k : a[i] = b[i]
  BY <1>3
<1>5. SubSeq(a, 1, k) = SubSeq(b, 1, k)
  <2>1. SubSeq(a, 1, k) = [i \in 1..k |-> a[i]] /\ SubSeq(b, 1, k) = [i \in 1..k |-> b[i]]
    BY <1>1, <1>4
  <2>2. QED
    BY <1>4, <2>1
<1>6. ASSUME k < Len(a), k < Len(b), a[k + 1] = b[k + 1] PROVE FALSE
  <2>1. k + 1 \in 0..Len(a) /\ k + 1 <= Len(b) /\ \A i \in 1..(k + 1) : i = k + 1 \/ i \in 1..k
    BY <1>1, <1>4, <1>6
  <2>2. \A i \in 1..(k + 1) : a[i] = b[i]
    BY <1>4, <1>6, <2>1
  <2>3. k + 1 \in K
    BY <2>1, <2>2
  <2>4. QED
    BY <1>3, <1>4, <2>3
<1> DEFINE Longest(l) == /\ l <= Len(b)
                         /\ SubSeq(a, 1, l) = SubSeq(b, 1, l)
                         /\ l < Len(a) /\ l < Len(b) => a[l + 1] # b[l + 1]
<1>7. Longest(k)
  BY <1>4, <1>5, <1>6
<1>8. Agreeing(a, b) = CHOOSE l \in 0..Len(a) : Longest(l)
  BY DEF Agreeing
<1> HIDE DEF Longest
<1>9. Agreeing(a, b) \in 0..Len(a) /\ Longest(Agreeing(a, b))
  BY <1>4, <1>7, <1>8
<1>10. QED
  BY <1>9 DEF Longest

LEMMA MutedTyped ==
  ASSUME NEW V, NEW side, NEW commands \in Seq(Commands(V))
  PROVE  Muted(side, commands) \in Seq([op : FileOps \cup BeginOps \cup {"end"}, name : Names \cup {NoFile},
                                        to : Names \cup {NoFile}, val : V \cup {NoFile, side}])
<1> DEFINE R == [op : FileOps \cup BeginOps \cup {"end"}, name : Names \cup {NoFile},
                 to : Names \cup {NoFile}, val : V \cup {NoFile, side}]
<1>1. PICK n \in Nat : DOMAIN commands = 1..n /\ \A i \in 1..n : commands[i] \in Commands(V)
  OBVIOUS
<1>2. ASSUME NEW c \in Commands(V), NEW v \in {NoFile, side} PROVE [c EXCEPT !.val = v] \in R
  BY DEF Commands
<1>3. \A i \in 1..n : Muted(side, commands)[i] \in R
  BY <1>1, <1>2 DEF Muted
<1>4. Muted(side, commands) = [i \in 1..n |-> Muted(side, commands)[i]]
  BY <1>1 DEF Muted
<1> HIDE DEF R
<1>5. Muted(side, commands) \in Seq(R)
  BY <1>1, <1>3, <1>4
<1>6. QED
  BY <1>5 DEF R

LEMMA AppliedTyped ==
  ASSUME NEW tree \in [Names -> Held], NEW c \in Commands(Values), c.op \in FileOps
  PROVE  Applied(tree, c) \in [Names -> Held]
<1>1. /\ c.name \in Names /\ (c.op = "rename" => c.to \in Names)
      /\ c.op \in {"symlink", "link", "write", "clone"} => c.val \in Values
  BY DEF Commands
<1>2. {Blank, NoFile} \subseteq Held /\ Values \subseteq Held /\ \A v \in Values : Below(v) \in Held
  BY DEF Held
<1> HIDE DEF Names, Held
<1>3. CASE c.op = "mkfile"
  BY <1>1, <1>2, <1>3 DEF Applied
<1>4. CASE c.op = "rename"
  BY <1>1, <1>2, <1>4 DEF Applied
<1>5. CASE c.op = "unlink"
  BY <1>1, <1>2, <1>5 DEF Applied
<1>6. CASE c.op = "symlink"
  BY <1>1, <1>2, <1>6 DEF Applied
<1>7. CASE c.op \in {"write", "clone"}
  BY <1>1, <1>2, <1>7 DEF Applied
<1>8. CASE c.op = "link"
  BY <1>1, <1>2, <1>8 DEF Applied
<1>9. CASE c.op = "attributes"
  BY <1>9 DEF Applied
<1>10. QED
  BY <1>3, <1>4, <1>5, <1>6, <1>7, <1>8, <1>9 DEF FileOps

-----------------------------------------------------------------------------
(* A partial copy, and what a comparison of the streams says of it.        *)

\* Nothing but commands of the transfer has changed the file: where none of them
\* needs an orphan name it is as it was, or as it is to be, or removed by them.
Within(p, was, is, t) ==
    LET C == Change(p, was, is)
    IN  (\A i \in 1..Len(C) : C[i].name # Orphan(p)) =>
            \/ t[File(p)] \in {Shown(p, was, FALSE), Shown(p, is, FALSE)}
            \/ t[File(p)] = NoFile /\ \E i \in 1..Len(C) : C[i].op = "unlink"

\* A copy that a transfer from the one state to the other has begun.
Partway(from, to, t) == Reached(from, to, t, FALSE, 1) /\ \A p \in Paths : Within(p, from[p], to[p], t)

LEMMA WithinIs ==
  ASSUME NEW p \in Paths, NEW was \in Values \cup {NoFile}, NEW is \in Values \cup {NoFile}, NEW t
  PROVE  LET C == Change(p, was, is)
             W == Within(p, was, is, t)
             ends == t[File(p)] \in {Shown(p, was, FALSE), Shown(p, is, FALSE)}
         IN  /\ C = << >> => (W <=> ends)
             /\ C = << Rm(p) >> => (W <=> ends \/ t[File(p)] = NoFile)
             /\ C = << Wr(p, is) >> => (W <=> ends)
             /\ C = << Ln(p, is) >> => (W <=> ends)
             /\ C = << Rm(p), Ln(p, is) >> => (W <=> ends \/ t[File(p)] = NoFile)
             /\ C = << Mk(p), Mv(p), Wr(p, is) >> => W
             /\ C = << Sym(p, is), Mv(p), Attr(p) >> => W
             /\ C = << Rm(p), Sym(p, is), Mv(p), Attr(p) >> => W
<1>1. File(p) # Orphan(p)
  BY NamesAre
<1>2. /\ Mk(p).name = Orphan(p) /\ Mv(p).name = Orphan(p) /\ Wr(p, is).name = File(p) /\ Sym(p, is).name = Orphan(p)
      /\ Ln(p, is).name = File(p) /\ Rm(p).name = File(p)
      /\ Rm(p).op = "unlink" /\ Wr(p, is).op # "unlink" /\ Ln(p, is).op # "unlink"
  BY DEF Mk, Mv, Wr, Data, Sym, Ln, Rm, Cmd
<1>3. PICK C : C = Change(p, was, is)
  OBVIOUS
<1> DEFINE W == Within(p, was, is, t)
           ends == t[File(p)] \in {Shown(p, was, FALSE), Shown(p, is, FALSE)}
           plain == \A i \in 1..Len(C) : C[i].name # Orphan(p)
           unlinks == \E i \in 1..Len(C) : C[i].op = "unlink"
<1>4. W <=> (plain => ends \/ (t[File(p)] = NoFile /\ unlinks))
  BY <1>3 DEF Within
<1> HIDE DEF W
<1>5. ASSUME C = << >> PROVE W <=> ends
  <2>1. plain /\ ~unlinks
    BY <1>5
  <2>2. QED
    BY <1>4, <2>1
<1>6. ASSUME C = << Rm(p) >> PROVE W <=> ends \/ t[File(p)] = NoFile
  <2>1. Len(C) = 1 /\ C[1].name = File(p) /\ C[1].op = "unlink"
    BY <1>2, <1>6
  <2>2. plain /\ unlinks
    BY <1>1, <2>1
  <2>3. QED
    BY <1>4, <2>2
<1>7. ASSUME \E c : C = << c >> /\ c.name = File(p) /\ c.op # "unlink" PROVE W <=> ends
  <2>1. Len(C) = 1 /\ C[1].name = File(p) /\ C[1].op # "unlink"
    BY <1>7
  <2>2. plain /\ ~unlinks
    BY <1>1, <2>1
  <2>3. QED
    BY <1>4, <2>2
<1>8. ASSUME C = << Rm(p), Ln(p, is) >> PROVE W <=> ends \/ t[File(p)] = NoFile
  <2>1. Len(C) = 2 /\ C[1].name = File(p) /\ C[1].op = "unlink" /\ C[2].name = File(p)
    BY <1>2, <1>8
  <2>2. plain /\ unlinks
    BY <1>1, <2>1
  <2>3. QED
    BY <1>4, <2>2
<1>9. ASSUME \E i \in 1..Len(C) : C[i].name = Orphan(p) PROVE W
  BY <1>4, <1>9
<1>10. ASSUME C = << Mk(p), Mv(p), Wr(p, is) >> \/ C = << Sym(p, is), Mv(p), Attr(p) >> PROVE W
  <2>1. C = << Mk(p), Mv(p), Wr(p, is) >> => 1 \in 1..Len(C) /\ C[1].name = Orphan(p)
    BY <1>2
  <2>2. C = << Sym(p, is), Mv(p), Attr(p) >> => 1 \in 1..Len(C) /\ C[1].name = Orphan(p)
    BY <1>2
  <2>3. QED
    BY <1>9, <1>10, <2>1, <2>2
<1>11. ASSUME C = << Rm(p), Sym(p, is), Mv(p), Attr(p) >> PROVE W
  <2>1. 2 \in 1..Len(C) /\ C[2].name = Orphan(p)
    BY <1>2, <1>11
  <2>2. QED
    BY <1>9, <2>1
<1>12. QED
  BY <1>2, <1>3, <1>5, <1>6, <1>7, <1>8, <1>10, <1>11 DEF W

\* The commands of the change keep it so.
LEMMA WithinStep ==
  ASSUME NEW p \in Paths, NEW was \in Values \cup {NoFile}, NEW is \in Values \cup {NoFile},
         NEW t \in [Names -> Held], NEW k \in 1..Len(Change(p, was, is)), Can(t, FALSE, Change(p, was, is)[k])
  PROVE  Within(p, was, is, After(t, FALSE, Change(p, was, is)[k]))
<1>1. PICK C : C = Change(p, was, is)
  OBVIOUS
<1>2. PICK u : u = After(t, FALSE, C[k])
  OBVIOUS
<1>3. k \in 1..Len(C) /\ Can(t, FALSE, C[k])
  BY <1>1
<1>4. Within(p, was, is, u) <=> Within(p, was, is, After(t, FALSE, Change(p, was, is)[k]))
  BY <1>1, <1>2
<1>5. /\ C[k] = Rm(p) => u[File(p)] = NoFile
      /\ C[k] = Wr(p, is) => u[File(p)] = is
      /\ C[k] = Ln(p, is) => u[File(p)] = is
  <2>1. PICK far \in BOOLEAN : far = FALSE
    OBVIOUS
  <2>2. /\ After(t, far, Rm(p))[File(p)] = NoFile
        /\ After(t, far, Wr(p, is))[File(p)] = is
        /\ Can(t, far, Ln(p, is)) => After(t, far, Ln(p, is))[File(p)] = is
    BY Effects
  <2>3. PICK c : c = C[k]
    OBVIOUS
  <2>4. u = After(t, far, c) /\ Can(t, far, c)
    BY <1>2, <1>3, <2>1, <2>3
  <2>5. QED
    BY <2>2, <2>3, <2>4
<1> DEFINE ends == u[File(p)] \in {Shown(p, was, FALSE), Shown(p, is, FALSE)}
<1>6. /\ C = << Rm(p) >> => (Within(p, was, is, u) <=> ends \/ u[File(p)] = NoFile)
      /\ C = << Wr(p, is) >> => (Within(p, was, is, u) <=> ends)
      /\ C = << Ln(p, is) >> => (Within(p, was, is, u) <=> ends)
      /\ C = << Rm(p), Ln(p, is) >> => (Within(p, was, is, u) <=> ends \/ u[File(p)] = NoFile)
      /\ C = << Mk(p), Mv(p), Wr(p, is) >> => Within(p, was, is, u)
      /\ C = << Sym(p, is), Mv(p), Attr(p) >> => Within(p, was, is, u)
      /\ C = << Rm(p), Sym(p, is), Mv(p), Attr(p) >> => Within(p, was, is, u)
  BY <1>1, WithinIs
<1>7. p \notin Links \/ is \in Inodes => Shown(p, is, FALSE) = is
  BY ShownIs
<1>8. C # << >>
  BY <1>3
<1>9. CASE C = << Rm(p) >>
  <2>1. C[k] = Rm(p)
    BY <1>3, <1>9
  <2>2. QED
    BY <1>4, <1>5, <1>6, <1>9, <2>1
<1>10. CASE C = << Wr(p, is) >> /\ p \notin Links
  <2>1. C[k] = Wr(p, is)
    BY <1>3, <1>10
  <2>2. QED
    BY <1>4, <1>5, <1>6, <1>7, <1>10, <2>1
<1>11. CASE C = << Ln(p, is) >> /\ is \in Inodes
  <2>1. C[k] = Ln(p, is)
    BY <1>3, <1>11
  <2>2. QED
    BY <1>4, <1>5, <1>6, <1>7, <1>11, <2>1
<1>12. CASE C = << Rm(p), Ln(p, is) >> /\ is \in Inodes
  <2>1. C[k] = Rm(p) \/ C[k] = Ln(p, is)
    BY <1>3, <1>12
  <2>2. QED
    BY <1>4, <1>5, <1>6, <1>7, <1>12, <2>1
<1>13. QED
  BY <1>1, <1>4, <1>6, <1>8, <1>9, <1>10, <1>11, <1>12, ChangeIs

\* Where the streams agree, the command has nothing to do or can be left out: it
\* is not about an orphan name, and the copy's file is not as the parent's.
LEMMA Agreed ==
  ASSUME NEW p \in Paths, NEW was \in Values \cup {NoFile}, NEW is \in Values \cup {NoFile}, NEW t,
         NEW j \in 1..Len(Change(p, was, is)),
         Ready(p, was, is, t, FALSE, 0), Within(p, was, is, t),
         \A i \in 1..j : Change(p, was, is)[i].name # Orphan(p),
         t[Orphan(p)] = NoFile => /\ t[File(p)] # Shown(p, was, FALSE)
                                  /\ Change(p, was, is)[j].op = "link" => t[File(p)] # NoFile
  PROVE  Ready(p, was, is, t, FALSE, j)
<1>1. PICK C : C = Change(p, was, is)
  OBVIOUS
<1> DEFINE R(k) == Ready(p, was, is, t, FALSE, k)
           W == Within(p, was, is, t)
           clean == t[Orphan(p)] = NoFile
           done == t[File(p)] = Shown(p, is, FALSE) /\ clean
           ends == t[File(p)] \in {Shown(p, was, FALSE), Shown(p, is, FALSE)}
<1>2. /\ j \in 1..Len(C) /\ R(0) /\ W /\ \A i \in 1..j : C[i].name # Orphan(p)
      /\ clean => t[File(p)] # Shown(p, was, FALSE) /\ (C[j].op = "link" => t[File(p)] # NoFile)
  BY <1>1
<1>3. /\ C = << Rm(p) >> => (R(0) <=> clean) /\ (R(1) <=> done)
      /\ C = << Wr(p, is) >> => (R(0) <=> clean) /\ (R(1) <=> done)
      /\ C = << Ln(p, is) >> => (R(0) <=> clean) /\ (R(1) <=> done)
      /\ C = << Rm(p), Ln(p, is) >> => (R(0) <=> clean) /\ (R(1) <=> clean) /\ (R(2) <=> done)
      /\ C = << Rm(p), Sym(p, is), Mv(p), Attr(p) >> /\ p \in Links => R(1)
  BY <1>1, ReadyIs
<1>4. /\ C = << Rm(p) >> => (W <=> ends \/ t[File(p)] = NoFile)
      /\ C = << Wr(p, is) >> => (W <=> ends)
      /\ C = << Ln(p, is) >> => (W <=> ends)
      /\ C = << Rm(p), Ln(p, is) >> => (W <=> ends \/ t[File(p)] = NoFile)
  BY <1>1, WithinIs
<1>5. /\ Mk(p).name = Orphan(p) /\ Sym(p, is).name = Orphan(p) /\ Ln(p, is).op = "link"
  BY DEF Mk, Sym, Ln, Cmd
<1> SUFFICES R(j)
  OBVIOUS
<1> HIDE DEF R, W
<1>6. CASE C = << Rm(p) >> /\ is = NoFile
  <2>1. j = 1
    BY <1>2, <1>6
  <2>2. Shown(p, is, FALSE) = NoFile
    BY <1>6 DEF Shown
  <2>3. QED
    BY <1>2, <1>3, <1>4, <1>6, <2>1, <2>2
<1>7. CASE C = << Wr(p, is) >> \/ C = << Ln(p, is) >>
  <2>1. j = 1
    BY <1>2, <1>7
  <2>2. QED
    BY <1>2, <1>3, <1>4, <1>7, <2>1
<1>8. CASE C = << Rm(p), Ln(p, is) >>
  <2>1. j = 1 \/ (j = 2 /\ C[j] = Ln(p, is))
    BY <1>2, <1>8
  <2>2. CASE j = 1
    BY <1>2, <1>3, <1>8, <2>2
  <2>3. CASE j = 2
    BY <1>2, <1>3, <1>4, <1>5, <1>8, <2>1, <2>3
  <2>4. QED
    BY <2>1, <2>2, <2>3
<1>9. CASE C = << Mk(p), Mv(p), Wr(p, is) >> \/ C = << Sym(p, is), Mv(p), Attr(p) >>
  <2>1. C[1].name = Orphan(p) /\ 1 \in 1..j
    BY <1>2, <1>5, <1>9
  <2>2. QED
    BY <1>2, <2>1
<1>10. CASE C = << Rm(p), Sym(p, is), Mv(p), Attr(p) >> /\ p \in Links
  <2>1. C[2].name = Orphan(p) /\ j \in {1, 2, 3, 4}
    BY <1>2, <1>5, <1>10
  <2>2. j = 1
    <3>1. j # 1 => 2 \in 1..j
      BY <2>1
    <3>2. QED
      BY <1>2, <2>1, <3>1
  <2>3. QED
    BY <1>3, <1>10, <2>2
<1>11. C # << >>
  BY <1>2
<1>12. QED
  BY <1>1, <1>6, <1>7, <1>8, <1>9, <1>10, <1>11, ChangeIs

LEMMA MutedIs ==
  ASSUME NEW V, NEW side, NEW s \in Seq(Commands(V)), NEW i \in 1..Len(s)
  PROVE  /\ Muted(side, s)[i].op = s[i].op /\ Muted(side, s)[i].name = s[i].name
         /\ (\E p \in Paths : s[i].name = Orphan(p)) => Muted(side, s)[i].val = side
<1>1. PICK v : v = IF \E p \in Paths : s[i].name = Orphan(p) THEN side ELSE NoFile
  OBVIOUS
<1>2. PICK c \in Commands(V) : c = s[i]
  OBVIOUS
<1>3. Muted(side, s)[i] = [c EXCEPT !.val = v]
  BY <1>1, <1>2 DEF Muted
<1>4. [c EXCEPT !.val = v].op = c.op /\ [c EXCEPT !.val = v].name = c.name /\ [c EXCEPT !.val = v].val = v
  BY DEF Commands
<1>5. QED
  BY <1>1, <1>2, <1>3, <1>4

\* A transfer may go on behind the commands that agree.
LEMMA AgreedReached ==
  ASSUME NEW from \in Contents, NEW to \in Contents, NEW t \in [Names -> Held], Partway(from, to, t),
         NEW f, \A p \in Paths : f[p] = Shown(p, from[p], FALSE),
         NEW op \in BeginOps, NEW begin \in BeginOps, NEW k \in Nat,
         k <= Len(Stream(op, from, to)), k <= Len(PartStream(begin, f, t)),
         \A i \in 1..k : Muted("source", Stream(op, from, to))[i] = Muted("mirror", PartStream(begin, f, t))[i]
  PROVE  Reached(from, to, t, FALSE, k)
<1>0. \A p \in Paths : from[p] \in Values \cup {NoFile} /\ to[p] \in Values \cup {NoFile}
  BY DEF Contents
<1>1. PICK s \in Seq(Commands(Values)) : s = Stream(op, from, to)
  BY <1>0, StreamCommands
<1>2. PICK r \in Seq(Commands(Held)) : r = PartStream(begin, f, t)
  BY PartTyped
<1>3. PICK M : \E n \in Nat : M = Middle(from, to) /\ n = Len(M) /\ \A j \in 1..n : s[j + 1] = M[j]
  <2>1. /\ Len(Middle(from, to)) \in Nat
        /\ \A j \in 1..Len(Middle(from, to)) : Stream(op, from, to)[j + 1] = Middle(from, to)[j]
    <3>1. PICK M, x : M = Middle(from, to) /\ x = Stream(op, from, to)
      OBVIOUS
    <3>2. Len(M) \in Nat /\ \A j \in 1..Len(M) : x[j + 1] = M[j] /\ M[j] \in AllCommands
      BY <3>1, StreamIs DEF IsStream
    <3>3. QED
      BY <3>1, <3>2
  <2>2. PICK M : M = Middle(from, to)
    OBVIOUS
  <2>3. Len(M) \in Nat /\ \A j \in 1..Len(M) : s[j + 1] = M[j]
    BY <1>1, <2>1, <2>2
  <2>4. PICK n \in Nat : n = Len(M)
    BY <2>3
  <2>5. QED
    BY <2>2, <2>3, <2>4
<1>4. PICK n \in Nat : M = Middle(from, to) /\ n = Len(M) /\ \A j \in 1..n : s[j + 1] = M[j]
  BY <1>3
<1>5. PICK N : \E m \in Nat : /\ N = PartMiddle(f, t) /\ m = Len(N) /\ Len(r) = m + 2 /\ r[m + 2] = Begin("end")
                              /\ \A j \in 1..m : r[j + 1] = N[j]
                              /\ N \in Seq(UNION {PartCommands(f, t, p) : p \in Paths})
  <2>1. /\ PartMiddle(f, t) \in Seq(UNION {PartCommands(f, t, p) : p \in Paths})
        /\ Len(PartStream(begin, f, t)) = Len(PartMiddle(f, t)) + 2
        /\ PartStream(begin, f, t)[Len(PartMiddle(f, t)) + 2] = Begin("end")
        /\ \A j \in 1..Len(PartMiddle(f, t)) : PartStream(begin, f, t)[j + 1] = PartMiddle(f, t)[j]
    BY PartTyped
  <2>2. Len(PartMiddle(f, t)) \in Nat
    BY <2>1
  <2>3. PICK N : N = PartMiddle(f, t)
    OBVIOUS
  <2>4. /\ N \in Seq(UNION {PartCommands(f, t, p) : p \in Paths}) /\ Len(N) \in Nat
        /\ Len(r) = Len(N) + 2 /\ r[Len(N) + 2] = Begin("end")
        /\ \A j \in 1..Len(N) : r[j + 1] = N[j]
    BY <1>2, <2>1, <2>2, <2>3
  <2>5. PICK m \in Nat : m = Len(N)
    BY <2>4
  <2>6. QED
    BY <2>3, <2>4, <2>5
<1>6. PICK m \in Nat : /\ N = PartMiddle(f, t) /\ m = Len(N) /\ Len(r) = m + 2 /\ r[m + 2] = Begin("end")
                        /\ \A j \in 1..m : r[j + 1] = N[j]
                        /\ N \in Seq(UNION {PartCommands(f, t, p) : p \in Paths})
  BY <1>5
<1>7. k <= Len(s) /\ k <= m + 2 /\ \A i \in 1..k : Muted("source", s)[i] = Muted("mirror", r)[i]
  BY <1>1, <1>2, <1>6
<1>8. ASSUME NEW p \in Paths, NEW j \in 1..Len(Change(p, from[p], to[p])), Place(from, to)[p] + j < k
      PROVE  /\ Change(p, from[p], to[p])[j].name # Orphan(p)
             /\ t[Orphan(p)] = NoFile => /\ t[File(p)] # Shown(p, from[p], FALSE)
                                         /\ Change(p, from[p], to[p])[j].op = "link" => t[File(p)] # NoFile
  <2>1. PICK c : c = Change(p, from[p], to[p])[j]
    OBVIOUS
  <2>2. PICK a \in 1..n : a = Place(from, to)[p] + j /\ M[a] = c
    BY <1>4, <2>1, PlaceIs DEF IsPlace
  <2>3. PICK i \in 1..k : i = a + 1
    <3>1. a \in Nat /\ a + 1 <= k
      BY <1>8, <2>2
    <3>2. QED
      BY <3>1
  <2>4. s[i] = c /\ i \in 1..Len(s) /\ i \in 1..Len(r)
    <3>1. s[a + 1] = M[a]
      BY <1>4
    <3>2. PICK l \in Nat : l = Len(s)
      OBVIOUS
    <3>3. i \in 1..l
      BY ONLY <1>7, <3>2, i \in 1..k, k \in Nat, l \in Nat
    <3>4. i \in 1..(m + 2)
      BY ONLY <1>7, i \in 1..k, k \in Nat, m \in Nat
    <3>5. QED
      BY <1>6, <2>2, <2>3, <3>1, <3>2, <3>3, <3>4
  <2>5. c \in CommandsOn(p)
    <3>1. Change(p, from[p], to[p]) \in Seq(CommandsOn(p))
      BY <1>0, ChangeTyped
    <3>2. QED
      BY <2>1, <3>1
  <2>6. c.name \in {File(p), Orphan(p)} /\ c.op # "end"
    BY <2>5 DEF CommandsOn, Cmd, Mk, Mv, Wr, Data, Sym, Ln, Rm, Attr
  <2>7. r[i].op = c.op /\ r[i].name = c.name
    BY <1>7, <2>4, MutedIs, SMTT(30)
  <2>8. c.name # Orphan(p)
    <3> SUFFICES ASSUME c.name = Orphan(p) PROVE FALSE
      OBVIOUS
    <3>1. Muted("source", s)[i].val = "source" /\ Muted("mirror", r)[i].val = "mirror"
      BY <2>4, <2>7, MutedIs
    <3>2. QED
      BY <1>7, <3>1
  <2>9. r[i] = N[a] /\ a \in 1..m
    <3>1. i # m + 2
      BY <1>6, <2>6, <2>7 DEF Begin, Cmd
    <3>2. a \in 1..m
      BY ONLY <1>7, <2>3, <3>1, a \in 1..n, n \in Nat, m \in Nat, k \in Nat, i \in 1..k
    <3>3. QED
      BY <1>6, <2>3, <3>2
  <2>10. PICK q \in Paths : r[i] \in PartCommands(f, t, q)
    <3>1. PICK S : S = UNION {PartCommands(f, t, p1) : p1 \in Paths}
      OBVIOUS
    <3>2. N \in Seq(S) /\ a \in 1..Len(N)
      BY <1>6, <2>9, <3>1
    <3>3. N[a] \in S
      BY ONLY <3>2
    <3>4. QED
      BY <2>9, <3>1, <3>3
  <2>11. r[i].name \in {File(q), Orphan(q)}
    BY <2>10 DEF PartCommands, NamedAs
  <2>12. p = q
    BY <2>6, <2>7, <2>8, <2>11 DEF File, Orphan
  <2>13. t[Orphan(p)] = NoFile => f[p] # t[File(p)] /\ (c.op = "link" => t[File(p)] # NoFile)
    BY <2>7, <2>10, <2>12 DEF PartCommands
  <2>14. QED
    BY <2>1, <2>8, <2>13
<1>9. ASSUME NEW p \in Paths PROVE Ready(p, from[p], to[p], t, FALSE, 0) /\ Within(p, from[p], to[p], t)
  BY DEF Partway, Reached
<1>10. ASSUME NEW p \in Paths, NEW j \in 1..Len(Change(p, from[p], to[p])), Place(from, to)[p] + j < k
      PROVE  Ready(p, from[p], to[p], t, FALSE, j)
  <2>1. \A i \in 1..j : Change(p, from[p], to[p])[i].name # Orphan(p)
    <3>1. ASSUME NEW i \in 1..j PROVE Change(p, from[p], to[p])[i].name # Orphan(p)
      <4>1. PICK l \in Nat : l = Len(Change(p, from[p], to[p]))
        BY <1>0, ChangeTyped
      <4>2. i \in 1..l
        BY <4>1
      <4>3. Place(from, to)[p] \in Nat /\ j \in Nat
        BY <4>1, PlaceIs
      <4>4. Place(from, to)[p] + i < k
        BY <1>10, <4>2, <4>3
      <4>5. QED
        BY <1>8, <4>1, <4>2, <4>4
    <3>2. QED
      BY <3>1
  <2>2. t[Orphan(p)] = NoFile => /\ t[File(p)] # Shown(p, from[p], FALSE)
                                 /\ Change(p, from[p], to[p])[j].op = "link" => t[File(p)] # NoFile
    BY <1>8, <1>10
  <2>3. QED
    BY <1>0, <1>9, <2>1, <2>2, Agreed
<1>11. QED
  BY <1>9, <1>10 DEF Reached

\* A copy of the one state is the beginning of a copy of the other.
LEMMA PartwayStart ==
  ASSUME NEW from \in Contents, NEW to \in Contents, NEW t, Holds(from, t, FALSE)
  PROVE  Partway(from, to, t)
<1>1. Reached(from, to, t, FALSE, 1)
  BY ReachedStart
<1>2. \A p \in Paths : t[File(p)] = Shown(p, from[p], FALSE)
  BY DEF Holds
<1>3. QED
  BY <1>1, <1>2 DEF Partway, Within

\* A command of the stream that succeeds takes it one further.
LEMMA CommandStep ==
  ASSUME NEW from \in Contents, NEW to \in Contents, NEW t \in [Names -> Held], NEW op \in BeginOps,
         NEW n \in Nat, n + 1 \in 1..Len(Stream(op, from, to)),
         NEW c, c = Stream(op, from, to)[n + 1], c.op \notin BeginOps \cup {"end"}, Succeeds(t, c),
         Partway(from, to, t), Reached(from, to, t, FALSE, n)
  PROVE  Partway(from, to, Applied(t, c)) /\ Reached(from, to, Applied(t, c), FALSE, n + 1)
<1>1. PICK M : M = Middle(from, to)
  OBVIOUS
<1>2. PICK s : s = Stream(op, from, to)
  OBVIOUS
<1>3. /\ Len(M) \in Nat /\ Len(s) = Len(M) + 2 /\ s[1] = Begin(op) /\ s[Len(M) + 2] = Begin("end")
      /\ \A j \in 1..Len(M) : s[j + 1] = M[j]
  <2>1. IsStream(op, M, s)
    BY <1>1, <1>2, StreamIs
  <2>2. QED
    BY <2>1 DEF IsStream
<1>4. n + 1 # 1 /\ n + 1 # Len(M) + 2
  BY <1>2, <1>3 DEF Begin, Cmd
<1>5. n \in 1..Len(M)
  BY <1>2, <1>3, <1>4
<1>6. c = M[n]
  BY <1>2, <1>3, <1>5
<1>7. PICK far \in BOOLEAN : far = FALSE
  OBVIOUS
<1>8. Can(t, far, c) /\ After(t, far, c) = Applied(t, c)
  BY <1>7 DEF Can, After
<1>9. Reached(from, to, After(t, far, c), far, n + 1)
  BY <1>1, <1>5, <1>6, <1>7, <1>8, ReachedStep
<1>10. Reached(from, to, Applied(t, c), FALSE, n + 1)
  BY <1>7, <1>8, <1>9
<1>11. Reached(from, to, Applied(t, c), FALSE, 1)
  <2>1. n + 1 \in Int /\ 1 \in Int /\ 1 <= n + 1
    OBVIOUS
  <2>2. QED
    BY <1>10, <2>1, ReachedLess
<1>12. PICK p \in Paths : \E k \in 1..Len(Change(p, from[p], to[p])) : n = Place(from, to)[p] + k
  BY <1>1, <1>5, PlaceIs DEF IsPlace
<1>13. PICK k \in 1..Len(Change(p, from[p], to[p])) : n = Place(from, to)[p] + k
  BY <1>12
<1>14. c = Change(p, from[p], to[p])[k]
  <2>1. Middle(from, to)[Place(from, to)[p] + k] = Change(p, from[p], to[p])[k]
    BY PlaceIs DEF IsPlace
  <2>2. QED
    BY <1>1, <1>6, <1>13, <2>1
<1>15. \A q \in Paths : from[q] \in Values \cup {NoFile} /\ to[q] \in Values \cup {NoFile}
  BY DEF Contents
<1>16. c \in CommandsOn(p)
  <2>1. Change(p, from[p], to[p]) \in Seq(CommandsOn(p))
    BY <1>15, ChangeTyped
  <2>2. QED
    BY <1>14, <2>1
<1>17. ASSUME NEW q \in Paths PROVE Within(q, from[q], to[q], Applied(t, c))
  <2>1. CASE q = p
    <3>1. Can(t, FALSE, Change(p, from[p], to[p])[k])
      BY <1>7, <1>8, <1>14
    <3>2. Within(p, from[p], to[p], After(t, FALSE, Change(p, from[p], to[p])[k]))
      BY <1>15, <3>1, WithinStep
    <3>3. QED
      BY <1>7, <1>8, <1>14, <2>1, <3>2
  <2>2. CASE q # p
    <3>1. Applied(t, c)[File(q)] = t[File(q)]
      BY <1>8, <1>16, <2>2, Apart
    <3>2. Within(q, from[q], to[q], t)
      BY DEF Partway
    <3>3. QED
      BY <3>1, <3>2 DEF Within
  <2>3. QED
    BY <2>1, <2>2
<1>18. QED
  BY <1>10, <1>11, <1>17 DEF Partway

-----------------------------------------------------------------------------
(* The invariant.                                                          *)

Volumes   == [there : BOOLEAN, tree : [Names -> Held], received : BOOLEAN, ro : BOOLEAN]
Comparing == {"diff", "compare", "overflow"}
Sending   == {"send", "starved", "read"}
Finishing == {"writable", "receive", "readonly"}
Pruning   == {"prune", "remove"}

SourceOK == /\ taken \in 0..MaxSnaps /\ snaps \subseteq 1..taken /\ src \subseteq 1..taken
            /\ content \in [Snaps -> Contents]
MirrorOK == /\ dest \in [Snaps -> Volumes]
            /\ \A s \in Snaps : dest[s].received => dest[s].there
            /\ base \in [Snaps -> 0..MaxSnaps] /\ mixed \in BOOLEAN
SyncOK   == /\ pc \in {"idle", "pick"} \cup Pruning \cup Comparing \cup Sending \cup Finishing
            /\ cur \in 0..MaxSnaps /\ parent \in 0..MaxSnaps /\ restore \in BOOLEAN
            /\ stream \in Seq(Commands(Values)) /\ idx \in 0..Len(stream) /\ start \in Nat
            /\ result \in {"none", "ok", "error"} /\ faults \in 0..MaxFaults
Types    == SourceOK /\ MirrorOK /\ SyncOK

\* While a sync is at work no snapshot comes, and what it works at is not a
\* complete copy.  A subvolume is there once a command of the stream has run,
\* and before the first one where the transfer is resumed.
Working == /\ pc # "idle" => snaps \subseteq src
           /\ pc \in Comparing \cup Sending \cup Finishing => cur \in src /\ parent < cur /\ parent \in src \cup {0}
           /\ pc \in Comparing \cup Sending \cup {"writable", "receive"} => ~dest[cur].received
           /\ pc \in Comparing \cup Finishing => dest[cur].there
           /\ pc = "readonly" => dest[cur].received
           /\ pc \in Sending /\ start > 0 => dest[cur].there
           /\ pc = "read" => /\ Len(stream) >= 2 /\ stream[1].op \in BeginOps
                             /\ idx > 0 => dest[cur].there
                             /\ stream[1].op = "snapshot" => parent # 0
           /\ pc = "remove" => cur \in Snaps \ src /\ ~dest[cur].ro

\* What a sync has passed.
Passed == IF pc = "idle" THEN {s \in src : result = "ok"}
          ELSE {s \in src : pc \in Pruning \/ s < cur \/ (s = cur /\ pc = "pick")}

\* As long as nothing goes wrong all of it is received, and what is received is
\* read-only until it is deleted; and a mirror holds nothing else when its prune
\* is over.
Marked == /\ faults = MaxFaults =>
                /\ \A s \in Snaps : dest[s].received => dest[s].ro \/ (pc \in {"readonly", "remove"} /\ s = cur)
                /\ \A s \in Passed : dest[s].received
          /\ pc = "idle" /\ result = "ok" => \A s \in Snaps \ src : ~dest[s].there

\* What is in the mirror was in the source, and was made from what was.
Rooted == \A s \in Snaps : dest[s].there => s \in 1..taken /\ base[s] \in 0..taken

\* Every subvolume of the mirror whose deletion has not begun is a copy or is on
\* the way to be one, from a copy that is there as long as the source has its
\* snapshot.
State(s) == IF s = 0 THEN Nothing ELSE content[s]
Begun(s) == dest[s].there /\ ~dest[s].received
Copy(s)  == /\ dest[s].received => Holds(content[s], dest[s].tree, FALSE)
            /\ Begun(s) => Partway(State(base[s]), content[s], dest[s].tree)
            /\ Begun(s) /\ base[s] \in snaps => dest[base[s]].received
Safe(s)  == s \in snaps \/ Kept(s)
Copies   == \A s \in Snaps : Safe(s) => Copy(s)

\* A transfer that goes on is one from the state it began with, and is as far as
\* it is taken to be; one that ended is complete.
Kind(from) == IF from = 0 THEN "subvol" ELSE "snapshot"
On(n) == Reached(State(base[cur]), content[cur], dest[cur].tree, FALSE, n)
SentFrom(from) == /\ stream = Stream(Kind(from), State(from), content[cur])
                  /\ idx > 0 \/ start > 0 => base[cur] = from /\ On(idx) /\ On(start)
Underway == /\ pc = "send" /\ start > 0 /\ base[cur] = parent /\ Against(parent) = parent => On(start)
            /\ pc = "read" => \E from \in {0, parent} : SentFrom(from)
            /\ pc \in {"writable", "receive"} => Holds(content[cur], dest[cur].tree, FALSE)

\* The inductive invariant.
IInv == Types /\ Working /\ Marked /\ Rooted /\ (~mixed => Copies /\ Underway)

\* What a sync works at, and its parent, are copies that nobody deletes.
LEMMA AtWork ==
  ASSUME Types, Working, Copies, pc \in Comparing \cup Sending \cup Finishing
  PROVE  Copy(cur) /\ (parent # 0 => Copy(parent))
<1>1. cur \in src /\ parent \in src \cup {0} /\ src \subseteq Snaps
  BY SubvolumeAssumption DEF Working, Types, SourceOK, Snaps
<1>2. \A s \in src : Copy(s)
  BY <1>1 DEF Copies, Safe, Kept
<1>3. QED
  BY <1>1, <1>2

LEMMA CurIs ==
  ASSUME Types, Working, pc \in Comparing \cup Sending \cup Finishing
  PROVE  cur \in Snaps /\ cur \in 1..MaxSnaps /\ dest[cur] \in Volumes /\ parent \in 0..MaxSnaps
BY SubvolumeAssumption DEF Types, SourceOK, MirrorOK, SyncOK, Working, Snaps

\* The stream of a sync.
LEMMA SentIs ==
  ASSUME Types, NEW p \in 0..MaxSnaps, NEW s \in Snaps
  PROVE  /\ SendStream(p, s) \in Seq(Commands(Values)) /\ Len(SendStream(p, s)) >= 2
         /\ SendStream(p, s)[1].op \in BeginOps
         /\ SendStream(p, s)[1].op = "snapshot" => p # 0
<1>1. content[s] \in Contents /\ \A q \in Paths : content[s][q] \in Values \cup {NoFile}
  BY DEF Types, SourceOK, Contents
<1>2. \A op \in BeginOps : Begin(op).op = op
  BY DEF Begin, Cmd
<1>3. "subvol" \in BeginOps /\ "snapshot" \in BeginOps
  BY DEF BeginOps
<1>4. 0 \notin snaps
  BY DEF Types, SourceOK
<1>5. CASE Against(p) = 0
  <2>1. SendStream(p, s) = Stream("subvol", Nothing, content[s])
    BY <1>5 DEF SendStream
  <2>2. QED
    BY <1>1, <1>2, <1>3, <2>1, StreamCommands
<1>6. CASE Against(p) # 0
  <2>1. SendStream(p, s) = Stream("snapshot", content[p], content[s]) /\ p # 0
    BY <1>6 DEF SendStream, Against
  <2>2. QED
    BY <1>1, <1>2, <1>3, <2>1, StreamCommands
<1>7. QED
  BY <1>5, <1>6

\* The stream of what is compared.
ParentShows == IF parent = 0 THEN Nothing ELSE Visible(dest[parent].tree)
PartBegin   == IF parent = 0 THEN "subvol" ELSE "snapshot"

LEMMA PartialIs ==
  ASSUME Types, Working, pc = "compare"
  PROVE  Partial = PartStream(PartBegin, ParentShows, dest[cur].tree) /\ Partial \in Seq(Commands(Held))
<1>1. PICK t \in [Names -> Held] : t = dest[cur].tree
  BY CurIs DEF Comparing, Volumes
<1>2. PICK f : f = ParentShows
  OBVIOUS
<1>3. \A i \in 1..Len(PathOrder) : Visible(t)[PathOrder[i]] = t[File(PathOrder[i])]
  BY PathsInOrder DEF Visible
<1>4. Partial = << Begin(PartBegin) >>
                \o FlattenSeq([i \in 1..Len(PathOrder) |->
                      (IF t[Orphan(PathOrder[i])] = NoFile THEN << >> ELSE Create(PathOrder[i], Blank))
                      \o Change(PathOrder[i], f[PathOrder[i]], Visible(t)[PathOrder[i]])])
                \o << Begin("end") >>
  BY <1>1, <1>2 DEF Partial, ParentShows, PartBegin
<1>5. PICK parts : parts = [i \in 1..Len(PathOrder) |-> PartOf(f, t, PathOrder[i])]
  OBVIOUS
<1>6. parts = [i \in 1..Len(PathOrder) |->
                  (IF t[Orphan(PathOrder[i])] = NoFile THEN << >> ELSE Create(PathOrder[i], Blank))
                  \o Change(PathOrder[i], f[PathOrder[i]], Visible(t)[PathOrder[i]])]
  BY <1>3, <1>5 DEF PartOf
<1>7. Partial = PartStream(PartBegin, f, t)
  BY <1>4, <1>5, <1>6 DEF PartStream, PartMiddle
<1>8. PartBegin \in BeginOps
  BY DEF PartBegin, BeginOps
<1>9. QED
  BY <1>1, <1>2, <1>7, <1>8, PartTyped

LEMMA OffsetIs ==
  ASSUME Types, Working, pc = "compare",
         NEW k, k = Agreeing(Muted("source", SendStream(parent, cur)), Muted("mirror", Partial))
  PROVE  /\ k \in Nat /\ k <= Len(SendStream(parent, cur)) /\ k <= Len(Partial)
         /\ \A i \in 1..k : Muted("source", SendStream(parent, cur))[i] = Muted("mirror", Partial)[i]
<1> DEFINE R(V, side) == [op : FileOps \cup BeginOps \cup {"end"}, name : Names \cup {NoFile},
                          to : Names \cup {NoFile}, val : V \cup {NoFile, side}]
           A == Muted("source", SendStream(parent, cur))
           B == Muted("mirror", Partial)
           S == R(Values, "source") \cup R(Held, "mirror")
<1>0. SendStream(parent, cur) \in Seq(Commands(Values)) /\ Partial \in Seq(Commands(Held))
  BY CurIs, SentIs, PartialIs DEF Comparing
<1>1. A \in Seq(R(Values, "source")) /\ Len(A) = Len(SendStream(parent, cur))
  <2>1. DOMAIN A = DOMAIN SendStream(parent, cur)
    BY DEF Muted
  <2>2. A \in Seq(R(Values, "source"))
    BY <1>0, MutedTyped
  <2> HIDE DEF A, R
  <2>3. QED
    BY <1>0, <2>1, <2>2, LenProperties
<1>2. B \in Seq(R(Held, "mirror")) /\ Len(B) = Len(Partial)
  <2>1. DOMAIN B = DOMAIN Partial
    BY DEF Muted
  <2>2. B \in Seq(R(Held, "mirror"))
    BY <1>0, MutedTyped
  <2> HIDE DEF B, R
  <2>3. QED
    BY <1>0, <2>1, <2>2, LenProperties
<1>3. PICK a, b : a = A /\ b = B
  OBVIOUS
<1>4. a \in Seq(S) /\ b \in Seq(S)
  <2> HIDE DEF R, A, B
  <2>1. QED
    BY <1>1, <1>2, <1>3
<1>5. k \in 0..Len(a) /\ k <= Len(b) /\ SubSeq(a, 1, k) = SubSeq(b, 1, k)
  <2>1. k = Agreeing(a, b)
    BY <1>3
  <2> HIDE DEF S
  <2>2. QED
    BY <1>4, <2>1, AgreeingIs
<1>6. PICK la \in Nat, lb \in Nat : la = Len(a) /\ lb = Len(b)
  BY <1>4
<1>7. k \in Nat /\ k <= la /\ k <= lb
  BY <1>5, <1>6
<1>8. ASSUME NEW i \in 1..k PROVE a[i] = b[i]
  <2>1. SubSeq(a, 1, k) = [j \in 1..k |-> a[j]] /\ SubSeq(b, 1, k) = [j \in 1..k |-> b[j]]
    BY <1>4, <1>6, <1>7
  <2>2. [j \in 1..k |-> a[j]][i] = [j \in 1..k |-> b[j]][i]
    BY <1>5, <2>1
  <2>3. QED
    BY <2>2
<1>9. QED
  BY <1>1, <1>2, <1>3, <1>6, <1>7, <1>8

-----------------------------------------------------------------------------
(* What the steps do to the mirror.                                        *)

\* What a step does to a subvolume of the mirror.
SetsReadOnly(b) == dest' = [dest EXCEPT ![cur].ro = b]
Creates(tree)   == dest' = [dest EXCEPT ![cur] = Volume(tree)]
Writes(tree)    == dest' = [dest EXCEPT ![cur].tree = tree]
Completes       == dest' = [dest EXCEPT ![cur].received = TRUE]
Unlocks(s)      == dest' = [dest EXCEPT ![s].ro = FALSE]
Removes         == dest' = [dest EXCEPT ![cur] = NoVol]

LEMMA CommandIs ==
  ASSUME Types, More
  PROVE  Next1 \in Commands(Values) /\ idx + 1 \in 1..Len(stream) /\ idx \in Nat /\ idx + 1 \in Nat
<1>1. stream \in Seq(Commands(Values)) /\ idx \in 0..Len(stream) /\ idx < Len(stream)
  BY DEF Types, SyncOK, More
<1>2. Len(stream) \in Nat
  BY <1>1
<1>3. idx + 1 \in 1..Len(stream) /\ idx \in Nat /\ idx + 1 \in Nat
  BY <1>1, <1>2
<1>4. PICK n : n = idx + 1 /\ n \in 1..Len(stream)
  BY <1>3
<1>5. stream[n] \in Commands(Values)
  BY <1>1, <1>4
<1>6. QED
  BY <1>3, <1>4, <1>5 DEF Next1

LEMMA BeginIs ==
  ASSUME Types, Working, BeginSubvolume
  PROVE  /\ pc = "read" /\ UNCHANGED <<taken, snaps, content, src, cur, parent, restore, stream, start, faults, mixed>>
         /\ \/ pc' = "idle" /\ result' = "error" /\ UNCHANGED <<dest, idx, base>>
            \/ /\ UNCHANGED <<pc, result>> /\ idx' = idx + 1 /\ ~dest[cur].there
               /\ \E tree \in [Names -> Held] : Creates(tree)
               /\ \E b \in 0..MaxSnaps : base' = [base EXCEPT ![cur] = b]
<1> USE DEF source
<1>1. pc = "read" /\ UNCHANGED <<taken, snaps, content, src, cur, parent, restore, stream, start, faults, mixed>>
  BY DEF BeginSubvolume, More
<1>2. CASE Abort /\ UNCHANGED <<dest, idx, base>>
  BY <1>1, <1>2 DEF Abort
<1>3. CASE ~(Abort /\ UNCHANGED <<dest, idx, base>>)
  <2>1. /\ ~dest[cur].there /\ idx' = idx + 1 /\ UNCHANGED <<pc, result>> /\ More
        /\ Next1.op = "snapshot" => Synced(parent)
        /\ dest' = [dest EXCEPT ![cur] = Volume(IF Next1.op = "subvol" THEN Empty ELSE dest[parent].tree)]
        /\ base' = [base EXCEPT ![cur] = IF Next1.op = "subvol" THEN 0 ELSE parent]
        /\ Next1.op \in {"subvol", "snapshot"}
    BY <1>3 DEF BeginSubvolume
  <2>2. parent \in 0..MaxSnaps /\ 0 \in 0..MaxSnaps /\ idx \in Nat
    BY <2>1, CommandIs, SubvolumeAssumption DEF Types, SyncOK
  <2>3. Next1 = stream[1]
    <3>1. idx = 0
      BY <1>1, <2>1, <2>2 DEF Working
    <3>2. QED
      BY <3>1 DEF Next1
  <2>4. Next1.op # "subvol" => parent \in Snaps
    <3>1. Next1.op # "subvol" => parent # 0
      BY <1>1, <2>1, <2>3 DEF Working
    <3>2. QED
      BY <2>2, <3>1, SubvolumeAssumption DEF Snaps
  <2>5. Empty \in [Names -> Held]
    BY DEF Empty, Held
  <2>6. Next1.op # "subvol" => dest[parent].tree \in [Names -> Held]
    BY <2>4 DEF Types, MirrorOK, Volumes
  <2>7. PICK tree \in [Names -> Held] : tree = IF Next1.op = "subvol" THEN Empty ELSE dest[parent].tree
    BY <2>5, <2>6
  <2>8. Creates(tree)
    BY <2>1, <2>7 DEF Creates
  <2>9. PICK b \in 0..MaxSnaps : b = IF Next1.op = "subvol" THEN 0 ELSE parent
    BY <2>2
  <2>10. QED
    BY <1>1, <2>1, <2>8, <2>9
<1>4. QED
  BY <1>2, <1>3

LEMMA DoIs ==
  ASSUME Types, Working, DoCommand
  PROVE  /\ pc = "read" /\ UNCHANGED <<taken, snaps, content, src, cur, parent, restore, stream, start, faults, base, mixed>>
         /\ \/ pc' = "idle" /\ result' = "error" /\ UNCHANGED <<dest, idx>>
            \/ /\ UNCHANGED <<pc, result>> /\ idx' = idx + 1 /\ Next1.op \in FileOps /\ start <= idx
               /\ \E tree \in [Names -> Held] : Writes(tree)
<1> USE DEF source, history
<1>1. /\ pc = "read" /\ start <= idx
      /\ UNCHANGED <<taken, snaps, content, src, cur, parent, restore, stream, start, faults, base, mixed>>
  BY DEF DoCommand, More
<1>2. CASE Abort /\ UNCHANGED <<dest, idx>>
  BY <1>1, <1>2 DEF Abort
<1>3. CASE ~(Abort /\ UNCHANGED <<dest, idx>>)
  <2>1. /\ idx' = idx + 1 /\ UNCHANGED <<pc, result>> /\ More /\ Next1.op \notin {"subvol", "snapshot", "end"}
        /\ dest' = [dest EXCEPT ![cur].tree = Applied(@, Next1)]
    BY <1>3 DEF DoCommand
  <2>2. Next1 \in Commands(Values) /\ Next1.op \in FileOps
    BY <2>1, CommandIs DEF Commands, BeginOps
  <2>3. dest[cur].tree \in [Names -> Held]
    BY <1>1, CurIs DEF Sending, Volumes
  <2>4. PICK tree \in [Names -> Held] : tree = Applied(dest[cur].tree, Next1)
    BY <2>2, <2>3, AppliedTyped
  <2>5. Writes(tree)
    BY <1>1, <2>1, <2>4, CurIs DEF Writes, Sending, Types, MirrorOK
  <2>6. QED
    BY <1>1, <2>1, <2>2, <2>5
<1>4. QED
  BY <1>2, <1>3

\* One file less in a copy that is being deleted.
LEMMA RemovesIs ==
  ASSUME Types, Working, NEW n \in Names, RemoveFile(n)
  PROVE  /\ pc = "remove" /\ UNCHANGED <<taken, snaps, content, pc, src, task, result, faults, base, mixed>>
         /\ \E tree \in [Names -> Held] : Writes(tree)
<1>1. /\ pc = "remove" /\ dest' = [dest EXCEPT ![cur].tree[n] = NoFile]
      /\ UNCHANGED <<taken, snaps, content, pc, src, task, result, faults, base, mixed>>
  BY DEF RemoveFile, source, history
<1>2. cur \in Snaps /\ dest \in [Snaps -> Volumes] /\ dest[cur].tree \in [Names -> Held]
  BY <1>1 DEF Working, Types, MirrorOK, Volumes
<1>3. PICK tree : tree = [dest[cur].tree EXCEPT ![n] = NoFile]
  OBVIOUS
<1>4. tree \in [Names -> Held]
  BY <1>2, <1>3 DEF Held
<1>5. Writes(tree)
  BY <1>1, <1>3 DEF Writes
<1>6. QED
  BY <1>1, <1>4, <1>5

LEMMA DestChange ==
  ASSUME Types, Working, [Next]_vars
  PROVE  \/ UNCHANGED dest
         \/ pc \in Comparing \cup {"writable"} /\ \E b \in BOOLEAN : SetsReadOnly(b)
         \/ pc = "readonly" /\ SetsReadOnly(TRUE)
         \/ pc = "read" /\ ~dest[cur].there /\ \E tree \in [Names -> Held] : Creates(tree)
         \/ pc = "read" /\ \E tree \in [Names -> Held] : Writes(tree)
         \/ pc = "receive" /\ Completes
         \/ pc = "prune" /\ pc' = "remove" /\ cur' \in Snaps \ src /\ Unlocks(cur')
         \/ pc = "remove" /\ UNCHANGED <<pc, cur>> /\ \E tree \in [Names -> Held] : Writes(tree)
         \/ pc = "remove" /\ Removes
<1>1. CASE UNCHANGED vars
  BY <1>1 DEF vars
<1>2. CASE Source
  BY <1>2 DEF Source, TakeSnapshot, Expire
<1>3. CASE Sync
  <2>1. CASE BeginSubvolume
    BY <2>1, BeginIs
  <2>2. CASE DoCommand
    BY <2>2, DoIs
  <2>3. CASE DiffBegin \/ DiffEnd \/ DiffFails \/ DiffCollected \/ MakeWritable \/ MakeReadOnly
    BY <2>3 DEF DiffBegin, DiffEnd, DiffFails, DiffCollected, MakeWritable, MakeReadOnly, Comparing, SetsReadOnly
  <2>4. CASE SetReceived
    BY <2>4 DEF SetReceived, Completes
  <2>5. ASSUME NEW s \in Snaps, PruneMirror(s)
        PROVE  pc = "prune" /\ pc' = "remove" /\ cur' \in Snaps \ src /\ Unlocks(cur')
    BY <2>5 DEF PruneMirror, MirrorExpired, Unlocks
  <2>6. ASSUME NEW n \in Names, RemoveFile(n)
        PROVE  pc = "remove" /\ UNCHANGED <<pc, cur>> /\ \E tree \in [Names -> Held] : Writes(tree)
    BY <2>6, RemovesIs DEF task
  <2>7. CASE RemoveVolume
    BY <2>7 DEF RemoveVolume, Removes
  <2>8. QED
    BY <1>3, <2>1, <2>2, <2>3, <2>4, <2>5, <2>6, <2>7 DEF Sync, StartSync, PickSnapshot, AllSynced, FinishRun, DiffGone,
       Send, SendGone, SendCollected, SkipCommand, StreamEnds
<1>4. CASE DiffOverflows \/ StreamBreaks \/ FinishFails \/ Crash
  BY <1>4 DEF DiffOverflows, StreamBreaks, FinishFails, Crash
<1>5. QED
  BY <1>1, <1>2, <1>3, <1>4 DEF Next

\* The subvolumes a step leaves alone, and what it keeps of the others.
LEMMA DestKeeps ==
  ASSUME Types, Working, [Next]_vars
  PROVE  /\ dest' \in [Snaps -> Volumes]
         /\ \A s \in Snaps : dest'[s].received => dest'[s].there
         /\ \A s \in Snaps : \/ dest'[s] = dest[s]
                             \/ s = cur /\ pc \in Comparing \cup Sending \cup Finishing
                             \/ /\ s \notin src /\ pc \in Pruning
                                /\ dest'[s] = NoVol \/ (pc' = "remove" /\ s = cur')
<1> USE DEF Types, MirrorOK
<1>1. CASE UNCHANGED dest
  BY <1>1
<1>2. ASSUME pc \in Comparing \cup Sending \cup Finishing, NEW v \in Volumes, v.received => v.there, dest' = [dest EXCEPT ![cur] = v]
      PROVE  /\ dest' \in [Snaps -> Volumes]
             /\ \A s \in Snaps : dest'[s].received => dest'[s].there
             /\ \A s \in Snaps : dest'[s] = dest[s] \/ s = cur
  <2>1. cur \in Snaps
    BY <1>2, CurIs
  <2>2. QED
    BY <1>2, <2>1
<1>3. ASSUME pc \in Comparing \cup Finishing, NEW b \in BOOLEAN, SetsReadOnly(b)
      PROVE  \E v \in Volumes : (v.received => v.there) /\ dest' = [dest EXCEPT ![cur] = v]
  <2>1. cur \in Snaps /\ dest[cur] \in Volumes
    BY <1>3, CurIs
  <2>2. PICK v : v = [dest[cur] EXCEPT !.ro = b]
    OBVIOUS
  <2>3. v \in Volumes /\ (v.received => v.there)
    BY <2>1, <2>2 DEF Volumes
  <2>4. dest' = [dest EXCEPT ![cur] = v]
    BY <1>3, <2>1, <2>2 DEF SetsReadOnly
  <2>5. QED
    BY <2>3, <2>4
<1>4. ASSUME NEW tree \in [Names -> Held], Creates(tree)
      PROVE  \E v \in Volumes : (v.received => v.there) /\ dest' = [dest EXCEPT ![cur] = v]
  <2>1. Volume(tree) \in Volumes /\ ~Volume(tree).received
    BY DEF Volume, Volumes
  <2>2. QED
    BY <1>4, <2>1 DEF Creates
<1>5. ASSUME pc = "read", NEW tree \in [Names -> Held], Writes(tree)
      PROVE  \E v \in Volumes : (v.received => v.there) /\ dest' = [dest EXCEPT ![cur] = v]
  <2>1. cur \in Snaps /\ dest[cur] \in Volumes
    BY <1>5, CurIs DEF Sending
  <2>2. PICK v : v = [dest[cur] EXCEPT !.tree = tree]
    OBVIOUS
  <2>3. v \in Volumes /\ (v.received => v.there)
    BY <2>1, <2>2 DEF Volumes
  <2>4. dest' = [dest EXCEPT ![cur] = v]
    BY <1>5, <2>1, <2>2 DEF Writes
  <2>5. QED
    BY <2>3, <2>4
<1>6. ASSUME pc = "receive", Completes
      PROVE  \E v \in Volumes : (v.received => v.there) /\ dest' = [dest EXCEPT ![cur] = v]
  <2>1. cur \in Snaps /\ dest[cur] \in Volumes /\ dest[cur].there
    BY <1>6, CurIs DEF Finishing, Working
  <2>2. PICK v : v = [dest[cur] EXCEPT !.received = TRUE]
    OBVIOUS
  <2>3. v \in Volumes /\ (v.received => v.there)
    BY <2>1, <2>2 DEF Volumes
  <2>4. dest' = [dest EXCEPT ![cur] = v]
    BY <1>6, <2>1, <2>2 DEF Completes
  <2>5. QED
    BY <2>3, <2>4
<1>7. CASE pc = "prune" /\ pc' = "remove" /\ cur' \in Snaps \ src /\ Unlocks(cur')
  <2>1. PICK s \in Snaps \ src : s = cur' /\ dest' = [dest EXCEPT ![s].ro = FALSE]
    BY <1>7 DEF Unlocks
  <2>2. PICK v : v = [dest[s] EXCEPT !.ro = FALSE]
    OBVIOUS
  <2>3. v \in Volumes /\ (v.received => v.there) /\ dest' = [dest EXCEPT ![s] = v]
    BY <2>1, <2>2 DEF Volumes
  <2>4. QED
    BY <1>7, <2>1, <2>3 DEF Pruning
<1>8. CASE pc = "remove" /\ Removes
  <2>1. cur \in Snaps \ src
    BY <1>8 DEF Working
  <2>2. NoVol \in Volumes /\ ~NoVol.received
    BY DEF NoVol, Volumes, Empty, Held
  <2>3. QED
    BY <1>8, <2>1, <2>2 DEF Removes, Pruning
<1>10. ASSUME pc = "remove", UNCHANGED <<pc, cur>>, NEW tree \in [Names -> Held], Writes(tree)
       PROVE  /\ dest' \in [Snaps -> Volumes]
              /\ \A s \in Snaps : dest'[s].received => dest'[s].there
              /\ \A s \in Snaps : dest'[s] = dest[s] \/ (s \notin src /\ pc \in Pruning /\ pc' = "remove" /\ s = cur')
  <2>1. cur \in Snaps \ src
    BY <1>10 DEF Working
  <2>2. PICK v : v = [dest[cur] EXCEPT !.tree = tree]
    OBVIOUS
  <2>3. v \in Volumes /\ (v.received => v.there)
    BY <2>1, <2>2 DEF Volumes
  <2>4. dest' = [dest EXCEPT ![cur] = v]
    BY <1>10, <2>1, <2>2 DEF Writes
  <2>5. QED
    BY <1>10, <2>1, <2>3, <2>4 DEF Pruning
<1>9. CASE /\ pc \in Comparing \cup Sending \cup Finishing
           /\ \E v \in Volumes : (v.received => v.there) /\ dest' = [dest EXCEPT ![cur] = v]
  BY <1>2, <1>9
<1>11. QED
  <2>1. CASE pc \in Comparing \cup {"writable"} /\ \E b \in BOOLEAN : SetsReadOnly(b)
    BY <1>3, <1>9, <2>1 DEF Finishing
  <2>2. CASE pc = "readonly" /\ SetsReadOnly(TRUE)
    BY <1>3, <1>9, <2>2 DEF Finishing
  <2>3. CASE pc = "read" /\ \E tree \in [Names -> Held] : Creates(tree)
    BY <1>4, <1>9, <2>3 DEF Sending
  <2>4. CASE pc = "read" /\ \E tree \in [Names -> Held] : Writes(tree)
    BY <1>5, <1>9, <2>4 DEF Sending
  <2>5. CASE pc = "receive" /\ Completes
    BY <1>6, <1>9, <2>5 DEF Finishing
  <2>6. CASE pc = "remove" /\ UNCHANGED <<pc, cur>> /\ \E tree \in [Names -> Held] : Writes(tree)
    BY <1>10, <2>6
  <2>7. QED
    BY <1>1, <1>7, <1>8, <2>1, <2>2, <2>3, <2>4, <2>5, <2>6, DestChange

-----------------------------------------------------------------------------
(* Types.                                                                  *)

LEMMA SourceStep ==
  ASSUME Types, [Next]_vars
  PROVE  SourceOK'
<1> USE DEF source
<1>0. SourceOK /\ MaxSnaps \in Nat
  BY SubvolumeAssumption DEF Types
<1>1. CASE TakeSnapshot
  <2>1. PICK c \in Contents : content' = [content EXCEPT ![taken + 1] = c]
    BY <1>1 DEF TakeSnapshot
  <2>2. taken' = taken + 1 /\ taken < MaxSnaps /\ snaps' = snaps \cup {taken + 1} /\ src' = src
    BY <1>1 DEF TakeSnapshot
  <2>3. taken \in 0..MaxSnaps /\ taken \in Nat
    BY <1>0 DEF SourceOK
  <2>4. taken' \in 0..MaxSnaps /\ snaps' \subseteq 1..taken' /\ src' \subseteq 1..taken'
    BY <1>0, <2>2, <2>3 DEF SourceOK
  <2>5. content' \in [Snaps -> Contents]
    BY <1>0, <2>1 DEF SourceOK
  <2>6. QED
    BY <2>4, <2>5 DEF SourceOK
<1>2. ASSUME NEW s \in Snaps, Expire(s) PROVE SourceOK'
  BY <1>0, <1>2 DEF Expire, SourceOK
<1>3. CASE StartSync
  BY <1>0, <1>3 DEF StartSync, SourceOK
<1>4. CASE UNCHANGED <<taken, snaps, content, src>>
  BY <1>0, <1>4 DEF SourceOK
<1>5. CASE Sync /\ ~StartSync
  BY <1>4, <1>5 DEF Sync, PickSnapshot, AllSynced, FinishRun, DiffBegin, DiffGone, DiffFails, DiffEnd, DiffCollected,
     Send, SendGone, SendCollected, SkipCommand, BeginSubvolume, DoCommand, StreamEnds,
     MakeWritable, SetReceived, MakeReadOnly, PruneMirror, RemoveFile, RemoveVolume
<1>6. CASE DiffOverflows \/ StreamBreaks \/ FinishFails \/ Crash \/ UNCHANGED vars
  BY <1>4, <1>6 DEF DiffOverflows, StreamBreaks, FinishFails, Crash, vars
<1>7. QED
  BY <1>1, <1>2, <1>3, <1>5, <1>6 DEF Next, Source

LEMMA HistoryStep ==
  ASSUME Types, Working, [Next]_vars
  PROVE  base' \in [Snaps -> 0..MaxSnaps] /\ mixed' \in BOOLEAN
<1> USE DEF history
<1>0. base \in [Snaps -> 0..MaxSnaps] /\ mixed \in BOOLEAN /\ 0 \in 0..MaxSnaps
  BY SubvolumeAssumption DEF Types, MirrorOK
<1>1. CASE BeginSubvolume
  BY <1>0, <1>1, BeginIs
<1>2. CASE Send
  BY <1>0, <1>2 DEF Send
<1>3. ASSUME NEW s \in Snaps, PruneMirror(s) PROVE base' \in [Snaps -> 0..MaxSnaps] /\ mixed' \in BOOLEAN
  BY <1>0, <1>3 DEF PruneMirror
<1>4. ASSUME NEW n \in Names, RemoveFile(n) PROVE base' \in [Snaps -> 0..MaxSnaps] /\ mixed' \in BOOLEAN
  BY <1>0, <1>4 DEF RemoveFile
<1>5. CASE RemoveVolume
  BY <1>0, <1>5 DEF RemoveVolume
<1>6. CASE UNCHANGED <<base, mixed>>
  BY <1>0, <1>6
<1>7. CASE Source \/ DiffOverflows \/ StreamBreaks \/ FinishFails \/ Crash \/ UNCHANGED vars
  BY <1>6, <1>7 DEF Source, TakeSnapshot, Expire, DiffOverflows, StreamBreaks, FinishFails, Crash, vars
<1>8. CASE Sync
  BY <1>1, <1>2, <1>3, <1>6, <1>8, <1>4, <1>5 DEF Sync, StartSync, PickSnapshot, AllSynced, FinishRun, DiffBegin, DiffGone, DiffFails,
     DiffEnd, DiffCollected, SendGone, SendCollected, SkipCommand, DoCommand, StreamEnds, MakeWritable, SetReceived, MakeReadOnly
<1>9. QED
  BY <1>7, <1>8 DEF Next

\* PickSnapshot takes the snapshots in order, and each one's parent before it.
LEMMA PickIs ==
  ASSUME Types, PickSnapshot
  PROVE  /\ cur' \in src /\ cur' \in 1..MaxSnaps /\ parent' \in 0..MaxSnaps /\ parent' < cur' /\ parent' \in src \cup {0}
         /\ \A s \in src : s < cur' => s <= cur
<1>1. src \in SUBSET (1..MaxSnaps) /\ MaxSnaps \in Nat /\ cur \in 0..MaxSnaps
  BY SubvolumeAssumption DEF Types, SourceOK, SyncOK
<1>2. Ahead \in SUBSET Nat /\ Ahead # {} /\ cur' = Min(Ahead) /\ parent' = ParentOf(cur')
  <2>1. Ahead \in SUBSET Nat
    <3>1. Ahead \subseteq src /\ src \subseteq Nat
      BY <1>1 DEF Ahead
    <3>2. QED
      BY <3>1
  <2>2. Ahead # {} /\ cur' = Min(Ahead) /\ parent' = ParentOf(cur')
    BY DEF PickSnapshot
  <2>3. QED
    BY <2>1, <2>2
<1>3. cur' \in Ahead /\ \A s \in Ahead : cur' <= s
  BY <1>2, MinOfNat
<1>4. cur' \in src /\ cur' \in 1..MaxSnaps
  BY <1>1, <1>3 DEF Ahead
<1>5. ASSUME NEW s \in src, s < cur' PROVE s <= cur
  BY <1>1, <1>3, <1>4, <1>5 DEF Ahead
<1>6. PICK T : T = {0} \cup {t \in src : t < cur'}
  OBVIOUS
<1>7. T \in SUBSET (0..MaxSnaps) /\ T # {} /\ \A t \in T : t < cur'
  <2>1. PICK c \in 1..MaxSnaps : c = cur'
    BY <1>4
  <2>2. T = {0} \cup {t \in src : t < c}
    BY <1>6, <2>1
  <2>3. \A t \in T : t \in 0..MaxSnaps /\ t < c
    BY <1>1, <2>2
  <2>4. 0 \in T
    BY <2>2
  <2>5. QED
    BY <2>1, <2>3, <2>4
<1>8. parent' = Max(T)
  BY <1>2, <1>6 DEF ParentOf
<1>9. parent' \in T
  BY <1>1, <1>7, <1>8, MaxOfNat
<1>10. QED
  BY <1>4, <1>5, <1>6, <1>7, <1>9

LEMMA SyncOKStep ==
  ASSUME Types, Working, [Next]_vars
  PROVE  SyncOK'
<1> USE DEF task
<1>0. SyncOK /\ MaxFaults \in Nat /\ MaxSnaps \in Nat /\ Len(stream) \in Nat
  BY SubvolumeAssumption DEF Types, SyncOK
<1>1. faults' \in 0..MaxFaults
  <2>1. faults' = faults \/ Fault
    BY DEF Next, Source, TakeSnapshot, Expire, Sync, StartSync, PickSnapshot, AllSynced, FinishRun, DiffBegin, DiffGone,
       DiffFails, DiffEnd, DiffCollected, Send, SendGone, SendCollected, SkipCommand, BeginSubvolume, DoCommand, StreamEnds,
       MakeWritable, SetReceived, MakeReadOnly, PruneMirror, RemoveFile, RemoveVolume, DiffOverflows, StreamBreaks, FinishFails, Crash, vars
  <2>2. QED
    BY <1>0, <2>1 DEF SyncOK, Fault
<1>2. /\ pc' \in {"idle", "pick"} \cup Pruning \cup Comparing \cup Sending \cup Finishing
      /\ result' \in {"none", "ok", "error"}
  <2>1. CASE UNCHANGED <<pc, result>>
    BY <1>0, <2>1 DEF SyncOK
  <2>2. CASE Abort
    BY <2>2 DEF Abort
  <2>3. CASE BeginSubvolume \/ DoCommand
    BY <2>1, <2>2, <2>3 DEF BeginSubvolume, DoCommand
  <2>4. CASE ~(BeginSubvolume \/ DoCommand)
    BY <1>0, <2>1, <2>2, <2>4 DEF Next, Source, TakeSnapshot, Expire, Sync, StartSync, PickSnapshot, AllSynced, FinishRun,
       DiffBegin, DiffGone, DiffFails, DiffEnd, DiffCollected, Send, SendGone, SendCollected, SkipCommand, StreamEnds,
       MakeWritable, SetReceived, MakeReadOnly, PruneMirror, RemoveFile, RemoveVolume, DiffOverflows, StreamBreaks, FinishFails, Crash, vars,
       Comparing, Sending, Finishing, Pruning, SyncOK
  <2>5. QED
    BY <2>3, <2>4
<1>3. /\ cur' \in 0..MaxSnaps /\ parent' \in 0..MaxSnaps /\ restore' \in BOOLEAN /\ start' \in Nat
      /\ stream' \in Seq(Commands(Values)) /\ idx' \in 0..Len(stream')
  <2>1. CASE UNCHANGED task
    BY <1>0, <2>1 DEF SyncOK
  <2>2. CASE StartSync
    BY <1>0, <2>2 DEF StartSync, SyncOK
  <2>3. CASE PickSnapshot
    BY <1>0, <2>3, PickIs DEF PickSnapshot, SyncOK
  <2>4. CASE DiffBegin
    <3>1. dest[cur].ro \in BOOLEAN
      BY <2>4, CurIs DEF DiffBegin, Comparing, Volumes
    <3>2. QED
      BY <1>0, <2>4, <3>1 DEF DiffBegin, SyncOK
  <2>5. CASE DiffEnd
    <3>1. PICK k : k = Agreeing(Muted("source", SendStream(parent, cur)), Muted("mirror", Partial))
      OBVIOUS
    <3>2. k \in Nat
      BY <2>5, <3>1, OffsetIs DEF DiffEnd
    <3>3. start' \in {Min({1, k}), k}
      BY <2>5, <3>1 DEF DiffEnd
    <3>4. Min({1, k}) \in {1, k}
      BY <3>2, MinOfNat
    <3>5. start' \in Nat
      BY <3>2, <3>3, <3>4
    <3>6. QED
      BY <1>0, <2>5, <3>5 DEF DiffEnd, SyncOK
  <2>6. CASE Send
    <3>1. SendStream(parent, cur) \in Seq(Commands(Values))
      BY <1>0, <2>6, CurIs, SentIs DEF Send, Sending, SyncOK
    <3>2. QED
      BY <1>0, <2>6, <3>1 DEF Send, SyncOK
  <2>7. CASE UNCHANGED <<cur, parent, restore, stream, start>> /\ (idx' = idx \/ (More /\ idx' = idx + 1))
    <3>1. idx' \in 0..Len(stream)
      BY <1>0, <2>7, CommandIs DEF SyncOK
    <3>2. QED
      BY <1>0, <2>7, <3>1 DEF SyncOK
  <2>8. CASE SkipCommand \/ BeginSubvolume \/ DoCommand
    BY <2>7, <2>8 DEF SkipCommand, BeginSubvolume, DoCommand
  <2>9. ASSUME NEW s \in Snaps, PruneMirror(s)
         PROVE  UNCHANGED <<parent, restore, stream, idx, start>> /\ cur' \in 0..MaxSnaps
    BY <1>0, <2>9 DEF PruneMirror, Snaps
  <2>10. CASE Sync
    BY <1>0, <2>1, <2>2, <2>3, <2>4, <2>5, <2>6, <2>8, <2>10, <2>9 DEF Sync, AllSynced, FinishRun, DiffGone,
       DiffFails, DiffCollected, SendGone, SendCollected, StreamEnds, MakeWritable, SetReceived, MakeReadOnly, RemoveFile, RemoveVolume,
       SyncOK
  <2>11. CASE ~Sync
    BY <2>1, <2>11 DEF Next, Source, TakeSnapshot, Expire, DiffOverflows, StreamBreaks, FinishFails, Crash, vars
  <2>12. QED
    BY <2>10, <2>11
<1>4. QED
  BY <1>1, <1>2, <1>3 DEF SyncOK

LEMMA TypesStep == Types /\ Working /\ [Next]_vars => Types'
BY SourceStep, HistoryStep, DestKeeps, SyncOKStep DEF Types, MirrorOK

-----------------------------------------------------------------------------
(* What a sync works at.                                                   *)

\* The places a step can come to, from where.
LEMMA WorkingStep == Types /\ Working /\ [Next]_vars => Working'
<1> SUFFICES ASSUME Types, Working, [Next]_vars PROVE Working'
  OBVIOUS
<1> USE DEF source, task, Comparing, Sending, Finishing
<1>1. CASE UNCHANGED vars
  BY <1>1 DEF vars, Working
<1>2. CASE pc' = "idle"
  BY <1>2 DEF Working
<1>3. CASE Source
  <2>1. UNCHANGED <<dest, pc, src, cur, parent, stream, idx, start>>
    BY <1>3 DEF Source, TakeSnapshot, Expire
  <2>2. pc # "idle" => snaps' \subseteq snaps
    BY <1>3 DEF Source, TakeSnapshot, Expire
  <2>3. QED
    BY <2>1, <2>2 DEF Working
<1>4. CASE StartSync
  BY <1>4 DEF StartSync, Working
<1>5. CASE PickSnapshot
  <2>1. /\ cur' \in src /\ parent' < cur' /\ cur' \in Snaps /\ parent' \in src \cup {0}
    BY <1>5, PickIs DEF Snaps
  <2>2. UNCHANGED <<snaps, src, dest>> /\ start' = 0 /\ pc = "pick"
    BY <1>5 DEF PickSnapshot
  <2>3. pc' = IF dest[cur'].there /\ dest[cur'].received THEN "pick" ELSE IF dest[cur'].there THEN "diff" ELSE "send"
    BY <1>5 DEF PickSnapshot, Synced
  <2>4. dest[cur'].received => dest[cur'].there
    BY <2>1 DEF Types, MirrorOK
  <2>5. QED
    BY <2>1, <2>2, <2>3, <2>4 DEF Working
<1>6. CASE AllSynced \/ FinishRun \/ FinishFails
  BY <1>6 DEF AllSynced, FinishRun, FinishFails, Working
<1>7. CASE DiffBegin \/ DiffEnd \/ MakeWritable
  <2>1. /\ cur \in Snaps /\ dest[cur] \in Volumes /\ dest[cur].there /\ ~dest[cur].received /\ cur \in src
        /\ parent < cur /\ snaps \subseteq src /\ parent \in src \cup {0}
    BY <1>7, CurIs DEF Working, DiffBegin, DiffEnd, MakeWritable
  <2>2. /\ UNCHANGED <<snaps, src, cur, parent>> /\ pc' \in {"compare", "send", "receive"}
        /\ dest' = dest \/ \E b \in BOOLEAN : dest' = [dest EXCEPT ![cur].ro = b]
    BY <1>7 DEF DiffBegin, DiffEnd, MakeWritable
  <2>3. dest'[cur].there /\ ~dest'[cur].received
    BY <2>1, <2>2 DEF Volumes, Types, MirrorOK
  <2>4. QED
    BY <2>1, <2>2, <2>3 DEF Working
<1>8. CASE DiffOverflows \/ SendGone
  BY <1>8 DEF DiffOverflows, SendGone, Working
<1>9. CASE Send
  <2>1. stream' = SendStream(parent, cur) /\ idx' = 0 /\ pc' = "read" /\ UNCHANGED <<snaps, dest, src, cur, parent, start>>
    BY <1>9 DEF Send
  <2>2. cur \in Snaps /\ parent \in 0..MaxSnaps
    BY <1>9, CurIs DEF Send
  <2>3. Len(stream') >= 2 /\ stream'[1].op \in BeginOps /\ (stream'[1].op = "snapshot" => parent # 0)
    BY <2>1, <2>2, SentIs
  <2>4. QED
    BY <1>9, <2>1, <2>3 DEF Send, Working
<1>10. CASE SkipCommand
  <2>1. start > idx /\ idx \in Nat /\ start \in Nat
    BY <1>10, CommandIs DEF SkipCommand, Types, SyncOK
  <2>2. start > 0
    BY <2>1
  <2>3. UNCHANGED <<snaps, dest, pc, src, cur, parent, stream, start>> /\ pc = "read"
    BY <1>10 DEF SkipCommand, More
  <2>4. dest[cur].there
    BY <2>2, <2>3 DEF Working
  <2>5. QED
    BY <2>3, <2>4 DEF Working
<1>11. CASE BeginSubvolume /\ pc' # "idle"
  <2>1. PICK tree \in [Names -> Held] : Creates(tree)
    BY <1>11, BeginIs
  <2>2. UNCHANGED <<snaps, src, cur, parent, stream, start, pc>> /\ pc = "read"
    BY <1>11, BeginIs
  <2>3. dest'[cur].there /\ ~dest'[cur].received
    BY <2>1, <2>2, CurIs DEF Creates, Volume, Types, MirrorOK
  <2>4. QED
    BY <2>2, <2>3 DEF Working
<1>12. CASE DoCommand /\ pc' # "idle"
  <2>1. PICK tree \in [Names -> Held] : Writes(tree)
    BY <1>12, DoIs
  <2>2. UNCHANGED <<snaps, src, cur, parent, stream, start, pc>> /\ pc = "read" /\ idx' = idx + 1 /\ Next1.op \in FileOps
    BY <1>12, DoIs
  <2>3. dest[cur].there
    <3>1. idx = 0 => Next1 = stream[1]
      BY DEF Next1
    <3>2. idx # 0 /\ idx \in Nat
      BY <1>12, <2>2, <3>1, CommandIs DEF Working, FileOps, BeginOps, DoCommand
    <3>3. QED
      BY <2>2, <3>2 DEF Working
  <2>4. dest[cur] \in Volumes /\ cur \in Snaps
    BY <2>2, CurIs
  <2>5. dest'[cur].there = dest[cur].there /\ dest'[cur].received = dest[cur].received
    BY <2>1, <2>4 DEF Writes, Types, MirrorOK, Volumes
  <2>6. QED
    BY <2>2, <2>3, <2>5 DEF Working
<1>13. CASE StreamEnds
  <2>1. UNCHANGED <<snaps, src, cur, parent, dest>> /\ pc = "read" /\ pc' = "writable"
    BY <1>13 DEF StreamEnds
  <2>2. Len(stream) >= 2 /\ stream[1].op \in BeginOps /\ idx \in Nat
    BY <2>1 DEF Working, Types, SyncOK
  <2>3. idx # 0
    <3>1. idx = 0 => Next1 = stream[1]
      BY DEF Next1
    <3>2. QED
      BY <1>13, <2>2, <3>1 DEF StreamEnds, BeginOps
  <2>4. dest[cur].there
    BY <2>1, <2>2, <2>3 DEF Working
  <2>5. QED
    BY <2>1, <2>4 DEF Working
<1>14. CASE SetReceived
  <2>1. cur \in Snaps /\ dest[cur] \in Volumes /\ dest[cur].there
    BY <1>14, CurIs DEF SetReceived, Working
  <2>2. UNCHANGED <<snaps, src, cur, parent>> /\ pc = "receive" /\ pc' = "readonly" /\ dest' = [dest EXCEPT ![cur].received = TRUE]
    BY <1>14 DEF SetReceived
  <2>3. dest'[cur].there /\ dest'[cur].received
    BY <2>1, <2>2 DEF Types, MirrorOK, Volumes
  <2>4. QED
    BY <2>2, <2>3 DEF Working
<1>15. CASE MakeReadOnly
  BY <1>15 DEF MakeReadOnly, Working
<1>16. ASSUME NEW s \in Snaps, PruneMirror(s) PROVE Working'
  <2>1. /\ s \in Snaps \ src /\ pc = "prune" /\ pc' = "remove" /\ cur' = s /\ UNCHANGED <<snaps, src>>
        /\ dest' = [dest EXCEPT ![s].ro = FALSE]
    BY <1>16 DEF PruneMirror, MirrorExpired
  <2>2. ~dest'[s].ro
    BY <2>1 DEF Types, MirrorOK, Volumes
  <2>3. QED
    BY <2>1, <2>2 DEF Working
<1>17. ASSUME NEW n \in Names, RemoveFile(n) PROVE Working'
  <2>1. pc = "remove" /\ UNCHANGED <<snaps, pc, src, cur>> /\ \E tree \in [Names -> Held] : Writes(tree)
    BY <1>17, RemovesIs
  <2>2. cur \in Snaps \ src /\ ~dest[cur].ro /\ dest[cur] \in Volumes
    BY <2>1 DEF Working, Types, MirrorOK
  <2>3. ~dest'[cur].ro
    BY <2>1, <2>2 DEF Writes, Types, MirrorOK, Volumes
  <2>4. QED
    BY <2>1, <2>2, <2>3 DEF Working
<1>18. CASE RemoveVolume
  BY <1>18 DEF RemoveVolume, Working
<1>19. DiffGone \/ DiffFails \/ DiffCollected \/ SendCollected \/ StreamBreaks \/ Crash => pc' = "idle"
  BY DEF DiffGone, DiffFails, DiffCollected, SendCollected, StreamBreaks, Crash, Abort
<1>20. CASE Sync
  BY <1>2, <1>4, <1>5, <1>6, <1>7, <1>9, <1>8, <1>10, <1>11, <1>12, <1>13, <1>14, <1>15, <1>16, <1>19, <1>20, <1>17, <1>18 DEF Sync
<1>21. QED
  BY <1>1, <1>2, <1>3, <1>6, <1>8, <1>19, <1>20 DEF Next

-----------------------------------------------------------------------------
(* What a sync leaves behind it.                                           *)

\* Steps that change little of what Marked speaks of.
LEMMA StepKinds ==
  ASSUME Types, Working, [Next]_vars
  PROVE  \/ UNCHANGED <<dest, pc, src, cur, result>>
         \/ pc # "idle" /\ pc' = "idle" /\ result' = "error"
         \/ StartSync \/ PickSnapshot \/ AllSynced \/ FinishRun \/ SetReceived \/ MakeReadOnly
         \/ FinishFails /\ Fault
         \/ /\ UNCHANGED <<src, cur>>
            /\ pc \in Comparing \cup Sending \cup {"writable"} /\ pc' \in Comparing \cup Sending \cup {"writable", "receive"}
         \/ UNCHANGED src /\ pc \in Pruning /\ pc' \in Pruning
<1> USE DEF source, task, Comparing, Sending, Finishing
<1>1. CASE Source \/ UNCHANGED vars
  BY <1>1 DEF Source, TakeSnapshot, Expire, vars
<1>2. CASE DiffGone \/ DiffFails \/ DiffCollected \/ SendCollected \/ StreamBreaks \/ Crash
  BY <1>2 DEF DiffGone, DiffFails, DiffCollected, SendCollected, StreamBreaks, Crash, Abort, More
<1>3. CASE BeginSubvolume
  BY <1>3, BeginIs
<1>4. CASE DoCommand
  BY <1>4, DoIs
<1>5. CASE DiffBegin \/ DiffEnd \/ DiffOverflows \/ Send \/ SendGone \/ SkipCommand \/ StreamEnds \/ MakeWritable
  BY <1>5 DEF DiffBegin, DiffEnd, DiffOverflows, Send, SendGone, SkipCommand, StreamEnds, MakeWritable, More
<1>6. CASE FinishFails
  BY <1>6 DEF FinishFails
<1>7. Sync => \/ StartSync \/ PickSnapshot \/ AllSynced \/ FinishRun \/ SetReceived \/ MakeReadOnly
              \/ DiffGone \/ DiffFails \/ DiffCollected \/ SendCollected \/ BeginSubvolume \/ DoCommand
              \/ DiffBegin \/ DiffEnd \/ Send \/ SendGone \/ SkipCommand \/ StreamEnds \/ MakeWritable
              \/ UNCHANGED src /\ pc \in Pruning /\ pc' \in Pruning
  BY DEF Sync, PruneMirror, RemoveFile, RemoveVolume, Pruning
<1>8. QED
  BY <1>1, <1>2, <1>3, <1>4, <1>5, <1>6, <1>7 DEF Next

LEMMA FaultsCount ==
  ASSUME Types, [Next]_vars, faults' = MaxFaults
  PROVE  faults = MaxFaults /\ ~Fault
<1>1. faults \in 0..MaxFaults /\ MaxFaults \in Nat
  BY SubvolumeAssumption DEF Types, SyncOK
<1>2. faults' = faults \/ Fault
  BY DEF Next, Source, TakeSnapshot, Expire, Sync, StartSync, PickSnapshot, AllSynced, FinishRun, DiffBegin, DiffGone,
     DiffFails, DiffEnd, DiffCollected, Send, SendGone, SendCollected, SkipCommand, BeginSubvolume, DoCommand, StreamEnds,
     MakeWritable, SetReceived, MakeReadOnly, PruneMirror, RemoveFile, RemoveVolume, DiffOverflows, StreamBreaks, FinishFails, Crash, vars
<1>3. QED
  BY <1>1, <1>2 DEF Fault

LEMMA ReadOnlyStep ==
  ASSUME Types, Working, Marked, [Next]_vars, faults' = MaxFaults, NEW s \in Snaps, dest'[s].received
  PROVE  dest'[s].ro \/ (pc' \in {"readonly", "remove"} /\ s = cur')
<1>1. faults = MaxFaults /\ ~Fault /\ (dest[s].received => dest[s].ro \/ (pc \in {"readonly", "remove"} /\ s = cur))
  BY FaultsCount DEF Marked
<1>2. CASE pc = "readonly" /\ s = cur
  <2>1. dest[cur] \in Volumes /\ cur \in Snaps
    BY <1>2, CurIs DEF Finishing
  <2>2. CASE MakeReadOnly
    BY <1>2, <2>1, <2>2 DEF MakeReadOnly, Types, MirrorOK, Volumes
  <2>3. CASE ~MakeReadOnly
    <3>1. UNCHANGED <<pc, cur>>
      BY <1>1, <1>2, <2>3 DEF Next, Source, TakeSnapshot, Expire, Sync, StartSync, PickSnapshot, AllSynced, FinishRun,
         DiffBegin, DiffGone, DiffFails, DiffEnd, DiffCollected, Send, SendGone, SendCollected, SkipCommand, BeginSubvolume,
         DoCommand, StreamEnds, MakeWritable, SetReceived, PruneMirror, RemoveFile, RemoveVolume, DiffOverflows, StreamBreaks, FinishFails, Crash,
         vars, task, More
    <3>2. QED
      BY <1>2, <3>1
  <2>4. QED
    BY <2>2, <2>3
<1>3. CASE ~(pc \in {"readonly", "remove"} /\ s = cur) /\ dest'[s] = dest[s]
  BY <1>1, <1>3
<1>4. CASE pc \in Comparing \cup Sending \cup {"writable", "receive"} /\ s = cur
  <2>1. cur \in Snaps /\ dest[cur] \in Volumes /\ ~dest[cur].received
    BY <1>4, CurIs DEF Working, Finishing
  <2>2. CASE SetReceived
    BY <1>4, <2>2 DEF SetReceived, task
  <2>3. CASE \E b \in BOOLEAN : SetsReadOnly(b)
    BY <1>4, <2>1, <2>3 DEF SetsReadOnly, Types, MirrorOK, Volumes
  <2>4. CASE \E tree \in [Names -> Held] : Creates(tree) \/ Writes(tree)
    BY <1>4, <2>1, <2>4 DEF Creates, Writes, Volume, Types, MirrorOK, Volumes
  <2>5. CASE UNCHANGED dest
    BY <1>4, <2>1, <2>5
  <2>6. ~(\E b \in BOOLEAN : SetsReadOnly(b)) /\ ~(\E tree \in [Names -> Held] : Creates(tree) \/ Writes(tree)) /\ ~UNCHANGED dest
          => pc = "receive" /\ SetReceived
    <3>1. ASSUME pc = "receive", ~UNCHANGED dest PROVE SetReceived
      BY <3>1 DEF Next, Source, TakeSnapshot, Expire, Sync, StartSync, PickSnapshot, AllSynced, FinishRun,
         DiffBegin, DiffGone, DiffFails, DiffEnd, DiffCollected, Send, SendGone, SendCollected, SkipCommand, BeginSubvolume,
         DoCommand, StreamEnds, MakeWritable, MakeReadOnly, PruneMirror, RemoveFile, RemoveVolume, DiffOverflows, StreamBreaks, FinishFails, Crash,
         vars, task, More
    <3>2. QED
      BY <1>4, <3>1, DestChange DEF Comparing, Sending
  <2>7. QED
    BY <2>2, <2>3, <2>4, <2>5, <2>6
<1>5. dest'[s] # NoVol
  BY DEF NoVol
<1>6. CASE pc = "remove" /\ s = cur /\ dest'[s] = dest[s]
  <2>1. CASE RemoveVolume
    BY <1>5, <1>6, <2>1 DEF RemoveVolume, Working, Types, MirrorOK
  <2>2. CASE ~RemoveVolume
    <3>1. UNCHANGED <<pc, cur>>
      BY <1>1, <1>6, <2>2 DEF Next, Source, TakeSnapshot, Expire, Sync, StartSync, PickSnapshot, AllSynced, FinishRun,
         DiffBegin, DiffGone, DiffFails, DiffEnd, DiffCollected, Send, SendGone, SendCollected, SkipCommand, BeginSubvolume,
         DoCommand, StreamEnds, MakeWritable, SetReceived, MakeReadOnly, PruneMirror, RemoveFile, DiffOverflows,
         StreamBreaks, FinishFails, Crash, vars, task, More
    <3>2. QED
      BY <1>6, <3>1
  <2>3. QED
    BY <2>1, <2>2
<1>7. CASE pc' = "remove" /\ s = cur'
  BY <1>7
<1>8. QED
  BY <1>2, <1>3, <1>4, <1>5, <1>6, <1>7, DestKeeps DEF Finishing

LEMMA PassedStep ==
  ASSUME Types, Working, Marked, [Next]_vars, faults' = MaxFaults, NEW s \in Passed'
  PROVE  dest'[s].received
<1> USE DEF task, Pruning
<1>0. faults = MaxFaults /\ ~Fault
  BY FaultsCount
<1>1. ASSUME s \in Passed, dest'[s] = dest[s] PROVE dest'[s].received
  BY <1>0, <1>1 DEF Marked
<1>2. s \in src' /\ src \subseteq 1..MaxSnaps /\ src \subseteq Snaps /\ cur \in 0..MaxSnaps
  BY SubvolumeAssumption DEF Passed, Types, SourceOK, SyncOK, Snaps
<1>3. CASE UNCHANGED <<dest, pc, src, cur, result>>
  BY <1>1, <1>3 DEF Passed
<1>4. ~(pc' = "idle" /\ result' = "error")
  BY DEF Passed
<1>5. ~StartSync
  BY <1>2, SourceStep DEF StartSync, Passed, SourceOK
<1>6. CASE PickSnapshot
  <2>1. UNCHANGED <<src, dest>> /\ pc = "pick"
    BY <1>6 DEF PickSnapshot
  <2>2. s < cur' => s <= cur
    BY <1>2, <1>6, <2>1, PickIs
  <2>3. CASE s < cur'
    <3>1. s \in Passed
      BY <1>2, <2>1, <2>2, <2>3 DEF Passed
    <3>2. QED
      BY <1>1, <2>1, <3>1
  <2>4. CASE ~(s < cur')
    <3>1. s = cur' /\ pc' = "pick"
      BY <1>6, <2>1, <2>4 DEF Passed, PickSnapshot
    <3>2. Synced(cur')
      BY <1>6, <3>1 DEF PickSnapshot
    <3>3. QED
      BY <2>1, <3>1, <3>2 DEF Synced
  <2>5. QED
    BY <2>3, <2>4
<1>7. CASE AllSynced \/ FinishRun
  <2>1. UNCHANGED <<src, dest>> /\ s \in src
    BY <1>2, <1>7 DEF AllSynced, FinishRun
  <2>2. FinishRun => s \in Passed
    BY <2>1 DEF FinishRun, Passed, Pruning
  <2>3. AllSynced => s <= cur /\ pc = "pick"
    BY <1>2, <2>1 DEF AllSynced, Ahead
  <2>4. AllSynced => s \in Passed
    BY <1>2, <2>1, <2>3 DEF Passed, Pruning
  <2>5. QED
    BY <1>1, <1>7, <2>1, <2>2, <2>4
<1>8. CASE SetReceived
  <2>1. UNCHANGED <<src, cur>> /\ pc = "receive" /\ pc' = "readonly"
    BY <1>8 DEF SetReceived
  <2>2. s \in Passed /\ s # cur /\ s \in Snaps
    BY <1>2, <2>1 DEF Passed
  <2>3. QED
    BY <1>1, <2>1, <2>2, DestKeeps DEF Finishing
<1>9. CASE MakeReadOnly
  <2>1. UNCHANGED <<src, cur>> /\ pc = "readonly" /\ pc' = "pick" /\ dest' = [dest EXCEPT ![cur].ro = TRUE]
    BY <1>9 DEF MakeReadOnly
  <2>2. dest[cur] \in Volumes /\ cur \in Snaps /\ dest[cur].received
    BY <2>1, CurIs DEF Finishing, Working
  <2>3. CASE s = cur
    BY <2>1, <2>2, <2>3 DEF Types, MirrorOK, Volumes
  <2>4. CASE s # cur
    <3>1. s \in Passed /\ s \in Snaps
      BY <1>2, <2>1, <2>4 DEF Passed
    <3>2. QED
      BY <1>1, <2>1, <2>4, <3>1, DestKeeps
  <2>5. QED
    BY <2>3, <2>4
<1>10. CASE /\ UNCHANGED <<src, cur>>
            /\ pc \in Comparing \cup Sending \cup {"writable"} /\ pc' \in Comparing \cup Sending \cup {"writable", "receive"}
  <2>1. s \in Passed /\ s # cur /\ s \in Snaps
    BY <1>2, <1>10 DEF Passed, Comparing, Sending
  <2>2. QED
    BY <1>1, <1>2, <1>10, <2>1, DestKeeps DEF Comparing, Sending
<1>11. CASE UNCHANGED src /\ pc \in Pruning /\ pc' \in Pruning
  <2>1. s \in Passed /\ s \in Snaps /\ s \in src
    BY <1>2, <1>11 DEF Passed, Pruning
  <2>2. QED
    BY <1>1, <1>11, <2>1, DestKeeps DEF Comparing, Sending, Finishing, Pruning
<1>12. QED
  BY <1>0, <1>3, <1>4, <1>5, <1>6, <1>7, <1>8, <1>9, <1>10, <1>11, StepKinds

LEMMA PrunedStep ==
  ASSUME Types, Working, Marked, [Next]_vars, pc' = "idle", result' = "ok", NEW s \in Snaps \ src'
  PROVE  ~dest'[s].there
<1>1. CASE UNCHANGED <<dest, pc, src, cur, result>>
  BY <1>1 DEF Marked
<1>2. CASE FinishRun
  BY <1>2 DEF FinishRun, MirrorExpired
<1>3. QED
  BY <1>1, <1>2, StepKinds DEF StartSync, PickSnapshot, AllSynced, SetReceived, MakeReadOnly, FinishFails,
     Comparing, Sending, Pruning

LEMMA MarkedStep == Types /\ Working /\ Marked /\ [Next]_vars => Marked'
BY ReadOnlyStep, PassedStep, PrunedStep DEF Marked

-----------------------------------------------------------------------------
(* The copies.                                                             *)

\* What was taken stays as it is, and what is gone does not come back.
LEMMA SourceKeeps ==
  ASSUME Types, [Next]_vars
  PROVE  /\ taken \in 0..MaxSnaps /\ taken \in Nat /\ taken' \in Nat /\ taken <= taken'
         /\ \A s \in 1..taken : content'[s] = content[s]
         /\ \A s \in 1..taken : s \in snaps' => s \in snaps
         /\ pc # "idle" => UNCHANGED <<taken, content>> /\ snaps' \subseteq snaps
<1> USE DEF source
<1>0. taken \in 0..MaxSnaps /\ MaxSnaps \in Nat /\ taken \in Nat /\ content \in [Snaps -> Contents]
  BY SubvolumeAssumption DEF Types, SourceOK
<1>1. CASE TakeSnapshot
  <2>1. pc = "idle" /\ taken' = taken + 1 /\ snaps' = snaps \cup {taken + 1}
    BY <1>1 DEF TakeSnapshot
  <2>2. PICK c : content' = [content EXCEPT ![taken + 1] = c]
    BY <1>1, <2>1 DEF TakeSnapshot
  <2>3. \A s \in 1..taken : s \in Snaps /\ s # taken + 1
    BY <1>0 DEF Snaps
  <2>4. QED
    BY <1>0, <2>1, <2>2, <2>3
<1>2. ASSUME NEW s \in Snaps, Expire(s) PROVE UNCHANGED <<taken, content>> /\ snaps' \subseteq snaps
  BY <1>2 DEF Expire
<1>3. CASE ~Source
  <2>1. UNCHANGED <<taken, snaps, content>>
    BY <1>3 DEF Next, Sync, StartSync, PickSnapshot, AllSynced, FinishRun, DiffBegin, DiffGone,
       DiffFails, DiffEnd, DiffCollected, Send, SendGone, SendCollected, SkipCommand, BeginSubvolume, DoCommand, StreamEnds,
       MakeWritable, SetReceived, MakeReadOnly, PruneMirror, RemoveFile, RemoveVolume, DiffOverflows, StreamBreaks, FinishFails, Crash, vars
  <2>2. QED
    BY <1>0, <2>1
<1>4. QED
  BY <1>0, <1>1, <1>2, <1>3 DEF Source

\* The steps by what they do to the mirror.
LEMMA MirrorStep ==
  ASSUME Types, Working, [Next]_vars
  PROVE  \/ UNCHANGED <<dest, base>>
         \/ UNCHANGED base /\ cur \in Snaps /\ \E b \in BOOLEAN : SetsReadOnly(b)
         \/ BeginSubvolume \/ DoCommand \/ SetReceived
         \/ (\E s \in Snaps : PruneMirror(s)) \/ (\E n \in Names : RemoveFile(n)) \/ RemoveVolume
<1> USE DEF history
<1>1. CASE DiffBegin \/ DiffFails \/ DiffEnd \/ DiffCollected \/ MakeWritable \/ MakeReadOnly
  <2>1. cur \in Snaps
    BY <1>1, CurIs DEF DiffBegin, DiffFails, DiffEnd, DiffCollected, MakeWritable, MakeReadOnly, Comparing, Finishing
  <2>2. QED
    BY <1>1, <2>1 DEF DiffBegin, DiffFails, DiffEnd, DiffCollected, MakeWritable, MakeReadOnly, SetsReadOnly
<1>2. CASE Source \/ DiffOverflows \/ StreamBreaks \/ FinishFails \/ Crash \/ UNCHANGED vars
  BY <1>2 DEF Source, TakeSnapshot, Expire, DiffOverflows, StreamBreaks, FinishFails, Crash, vars
<1>3. QED
  BY <1>1, <1>2 DEF Next, Sync, StartSync, PickSnapshot, AllSynced, FinishRun, DiffGone, Send, SendGone, SendCollected,
     SkipCommand, StreamEnds

\* A subvolume that a transfer begins: from nothing, or as its parent's copy.
LEMMA BeginsFrom ==
  ASSUME Types, Working, BeginSubvolume, ~UNCHANGED dest
  PROVE  /\ pc = "read" /\ idx = 0 /\ start = 0 /\ idx' = 1 /\ ~dest[cur].there
         /\ UNCHANGED <<taken, snaps, content, pc, src, cur, parent, stream, start, mixed>>
         /\ Next1 = stream[1]
         /\ \E from \in {0, parent} :
               /\ Next1.op = Kind(from) /\ (from # 0 => from \in Snaps /\ from # cur /\ dest[from].received)
               /\ dest' = [dest EXCEPT ![cur] = Volume(IF from = 0 THEN Empty ELSE dest[from].tree)]
               /\ base' = [base EXCEPT ![cur] = from]
<1>1. /\ pc = "read" /\ UNCHANGED <<taken, snaps, content, pc, src, cur, parent, stream, start, mixed>>
      /\ idx' = idx + 1 /\ ~dest[cur].there /\ More /\ start <= idx
  BY BeginIs DEF BeginSubvolume
<1>2. idx = 0 /\ start = 0
  <2>1. idx \in Nat /\ start \in Nat
    BY <1>1, CommandIs DEF Types, SyncOK
  <2>2. QED
    BY <1>1, <2>1 DEF Working
<1>3. Next1 = stream[1]
  BY <1>2 DEF Next1
<1>4. /\ Next1.op \in {"subvol", "snapshot"} /\ (Next1.op = "snapshot" => Synced(parent))
      /\ dest' = [dest EXCEPT ![cur] = Volume(IF Next1.op = "subvol" THEN Empty ELSE dest[parent].tree)]
      /\ base' = [base EXCEPT ![cur] = IF Next1.op = "subvol" THEN 0 ELSE parent]
  BY DEF BeginSubvolume
<1>5. CASE Next1.op = "subvol"
  BY <1>1, <1>2, <1>3, <1>4, <1>5 DEF Kind
<1>6. CASE Next1.op = "snapshot"
  <2>1. parent # 0
    BY <1>1, <1>3, <1>6 DEF Working
  <2>2. parent \in Snaps /\ parent # cur /\ cur \in Nat
    BY <1>1, <2>1, CurIs, SubvolumeAssumption DEF Sending, Snaps, Working
  <2>3. Next1.op # "subvol"
    BY <1>6
  <2>4. QED
    BY <1>1, <1>2, <1>3, <1>4, <1>6, <2>1, <2>2, <2>3 DEF Kind, Synced
<1>7. QED
  BY <1>4, <1>5, <1>6

\* What is received stays, with its contents, while the source has its snapshot.
LEMMA ReceivedStays ==
  ASSUME Types, Working, [Next]_vars, NEW s \in snaps', s \in Snaps, dest[s].received
  PROVE  dest'[s].received /\ dest'[s].tree = dest[s].tree
<1>1. CASE dest'[s] = dest[s]
  BY <1>1
<1>2. CASE s = cur /\ pc \in Comparing \cup Sending \cup Finishing
  <2>1. pc = "readonly"
    BY <1>2 DEF Working, Comparing, Sending, Finishing
  <2>2. UNCHANGED dest \/ SetsReadOnly(TRUE)
    BY <2>1, DestChange DEF Comparing
  <2>3. dest[s] \in Volumes /\ dest \in [Snaps -> Volumes]
    BY DEF Types, MirrorOK
  <2>4. QED
    BY <1>2, <2>2, <2>3 DEF SetsReadOnly, Volumes
<1>3. CASE s \notin src /\ pc \in Pruning
  BY <1>3, SourceKeeps DEF Working, Pruning
<1>4. QED
  BY <1>1, <1>2, <1>3, DestKeeps

LEMMA RootedStep == Types /\ Working /\ Rooted /\ [Next]_vars => Rooted'
<1> SUFFICES ASSUME Types, Working, Rooted, [Next]_vars, NEW s \in Snaps, dest'[s].there
             PROVE  s \in 1..taken' /\ base'[s] \in 0..taken'
  BY DEF Rooted
<1>0. taken \in Nat /\ taken' \in Nat /\ taken <= taken' /\ dest \in [Snaps -> Volumes] /\ base \in [Snaps -> 0..MaxSnaps]
  BY SourceKeeps DEF Types, MirrorOK
<1>1. ASSUME dest[s].there, base'[s] = base[s] PROVE s \in 1..taken' /\ base'[s] \in 0..taken'
  BY <1>0, <1>1 DEF Rooted
<1>2. CASE UNCHANGED <<dest, base>>
  BY <1>1, <1>2
<1>3. CASE UNCHANGED base /\ cur \in Snaps /\ \E b \in BOOLEAN : SetsReadOnly(b)
  BY <1>0, <1>1, <1>3 DEF SetsReadOnly, Volumes
<1>4. CASE BeginSubvolume /\ ~UNCHANGED dest
  <2>1. PICK from \in {0, parent} : /\ base' = [base EXCEPT ![cur] = from]
                                    /\ dest' = [dest EXCEPT ![cur] = Volume(IF from = 0 THEN Empty ELSE dest[from].tree)]
    BY <1>4, BeginsFrom
  <2>2. pc = "read" /\ taken' = taken
    BY <1>4, BeginsFrom
  <2>3. cur \in 1..taken /\ parent < cur /\ parent \in 0..MaxSnaps
    BY <2>2, CurIs DEF Working, Types, SourceOK, Sending
  <2>4. from \in 0..taken
    BY <1>0, <2>3
  <2>5. CASE s = cur
    BY <1>0, <2>1, <2>2, <2>3, <2>4, <2>5
  <2>6. CASE s # cur
    BY <1>0, <1>1, <2>1, <2>6
  <2>7. QED
    BY <2>5, <2>6
<1>5. CASE BeginSubvolume /\ UNCHANGED dest
  <2>1. UNCHANGED base
    <3>1. cur \in Snaps /\ dest[cur] \in Volumes
      BY <1>5, CurIs DEF BeginSubvolume, More, Sending
    <3>2. ASSUME ~dest[cur].there, NEW tree, dest' = [dest EXCEPT ![cur] = Volume(tree)] PROVE FALSE
      BY <1>0, <1>5, <3>1, <3>2 DEF Volume
    <3>3. QED
      BY <1>5, <3>2 DEF BeginSubvolume
  <2>2. QED
    BY <1>1, <1>5, <2>1
<1>6. CASE DoCommand \/ SetReceived
  <2>1. UNCHANGED base
    BY <1>6 DEF DoCommand, SetReceived, history
  <2>2. cur \in Snaps
    BY <1>6, CurIs DEF DoCommand, More, SetReceived, Sending, Finishing
  <2>3. dest[s].there
    BY <1>0, <1>6, <2>2 DEF DoCommand, SetReceived, Volumes
  <2>4. QED
    BY <1>1, <2>1, <2>3
<1>7. ASSUME NEW r \in Snaps, PruneMirror(r) PROVE s \in 1..taken' /\ base'[s] \in 0..taken'
  <2>1. dest'[s].there = dest[s].there /\ base'[s] = base[s]
    BY <1>0, <1>7 DEF PruneMirror, Volumes, history
  <2>2. QED
    BY <1>1, <2>1
<1>8. ASSUME NEW n \in Names, RemoveFile(n) PROVE s \in 1..taken' /\ base'[s] \in 0..taken'
  <2>1. base'[s] = base[s] /\ \E tree \in [Names -> Held] : Writes(tree)
    BY <1>8, RemovesIs
  <2>2. dest'[s].there = dest[s].there
    BY <1>0, <2>1 DEF Writes, Volumes
  <2>3. QED
    BY <1>1, <2>1, <2>2
<1>9. CASE RemoveVolume
  <2>1. cur \in Snaps
    BY <1>9 DEF RemoveVolume, Working
  <2>2. s # cur /\ dest'[s] = dest[s] /\ base'[s] = base[s]
    BY <1>0, <1>9, <2>1 DEF RemoveVolume, NoVol
  <2>3. QED
    BY <1>1, <2>2
<1>10. QED
  BY <1>2, <1>3, <1>4, <1>5, <1>6, <1>7, <1>8, <1>9, MirrorStep

\* A copy whose deletion has begun is not taken for a snapshot again.
LEMMA SafeStep ==
  ASSUME Types, Working, Rooted, [Next]_vars, NEW s \in Snaps, dest[s].there, Safe(s)'
  PROVE  Safe(s)
<1>1. s \in 1..taken /\ dest \in [Snaps -> Volumes]
  BY DEF Rooted, Types, MirrorOK
<1>2. CASE s \in snaps'
  BY <1>1, <1>2, SourceKeeps DEF Safe
<1>3. CASE s \in src'
  <2>1. src' = src \/ src' = snaps
    BY DEF Next, Source, TakeSnapshot, Expire, Sync, StartSync, PickSnapshot, AllSynced, FinishRun, DiffBegin, DiffGone,
       DiffFails, DiffEnd, DiffCollected, Send, SendGone, SendCollected, SkipCommand, BeginSubvolume, DoCommand, StreamEnds,
       MakeWritable, SetReceived, MakeReadOnly, PruneMirror, RemoveFile, RemoveVolume, DiffOverflows, StreamBreaks,
       FinishFails, Crash, vars
  <2>2. QED
    BY <1>3, <2>1 DEF Safe, Kept
<1>4. CASE dest'[s].ro
  <2>1. CASE dest'[s] = dest[s]
    BY <1>4, <2>1 DEF Safe, Kept
  <2>2. CASE s = cur /\ pc \in Comparing \cup Sending \cup Finishing
    BY <2>2 DEF Working, Safe, Kept
  <2>3. CASE s \notin src /\ pc \in Pruning /\ (dest'[s] = NoVol \/ (pc' = "remove" /\ s = cur'))
    <3>1. dest'[s] # NoVol
      BY <1>4 DEF NoVol
    <3>2. ~dest'[cur'].ro
      BY <2>3, <3>1, WorkingStep DEF Working
    <3>3. QED
      BY <1>4, <2>3, <3>1, <3>2
  <2>4. QED
    BY <2>1, <2>2, <2>3, DestKeeps
<1>5. QED
  BY <1>2, <1>3, <1>4 DEF Safe, Kept

\* What the source held, nothing before its first snapshot.
LEMMA StateTyped ==
  ASSUME Types, NEW s \in 0..MaxSnaps
  PROVE  State(s) \in Contents /\ (s # 0 => s \in Snaps /\ State(s) = content[s] /\ content[s] \in Contents)
<1>1. content \in [Snaps -> Contents] /\ Nothing \in Contents
  BY DEF Types, SourceOK, Contents, Nothing
<1>2. s # 0 => s \in Snaps
  BY SubvolumeAssumption DEF Snaps
<1>3. QED
  BY <1>1, <1>2 DEF State

\* The stream that is being read, behind its beginning.
LEMMA ReadingIs ==
  ASSUME Types, Working, Copies, Underway, pc = "read", idx # 0
  PROVE  \E from \in {0, parent} :
            /\ stream = Stream(Kind(from), State(from), content[cur]) /\ base[cur] = from /\ On(idx)
            /\ Kind(from) \in BeginOps /\ State(from) \in Contents /\ content[cur] \in Contents
            /\ idx \in Nat /\ Partway(State(from), content[cur], dest[cur].tree)
            /\ dest[cur].tree \in [Names -> Held]
<1>1. cur \in Snaps /\ dest[cur] \in Volumes /\ parent \in 0..MaxSnaps
  BY CurIs DEF Sending
<1>2. PICK from \in {0, parent} : SentFrom(from)
  BY <1>1 DEF Underway
<1>3. idx \in Nat
  <2>1. Len(stream) \in Nat
    BY DEF Types, SyncOK
  <2>2. QED
    BY <2>1 DEF Types, SyncOK
<1>4. base[cur] = from /\ On(idx) /\ stream = Stream(Kind(from), State(from), content[cur])
  <2>1. idx > 0
    BY <1>3
  <2>2. QED
    BY <1>2, <2>1 DEF SentFrom
<1>5. dest[cur].there /\ ~dest[cur].received
  BY <1>1, <1>3 DEF Working, Sending
<1>6. State(from) \in Contents /\ content[cur] \in Contents
  <2>1. from \in 0..MaxSnaps
    BY <1>1, SubvolumeAssumption
  <2>2. content[cur] \in Contents
    BY <1>1 DEF Types, SourceOK
  <2>3. QED
    BY <2>1, <2>2, StateTyped
<1>7. Partway(State(from), content[cur], dest[cur].tree)
  BY <1>1, <1>4, <1>5, AtWork DEF Sending, Copy, Begun
<1>8. QED
  BY <1>1, <1>2, <1>3, <1>4, <1>6, <1>7 DEF Kind, BeginOps, Volumes

\* A command that is not the first.
LEMMA BehindBegin ==
  ASSUME Types, Working, More, Next1.op \notin BeginOps
  PROVE  pc = "read" /\ idx # 0
<1>1. pc = "read" /\ stream[1].op \in BeginOps
  BY DEF More, Working
<1>2. idx = 0 => Next1 = stream[1]
  BY DEF Next1
<1>3. QED
  BY <1>1, <1>2

\* What a command that succeeds does to the copy.
LEMMA CopyGoesOn ==
  ASSUME Types, Working, Copies, Underway, DoCommand, ~UNCHANGED idx
  PROVE  /\ cur \in Snaps /\ dest[cur].there /\ ~dest[cur].received
         /\ idx' = idx + 1 /\ start <= idx /\ idx \in Nat
         /\ \E tree \in [Names -> Held] : dest' = [dest EXCEPT ![cur].tree = tree]
         /\ \E from \in {0, parent} :
               /\ stream = Stream(Kind(from), State(from), content[cur]) /\ base[cur] = from
               /\ Partway(State(from), content[cur], dest'[cur].tree)
               /\ Reached(State(from), content[cur], dest'[cur].tree, FALSE, idx + 1)
<1>1. /\ More /\ start <= idx /\ Next1.op \notin {"subvol", "snapshot", "end"} /\ idx' = idx + 1
      /\ Succeeds(dest[cur].tree, Next1) /\ dest' = [dest EXCEPT ![cur].tree = Applied(@, Next1)]
  BY DEF DoCommand
<1>2. PICK from \in {0, parent} :
         /\ stream = Stream(Kind(from), State(from), content[cur]) /\ base[cur] = from /\ On(idx)
         /\ Kind(from) \in BeginOps /\ State(from) \in Contents /\ content[cur] \in Contents
         /\ idx \in Nat /\ idx # 0 /\ Partway(State(from), content[cur], dest[cur].tree)
         /\ dest[cur].tree \in [Names -> Held]
  BY <1>1, BehindBegin, ReadingIs DEF BeginOps
<1>3. PICK fr, to, t, op, n, c : /\ fr = State(from) /\ to = content[cur] /\ t = dest[cur].tree
                                 /\ op = Kind(from) /\ n = idx /\ c = Next1
  OBVIOUS
<1>4. /\ fr \in Contents /\ to \in Contents /\ t \in [Names -> Held] /\ op \in BeginOps /\ n \in Nat
      /\ Partway(fr, to, t) /\ Reached(fr, to, t, FALSE, n)
  BY <1>2, <1>3 DEF On
<1>5. n + 1 \in 1..Len(Stream(op, fr, to)) /\ c = Stream(op, fr, to)[n + 1]
  BY <1>1, <1>2, <1>3, CommandIs DEF Next1
<1>6. c.op \notin BeginOps \cup {"end"} /\ Succeeds(t, c)
  BY <1>1, <1>3 DEF BeginOps
<1>7. Partway(fr, to, Applied(t, c)) /\ Reached(fr, to, Applied(t, c), FALSE, n + 1)
  BY <1>4, <1>5, <1>6, CommandStep
<1>8. cur \in Snaps /\ pc = "read" /\ dest \in [Snaps -> Volumes]
  BY <1>1, CurIs DEF More, Sending, Types, MirrorOK
<1>9. dest'[cur].tree = Applied(t, c)
  BY <1>1, <1>3, <1>8 DEF Volumes
<1>10. dest[cur].there /\ ~dest[cur].received
  BY <1>2, <1>8 DEF Working, Sending
<1>11. \E tree \in [Names -> Held] : dest' = [dest EXCEPT ![cur].tree = tree]
  <2>1. \E tree \in [Names -> Held] : Writes(tree)
    BY <1>1, DoIs
  <2>2. QED
    BY <2>1 DEF Writes
<1>12. QED
  BY <1>1, <1>2, <1>3, <1>7, <1>8, <1>9, <1>10, <1>11

\* The offset a comparison finds is one the transfer may go on from.
LEMMA OffsetReached ==
  ASSUME Types, Working, Copies, pc = "compare", base[cur] = parent, Against(parent) = parent,
         NEW k, k = Agreeing(Muted("source", SendStream(parent, cur)), Muted("mirror", Partial))
  PROVE  k \in Nat /\ Reached(State(parent), content[cur], dest[cur].tree, FALSE, k)
<1>1. cur \in Snaps /\ parent \in 0..MaxSnaps /\ dest[cur].there /\ ~dest[cur].received /\ dest[cur].tree \in [Names -> Held]
  BY CurIs DEF Comparing, Working, Volumes
<1>2. State(parent) \in Contents /\ content[cur] \in Contents
  BY <1>1, StateTyped DEF Types, SourceOK
<1>3. SendStream(parent, cur) = Stream(Kind(parent), State(parent), content[cur])
  BY DEF SendStream, Kind, State
<1>4. Partial = PartStream(PartBegin, ParentShows, dest[cur].tree)
  BY PartialIs
<1>5. Kind(parent) \in BeginOps /\ PartBegin \in BeginOps
  BY DEF Kind, PartBegin, BeginOps
<1>6. Partway(State(parent), content[cur], dest[cur].tree) /\ (parent \in snaps => dest[parent].received)
  BY <1>1, AtWork DEF Comparing, Copy, Begun
<1>7. ASSUME NEW p \in Paths PROVE ParentShows[p] = Shown(p, State(parent)[p], FALSE)
  <2>1. CASE parent = 0
    BY <2>1 DEF ParentShows, State, Shown, Nothing
  <2>2. CASE parent # 0
    <3>1. parent \in snaps /\ parent \in Snaps
      BY <1>1, <2>2, StateTyped DEF Against
    <3>2. dest[parent].received
      BY <1>6, <3>1
    <3>3. Holds(content[parent], dest[parent].tree, FALSE)
      BY <2>2, <3>2, AtWork DEF Comparing, Copy
    <3>4. ParentShows[p] = dest[parent].tree[File(p)]
      BY <2>2 DEF ParentShows, Visible
    <3>5. QED
      BY <2>2, <3>3, <3>4 DEF Holds, State
  <2>3. QED
    BY <2>1, <2>2
<1>8. PICK from, to, t, f, op, begin : /\ from = State(parent) /\ to = content[cur] /\ t = dest[cur].tree
                                       /\ f = ParentShows /\ op = Kind(parent) /\ begin = PartBegin
  OBVIOUS
<1>9. /\ k \in Nat /\ k <= Len(Stream(op, from, to)) /\ k <= Len(PartStream(begin, f, t))
      /\ \A i \in 1..k : Muted("source", Stream(op, from, to))[i] = Muted("mirror", PartStream(begin, f, t))[i]
  BY <1>3, <1>4, <1>8, OffsetIs
<1>10. Reached(from, to, t, FALSE, k)
  <2>1. /\ from \in Contents /\ to \in Contents /\ t \in [Names -> Held] /\ Partway(from, to, t)
        /\ op \in BeginOps /\ begin \in BeginOps
    BY <1>1, <1>2, <1>5, <1>6, <1>8
  <2>2. \A p \in Paths : f[p] = Shown(p, from[p], FALSE)
    BY <1>7, <1>8
  <2>3. QED
    BY ONLY <1>9, <2>1, <2>2, AgreedReached
<1>11. QED
  BY <1>8, <1>9, <1>10

\* A stream that was read to its end has made the copy.
LEMMA EndsWhole ==
  ASSUME Types, Working, Copies, Underway, StreamEnds
  PROVE  Holds(content[cur], dest[cur].tree, FALSE)
<1>1. pc = "read" /\ (idx = Len(stream) \/ (More /\ Next1.op = "end"))
  BY DEF StreamEnds
<1>2. Len(stream) >= 2 /\ Len(stream) \in Nat /\ idx \in Nat
  BY <1>1 DEF Working, Types, SyncOK
<1>3. idx # 0
  BY <1>1, <1>2, BehindBegin DEF BeginOps
<1>4. PICK from \in {0, parent} :
         /\ stream = Stream(Kind(from), State(from), content[cur]) /\ base[cur] = from /\ On(idx)
         /\ Kind(from) \in BeginOps /\ State(from) \in Contents /\ content[cur] \in Contents
  BY <1>1, <1>3, ReadingIs
<1>5. PICK fr \in Contents, to \in Contents : fr = State(from) /\ to = content[cur]
  BY <1>4
<1>6. PICK op, M : op = Kind(from) /\ M = Middle(fr, to)
  OBVIOUS
<1>7. /\ Len(M) \in Nat /\ Len(stream) = Len(M) + 2 /\ stream[1] = Begin(Kind(from))
      /\ \A j \in 1..Len(M) : stream[j + 1] = M[j] /\ M[j] \in AllCommands
  <2>1. IsStream(op, M, stream)
    BY <1>4, <1>5, <1>6, StreamIs
  <2>2. QED
    BY <1>6, <2>1 DEF IsStream
<1>8. idx >= Len(M) + 1
  <2>1. CASE idx = Len(stream)
    BY <1>7, <2>1
  <2>2. CASE More /\ Next1.op = "end"
    <3>1. idx \in 1..(Len(M) + 1)
      BY <1>2, <1>3, <1>7, <2>2 DEF More
    <3>2. ASSUME idx \in 1..Len(M) PROVE FALSE
      <4>1. Next1 \in AllCommands
        BY <1>7, <3>2 DEF Next1
      <4>2. PICK p \in Paths : Next1 \in CommandsOn(p)
        BY <4>1 DEF AllCommands
      <4>3. QED
        BY <2>2, <4>2 DEF CommandsOn, Cmd, Mk, Mv, Wr, Data, Sym, Ln, Rm, Attr
    <3>3. QED
      BY <1>7, <3>1, <3>2
  <2>3. QED
    BY <1>1, <2>1, <2>2
<1>9. Reached(fr, to, dest[cur].tree, FALSE, idx)
  BY <1>4, <1>5 DEF On
<1>10. Holds(to, dest[cur].tree, FALSE)
  BY <1>2, <1>6, <1>8, <1>9, ReachedEnd
<1>11. QED
  BY <1>5, <1>10

LEMMA CopiesStep == Types /\ Working /\ Rooted /\ Copies /\ Underway /\ [Next]_vars => Copies'
<1> SUFFICES ASSUME Types, Working, Rooted, Copies, Underway, [Next]_vars, NEW s \in Snaps, Safe(s)' PROVE Copy(s)'
  BY DEF Copies
<1>0. /\ dest \in [Snaps -> Volumes] /\ base \in [Snaps -> 0..MaxSnaps] /\ content \in [Snaps -> Contents]
      /\ (dest[s].received => dest[s].there) /\ (dest'[s].received => dest'[s].there)
      /\ taken \in 0..MaxSnaps /\ taken \in Nat
  BY DestKeeps, SourceKeeps DEF Types, MirrorOK, SourceOK
<1>1. ASSUME dest'[s].there = dest[s].there, dest'[s].received = dest[s].received, dest'[s].tree = dest[s].tree,
             base'[s] = base[s]
      PROVE  Copy(s)'
  <2>1. CASE ~dest[s].there
    BY <1>0, <1>1, <2>1 DEF Copy, Begun
  <2>2. CASE dest[s].there
    <3>1. s \in 1..taken /\ base[s] \in 0..taken
      BY <2>2 DEF Rooted
    <3>2. PICK b \in 0..taken : b = base[s]
      BY <3>1
    <3>3. content'[s] = content[s]
      BY <3>1, SourceKeeps
    <3>4. (IF b = 0 THEN Nothing ELSE content'[b]) = State(b)
      <4>1. b # 0 => b \in 1..taken
        BY <1>0
      <4>2. QED
        BY <4>1, SourceKeeps DEF State
    <3>5. ASSUME dest[s].there, ~dest[s].received, b \in snaps' PROVE dest'[b].received
      <4>1. b \in 1..taken /\ b \in Snaps
        <5>1. snaps' \subseteq 1..taken' /\ taken' \in Nat
          BY SourceStep, SourceKeeps DEF SourceOK
        <5>2. QED
          BY <1>0, <3>5, <5>1, SubvolumeAssumption DEF Snaps
      <4>2. b \in snaps
        BY <3>5, <4>1, SourceKeeps
      <4>3. dest[b].received
        BY <2>2, <3>2, <3>5, <4>2, SafeStep DEF Copies, Copy, Begun
      <4>4. QED
        BY <3>5, <4>1, <4>3, ReceivedStays
    <3>6. Copy(s) /\ base'[s] = b
      BY <1>1, <2>2, <3>2, SafeStep DEF Copies
    <3>7. dest'[s].received => Holds(content'[s], dest'[s].tree, FALSE)
      BY <1>1, <3>3, <3>6 DEF Copy
    <3>8. dest'[s].there /\ ~dest'[s].received => Partway(IF b = 0 THEN Nothing ELSE content'[b], content'[s], dest'[s].tree)
      BY <1>1, <3>2, <3>3, <3>4, <3>6 DEF Copy, Begun
    <3>9. dest'[s].there /\ ~dest'[s].received /\ b \in snaps' => dest'[b].received
      BY <1>1, <3>5
    <3>10. QED
      BY <3>6, <3>7, <3>8, <3>9 DEF Copy, Begun, State
  <2>3. QED
    BY <2>1, <2>2
<1>2. CASE UNCHANGED <<dest, base>>
  BY <1>1, <1>2
<1>3. CASE UNCHANGED base /\ cur \in Snaps /\ \E b \in BOOLEAN : SetsReadOnly(b)
  BY <1>0, <1>1, <1>3 DEF SetsReadOnly, Volumes
<1>4. CASE BeginSubvolume /\ ~UNCHANGED dest
  <2>1. pc = "read" /\ UNCHANGED <<snaps, content>>
    BY <1>4, BeginsFrom
  <2>2. PICK from \in {0, parent} :
           /\ from # 0 => from \in Snaps /\ from # cur /\ dest[from].received
           /\ dest' = [dest EXCEPT ![cur] = Volume(IF from = 0 THEN Empty ELSE dest[from].tree)]
           /\ base' = [base EXCEPT ![cur] = from]
    BY <1>4, BeginsFrom
  <2>3. CASE s # cur
    BY <1>0, <1>1, <2>2, <2>3
  <2>4. CASE s = cur
    <3>1. PICK tree : tree = IF from = 0 THEN Empty ELSE dest[from].tree
      OBVIOUS
    <3>2. dest'[s].there /\ ~dest'[s].received /\ dest'[s].tree = tree /\ base'[s] = from
      BY <1>0, <2>2, <2>4, <3>1 DEF Volume
    <3>3. Holds(State(from), tree, FALSE)
      <4>1. CASE from = 0
        <5>1. \A p \in Paths : Empty[File(p)] = NoFile /\ Empty[Orphan(p)] = NoFile
          BY NamesAre DEF Empty
        <5>2. \A p \in Paths : Shown(p, Nothing[p], FALSE) = NoFile
          BY DEF Shown, Nothing
        <5>3. QED
          BY <3>1, <4>1, <5>1, <5>2 DEF Holds, State
      <4>2. CASE from # 0
        <5>1. Copy(from)
          BY <2>1, <4>2, AtWork DEF Sending
        <5>2. QED
          BY <2>2, <3>1, <4>2, <5>1 DEF Copy, State
      <4>3. QED
        BY <4>1, <4>2
    <3>4. State(from) \in Contents /\ content[s] \in Contents
      <4>1. Nothing \in Contents
        BY DEF Nothing, Contents
      <4>2. QED
        BY <1>0, <2>2, <4>1 DEF State
    <3>5. Partway(State(from), content[s], tree)
      BY <3>3, <3>4, PartwayStart
    <3>6. from \in snaps' => dest'[from].received
      <4>1. from \in snaps => from # 0
        BY DEF Types, SourceOK
      <4>2. QED
        BY <1>0, <2>1, <2>2, <4>1
    <3>7. QED
      BY <2>1, <3>2, <3>5, <3>6 DEF Copy, Begun, State
  <2>5. QED
    BY <2>3, <2>4
<1>5. CASE BeginSubvolume /\ UNCHANGED dest
  <2>1. UNCHANGED base
    <3>1. cur \in Snaps
      BY <1>5, CurIs DEF BeginSubvolume, More, Sending
    <3>2. ASSUME ~dest[cur].there, NEW tree, dest' = [dest EXCEPT ![cur] = Volume(tree)] PROVE FALSE
      BY <1>0, <1>5, <3>1, <3>2 DEF Volume
    <3>3. QED
      BY <1>5, <3>2 DEF BeginSubvolume
  <2>2. QED
    BY <1>1, <1>5, <2>1
<1>6. CASE DoCommand /\ UNCHANGED idx
  <2>1. UNCHANGED <<dest, base>>
    <3>1. idx \in Nat
      BY <1>6, CommandIs DEF DoCommand
    <3>2. idx' # idx + 1
      BY <1>6, <3>1
    <3>3. QED
      BY <1>6, <3>2 DEF DoCommand, history
  <2>2. QED
    BY <1>2, <2>1
<1>7. CASE DoCommand /\ ~UNCHANGED idx
  <2>1. /\ cur \in Snaps /\ dest[cur].there /\ ~dest[cur].received
        /\ UNCHANGED <<base, snaps, content>>
    BY <1>7, CopyGoesOn DEF DoCommand, history, source
  <2>2. PICK tree : dest' = [dest EXCEPT ![cur].tree = tree]
    BY <1>7, CopyGoesOn
  <2>3. CASE s # cur
    BY <1>0, <1>1, <2>1, <2>2, <2>3
  <2>4. CASE s = cur
    <3>1. Partway(State(base[s]), content[s], dest'[s].tree)
      BY <1>7, <2>4, CopyGoesOn
    <3>2. dest'[s].there /\ ~dest'[s].received
      BY <1>0, <2>1, <2>2, <2>4 DEF Volumes
    <3>3. base[s] \in snaps => dest[base[s]].received
      BY <1>7, <2>1, <2>4, AtWork DEF DoCommand, More, Sending, Copy, Begun
    <3>4. base[s] \in snaps => dest'[base[s]].received
      <4>1. snaps \subseteq Snaps
        BY <1>0, SubvolumeAssumption DEF Types, SourceOK, Snaps
      <4>2. QED
        BY <2>1, <3>3, <4>1, ReceivedStays
    <3>5. QED
      BY <2>1, <3>1, <3>2, <3>4 DEF Copy, Begun, State
  <2>5. QED
    BY <2>3, <2>4
<1>8. CASE SetReceived
  <2>1. cur \in Snaps /\ pc = "receive" /\ dest' = [dest EXCEPT ![cur].received = TRUE] /\ UNCHANGED <<base, content>>
    BY <1>8, CurIs DEF SetReceived, Finishing, source, history
  <2>2. CASE s # cur
    BY <1>0, <1>1, <2>1, <2>2
  <2>3. CASE s = cur
    <3>1. dest'[s].received /\ dest'[s].tree = dest[s].tree
      BY <1>0, <2>1, <2>3 DEF Volumes
    <3>2. Holds(content[s], dest[s].tree, FALSE)
      BY <2>1, <2>3 DEF Underway
    <3>3. QED
      BY <2>1, <3>1, <3>2 DEF Copy, Begun
  <2>4. QED
    BY <2>2, <2>3
<1>9. ASSUME NEW r \in Snaps, PruneMirror(r) PROVE Copy(s)'
  BY <1>0, <1>1, <1>9 DEF PruneMirror, Volumes, history
<1>10. ASSUME NEW n \in Names, RemoveFile(n) PROVE Copy(s)'
  <2>1. /\ pc = "remove" /\ pc' = "remove" /\ UNCHANGED <<snaps, src, cur, base>>
        /\ \E tree \in [Names -> Held] : Writes(tree)
    BY <1>10, RemovesIs DEF task
  <2>2. s # cur
    <3>1. cur' \notin src' /\ ~dest'[cur'].ro /\ snaps' \subseteq src'
      BY <2>1, WorkingStep DEF Working
    <3>2. QED
      BY <2>1, <3>1 DEF Safe, Kept
  <2>3. dest'[s] = dest[s]
    BY <1>0, <2>1, <2>2 DEF Writes
  <2>4. QED
    BY <1>1, <2>1, <2>3
<1>11. CASE RemoveVolume
  <2>1. cur \in Snaps
    BY <1>11 DEF RemoveVolume, Working
  <2>2. CASE s = cur
    <3>1. ~dest'[s].there
      BY <1>0, <1>11, <2>1, <2>2 DEF RemoveVolume, NoVol
    <3>2. QED
      BY <1>0, <3>1 DEF Copy, Begun
  <2>3. CASE s # cur
    BY <1>0, <1>1, <1>11, <2>1, <2>3 DEF RemoveVolume
  <2>4. QED
    BY <2>2, <2>3
<1>12. QED
  BY <1>2, <1>3, <1>4, <1>5, <1>6, <1>7, <1>8, <1>9, <1>10, <1>11, MirrorStep

\* Behind one of its commands a copy is behind the earlier ones.
LEMMA OnLess ==
  ASSUME Types, cur \in Snaps, NEW n \in Nat, On(n), NEW m \in Nat, m <= n
  PROVE  On(m)
<1>1. PICK from, to, t : from = State(base[cur]) /\ to = content[cur] /\ t = dest[cur].tree
  OBVIOUS
<1>2. base[cur] \in 0..MaxSnaps /\ to \in Contents
  BY <1>1 DEF Types, SourceOK, MirrorOK
<1>3. from \in Contents
  BY <1>1, <1>2, StateTyped
<1>4. Reached(from, to, t, FALSE, n) /\ from \in Contents /\ to \in Contents
  BY <1>1, <1>2, <1>3 DEF On
<1>5. n \in Int /\ m \in Int /\ m <= n
  OBVIOUS
<1>6. Reached(from, to, t, FALSE, m)
  BY ONLY <1>4, <1>5, ReachedLess
<1>7. QED
  BY <1>1, <1>6 DEF On

\* The comparison leaves the copy as it is and an offset that it is behind.
LEMMA OffsetStep ==
  ASSUME Types, Working, Copies, DiffEnd
  PROVE  Underway'
<1>1. /\ pc = "compare" /\ pc' = "send" /\ UNCHANGED <<snaps, content, cur, parent, base>>
  BY DEF DiffEnd, source, history
<1>2. cur \in Snaps /\ dest \in [Snaps -> Volumes]
  BY <1>1, CurIs DEF Comparing, Types, MirrorOK
<1>3. dest'[cur].tree = dest[cur].tree
  BY <1>2 DEF DiffEnd, Volumes
<1>4. PICK k : k = Agreeing(Muted("source", SendStream(parent, cur)), Muted("mirror", Partial))
  OBVIOUS
<1>5. k \in Nat
  BY <1>1, <1>4, OffsetIs
<1>6. start' \in {Min({1, k}), k}
  BY <1>4 DEF DiffEnd
<1>7. Min({1, k}) \in {1, k} /\ Min({1, k}) <= k
  BY <1>5, MinOfNat
<1>8. start' \in Nat /\ start' <= k
  BY <1>5, <1>6, <1>7
<1>9. ASSUME base[cur] = parent, Against(parent) = parent PROVE On(start')
  <2>1. On(k)
    BY <1>1, <1>4, <1>9, OffsetReached DEF On
  <2>2. QED
    BY <1>2, <1>5, <1>8, <2>1, OnLess
<1>10. State(base[cur])' = State(base[cur]) /\ Against(parent)' = Against(parent)
  BY <1>1 DEF State, Against
<1>11. QED
  BY <1>1, <1>3, <1>9, <1>10 DEF Underway, On

\* The stream that is sent is one from the state the copy was begun with, where
\* the transfer is resumed.
LEMMA SendStep ==
  ASSUME Types, Working, Underway, Send, ~mixed'
  PROVE  Underway'
<1>1. /\ pc = "send" /\ pc' = "read" /\ stream' = SendStream(parent, cur) /\ idx' = 0
      /\ UNCHANGED <<snaps, content, dest, cur, parent, start, base>>
      /\ start > 0 => base[cur] = parent /\ Against(parent) = parent
  BY DEF Send, source
<1>2. cur \in Snaps /\ start \in Nat
  BY <1>1, CurIs DEF Sending, Types, SyncOK
<1>3. PICK from : from = Against(parent)
  OBVIOUS
<1>4. from \in {0, parent}
  BY <1>3 DEF Against
<1>5. stream' = Stream(Kind(from), State(from), content[cur])
  <2>1. CASE from = 0
    BY <1>1, <1>3, <2>1 DEF SendStream, Kind, State
  <2>2. CASE from # 0
    BY <1>1, <1>3, <1>4, <2>2 DEF SendStream, Kind, State
  <2>3. QED
    BY <2>1, <2>2
<1>6. ASSUME start > 0 PROVE base[cur] = from /\ On(0) /\ On(start)
  <2>1. On(start)
    BY <1>1, <1>6 DEF Underway
  <2>2. On(0)
    BY <1>2, <2>1, OnLess
  <2>3. QED
    BY <1>1, <1>3, <1>6, <2>1, <2>2
<1>7. State(from)' = State(from) /\ State(base[cur])' = State(base[cur])
  BY <1>1 DEF State
<1>8. /\ stream' = Stream(Kind(from), State(from)', content'[cur'])
      /\ idx' > 0 \/ start' > 0 => base'[cur'] = from /\ On(idx)' /\ On(start)'
  <2>1. ~(idx' > 0) /\ start' = start /\ base' = base /\ cur' = cur /\ content' = content
    BY <1>1
  <2>2. start > 0 => On(idx)' /\ On(start)'
    BY <1>1, <1>6, <1>7 DEF On
  <2>3. QED
    BY <1>5, <1>6, <1>7, <2>1, <2>2
<1>9. SentFrom(from)'
  BY <1>8 DEF SentFrom
<1>10. QED
  BY <1>1, <1>4, <1>9 DEF Underway

\* A command that is skipped has its work behind it.
LEMMA SkipStep ==
  ASSUME Types, Working, Underway, SkipCommand
  PROVE  Underway'
<1>1. /\ pc = "read" /\ start > idx /\ idx' = idx + 1
      /\ UNCHANGED <<pc, content, dest, cur, parent, stream, start, base>>
  BY DEF SkipCommand, More, source, history
<1>2. cur \in Snaps /\ start \in Nat /\ idx \in Nat
  BY <1>1, CurIs, CommandIs DEF Sending, Types, SyncOK, SkipCommand
<1>3. PICK from \in {0, parent} : SentFrom(from)
  BY <1>1 DEF Underway
<1>4. stream = Stream(Kind(from), State(from), content[cur]) /\ base[cur] = from /\ On(start)
  BY <1>1, <1>2, <1>3 DEF SentFrom
<1>5. On(idx + 1)
  BY <1>1, <1>2, <1>4, OnLess
<1>6. State(from)' = State(from) /\ State(base[cur])' = State(base[cur])
  BY <1>1 DEF State
<1>7. SentFrom(from)'
  BY <1>1, <1>4, <1>5, <1>6 DEF SentFrom, On
<1>8. QED
  BY <1>1, <1>3, <1>7 DEF Underway

\* The first command makes a copy of the state the stream is from.
LEMMA BeginStep ==
  ASSUME Types, Working, Underway, BeginSubvolume, Types', Copies'
  PROVE  Underway'
<1>1. CASE UNCHANGED dest
  <2>1. pc' = "idle"
    <3>1. dest[cur] \in Volumes /\ cur \in Snaps /\ dest \in [Snaps -> Volumes]
      BY CurIs DEF BeginSubvolume, More, Sending, Types, MirrorOK
    <3>2. ASSUME ~dest[cur].there, NEW tree, dest' = [dest EXCEPT ![cur] = Volume(tree)] PROVE FALSE
      BY <1>1, <3>1, <3>2 DEF Volume
    <3>3. QED
      BY <3>2 DEF BeginSubvolume, Abort
  <2>2. QED
    BY <2>1 DEF Underway
<1>2. CASE ~UNCHANGED dest
  <2>1. /\ pc = "read" /\ idx = 0 /\ start = 0 /\ idx' = 1
        /\ UNCHANGED <<taken, snaps, content, pc, src, cur, parent, stream, start, mixed>> /\ Next1 = stream[1]
    BY <1>2, BeginsFrom
  <2>2. PICK made \in {0, parent} :
           /\ Next1.op = Kind(made)
           /\ dest' = [dest EXCEPT ![cur] = Volume(IF made = 0 THEN Empty ELSE dest[made].tree)]
           /\ base' = [base EXCEPT ![cur] = made]
    BY <1>2, BeginsFrom
  <2>3. PICK from \in {0, parent} : SentFrom(from)
    BY <2>1 DEF Underway
  <2>4. cur \in Snaps /\ dest \in [Snaps -> Volumes] /\ base \in [Snaps -> 0..MaxSnaps] /\ parent \in 0..MaxSnaps
    BY <2>1, CurIs DEF Sending, Types, MirrorOK
  <2>5. stream = Stream(Kind(from), State(from), content[cur])
    BY <2>3 DEF SentFrom
  <2>6. stream[1] = Begin(Kind(from))
    <3>1. from \in 0..MaxSnaps
      BY <2>4, SubvolumeAssumption
    <3>2. State(from) \in Contents /\ content[cur] \in Contents
      BY <2>4, <3>1, StateTyped DEF Types, SourceOK
    <3>3. PICK fr \in Contents, to \in Contents : fr = State(from) /\ to = content[cur]
      BY <3>2
    <3>4. PICK op : op = Kind(from)
      OBVIOUS
    <3>5. Stream(op, fr, to)[1] = Begin(op)
      BY StreamIs DEF IsStream
    <3>6. QED
      BY <2>5, <3>3, <3>4, <3>5
  <2>7. made = from
    <3>1. Kind(made) = Kind(from)
      BY <2>1, <2>2, <2>6 DEF Begin, Cmd
    <3>2. QED
      BY <3>1 DEF Kind
  <2>8. /\ base'[cur'] = from /\ dest'[cur'].there /\ ~dest'[cur'].received /\ cur' \in Snaps
    BY <2>1, <2>2, <2>4, <2>7 DEF Volume
  <2>9. On(1)'
    <3>1. Safe(cur)'
      BY <2>1 DEF Working, Sending, Safe, Kept
    <3>2. Copy(cur)'
      BY <2>8, <3>1 DEF Copies
    <3>3. QED
      BY <2>8, <3>2 DEF Copy, Begun, Partway, On
  <2>10. On(0)'
    <3>1. PICK fr, to, t : fr = State(base[cur])' /\ to = content'[cur'] /\ t = dest'[cur'].tree
      OBVIOUS
    <3>2. from \in 0..MaxSnaps
      BY <2>4, SubvolumeAssumption
    <3>3. fr = State(from)
      BY <2>1, <2>8, <3>1 DEF State
    <3>4. fr \in Contents /\ to \in Contents
      BY <2>1, <2>4, <3>1, <3>2, <3>3, StateTyped DEF Types, SourceOK
    <3>5. Reached(fr, to, t, FALSE, 1)
      BY <2>9, <3>1 DEF On
    <3>6. 1 \in Int /\ 0 \in Int /\ 0 <= 1
      OBVIOUS
    <3>7. Reached(fr, to, t, FALSE, 0)
      BY ONLY <3>4, <3>5, <3>6, ReachedLess
    <3>8. QED
      BY <3>1, <3>7 DEF On
  <2>11. SentFrom(from)'
    BY <2>1, <2>5, <2>8, <2>9, <2>10 DEF SentFrom, State
  <2>12. QED
    BY <2>1, <2>11 DEF Underway
<1>3. QED
  BY <1>1, <1>2

\* A command that succeeds takes the copy one further.
LEMMA DoStep ==
  ASSUME Types, Working, Copies, Underway, DoCommand
  PROVE  Underway'
<1>1. CASE pc' = "idle"
  BY <1>1 DEF Underway
<1>2. CASE pc' # "idle"
  <2>1. /\ pc = "read" /\ pc' = "read" /\ idx' = idx + 1
        /\ UNCHANGED <<snaps, content, cur, parent, stream, start, base>>
    BY <1>2, DoIs
  <2>2. idx \in Nat /\ start \in Nat
    BY CommandIs DEF DoCommand, Types, SyncOK
  <2>3. start <= idx + 1 /\ ~UNCHANGED idx
    BY <2>1, <2>2 DEF DoCommand
  <2>4. PICK from \in {0, parent} :
           /\ stream = Stream(Kind(from), State(from), content[cur]) /\ base[cur] = from
           /\ Reached(State(from), content[cur], dest'[cur].tree, FALSE, idx + 1)
    BY <2>3, CopyGoesOn
  <2>5. PICK fr, to, t : fr = State(from) /\ to = content[cur] /\ t = dest'[cur].tree
    OBVIOUS
  <2>6. fr \in Contents /\ to \in Contents
    <3>1. cur \in Snaps /\ parent \in 0..MaxSnaps
      BY <2>1, CurIs DEF Sending
    <3>2. from \in 0..MaxSnaps
      BY <3>1, SubvolumeAssumption
    <3>3. QED
      BY <2>5, <3>1, <3>2, StateTyped DEF Types, SourceOK
  <2>7. Reached(fr, to, t, FALSE, start) /\ Reached(fr, to, t, FALSE, idx + 1)
    <3>1. PICK n \in Int, m \in Int : n = idx + 1 /\ m = start
      BY <2>2
    <3>2. Reached(fr, to, t, FALSE, n) /\ m <= n
      BY <2>3, <2>4, <2>5, <3>1
    <3>3. Reached(fr, to, t, FALSE, m)
      BY ONLY <2>6, <3>2, n \in Int, m \in Int, ReachedLess
    <3>4. QED
      BY <3>1, <3>2, <3>3
  <2>8. State(from)' = State(from)
    BY <2>1 DEF State
  <2>9. On(start)' /\ On(idx)'
    BY <2>1, <2>4, <2>5, <2>7, <2>8 DEF On
  <2>10. SentFrom(from)'
    BY <2>1, <2>4, <2>8, <2>9 DEF SentFrom
  <2>11. QED
    BY <2>1, <2>4, <2>10 DEF Underway
<1>3. QED
  BY <1>1, <1>2

LEMMA UnderwayStep ==
  ASSUME Types, Working, Rooted, Copies, Underway, [Next]_vars, ~mixed'
  PROVE  Underway'
<1> USE DEF source, task, history
<1>1. CASE pc' \notin {"send", "read", "writable", "receive"}
  BY <1>1 DEF Underway
<1>2. ASSUME UNCHANGED <<dest, pc, task, base>> PROVE Underway'
  <2>1. CASE pc = "idle"
    BY <1>1, <1>2, <2>1
  <2>2. CASE pc # "idle"
    <3>1. UNCHANGED content /\ snaps' \subseteq snaps
      BY <2>2, SourceKeeps
    <3>2. Against(parent)' = parent' => Against(parent) = parent
      BY <1>2, <3>1 DEF Against
    <3>3. QED
      BY <1>2, <3>1, <3>2 DEF Underway, SentFrom, On, State
  <2>3. QED
    BY <2>1, <2>2
<1>3. CASE PickSnapshot
  <2>1. ~(start' > 0) /\ pc' \in {"pick", "diff", "send"}
    BY <1>3 DEF PickSnapshot
  <2>2. QED
    BY <2>1 DEF Underway
<1>4. CASE StreamEnds
  <2>1. pc' = "writable" /\ UNCHANGED <<content, dest, cur>>
    BY <1>4 DEF StreamEnds
  <2>2. QED
    BY <1>4, <2>1, EndsWhole DEF Underway
<1>5. CASE MakeWritable
  <2>1. /\ pc = "writable" /\ pc' = "receive" /\ dest' = [dest EXCEPT ![cur].ro = FALSE]
        /\ UNCHANGED <<content, cur>>
    BY <1>5 DEF MakeWritable
  <2>2. cur \in Snaps /\ dest[cur] \in Volumes /\ dest \in [Snaps -> Volumes]
    BY <2>1, CurIs DEF Finishing, Types, MirrorOK
  <2>3. dest'[cur].tree = dest[cur].tree
    BY <2>1, <2>2 DEF Volumes
  <2>4. Holds(content'[cur'], dest'[cur'].tree, FALSE)
    BY <2>1, <2>3 DEF Underway
  <2>5. QED
    BY <2>1, <2>4 DEF Underway
<1>6. CASE BeginSubvolume
  BY <1>6, BeginStep, CopiesStep, TypesStep
<1>7. CASE Source \/ UNCHANGED vars
  BY <1>1, <1>2, <1>7 DEF Source, TakeSnapshot, Expire, vars
<1>8. CASE StartSync \/ AllSynced \/ FinishRun \/ DiffBegin \/ DiffGone \/ DiffFails \/ DiffCollected
           \/ SendGone \/ SendCollected \/ SetReceived \/ MakeReadOnly \/ DiffOverflows \/ StreamBreaks \/ FinishFails \/ Crash
  BY <1>1, <1>8 DEF StartSync, AllSynced, FinishRun, DiffBegin, DiffGone, DiffFails, DiffCollected, SendGone, SendCollected,
     SetReceived, MakeReadOnly, DiffOverflows, StreamBreaks, FinishFails, Crash, Abort
<1>9. (\E s \in Snaps : PruneMirror(s)) \/ (\E n \in Names : RemoveFile(n)) \/ RemoveVolume => Underway'
  BY <1>1 DEF PruneMirror, RemoveFile, RemoveVolume
<1>10. QED
  BY <1>3, <1>4, <1>5, <1>6, <1>7, <1>8, <1>9, OffsetStep, SendStep, SkipStep, DoStep DEF Next, Sync

\* A transfer that was resumed with another parent is not forgotten.
LEMMA MixedStays == Types /\ Working /\ mixed /\ [Next]_vars => mixed'
<1> USE DEF history
<1>1. CASE ~Send
  <2>1. CASE BeginSubvolume \/ DoCommand
    BY <2>1, BeginIs, DoIs
  <2>2. CASE Source \/ DiffOverflows \/ StreamBreaks \/ FinishFails \/ Crash \/ UNCHANGED vars
    BY <2>2 DEF Source, TakeSnapshot, Expire, DiffOverflows, StreamBreaks, FinishFails, Crash, vars
  <2>3. (\E s \in Snaps : PruneMirror(s)) \/ (\E n \in Names : RemoveFile(n)) \/ RemoveVolume => UNCHANGED mixed
    BY DEF PruneMirror, RemoveFile, RemoveVolume
  <2>4. QED
    BY <1>1, <2>1, <2>2, <2>3 DEF Next, Sync, StartSync, PickSnapshot, AllSynced, FinishRun, DiffBegin, DiffGone,
       DiffFails, DiffEnd, DiffCollected, SendGone, SendCollected, SkipCommand, StreamEnds, MakeWritable, SetReceived,
       MakeReadOnly
<1>2. CASE Send
  BY <1>2 DEF Send
<1>3. QED
  BY <1>1, <1>2

LEMMA InitIInv == Init => IInv
<1> SUFFICES ASSUME Init PROVE IInv
  OBVIOUS
<1> USE SubvolumeAssumption DEF Init
<1>1. SourceOK
  BY DEF SourceOK, Contents, Nothing
<1>2. NoVol \in Volumes /\ ~NoVol.received
  BY DEF NoVol, Volumes, Empty, Held
<1>3. MirrorOK
  <2>1. 0 \in 0..MaxSnaps
    OBVIOUS
  <2>2. dest \in [Snaps -> Volumes] /\ \A s \in Snaps : ~dest[s].received
    BY <1>2
  <2>3. QED
    BY <2>1, <2>2 DEF MirrorOK
<1>4. SyncOK
  <2>1. stream \in Seq(Commands(Values)) /\ Len(stream) = 0
    OBVIOUS
  <2>2. 0 \in 0..MaxSnaps /\ faults \in 0..MaxFaults
    OBVIOUS
  <2>3. idx \in 0..Len(stream) /\ start \in Nat
    BY <2>1
  <2>4. /\ pc \in {"idle", "pick"} \cup Pruning \cup Comparing \cup Sending \cup Finishing
        /\ cur \in 0..MaxSnaps /\ parent \in 0..MaxSnaps /\ restore \in BOOLEAN
        /\ result \in {"none", "ok", "error"} /\ faults \in 0..MaxFaults
    BY <2>2
  <2>5. QED
    BY ONLY <2>1, <2>3, <2>4 DEF SyncOK
<1>5. Working
  BY DEF Working, Comparing, Sending, Finishing
<1>6. Marked
  BY <1>2 DEF Marked, Passed
<1>7. Rooted /\ Copies
  BY DEF NoVol, Rooted, Copies, Copy, Begun
<1>8. Underway
  BY DEF Underway
<1>9. QED
  BY <1>1, <1>3, <1>4, <1>5, <1>6, <1>7, <1>8 DEF IInv, Types

-----------------------------------------------------------------------------
\* The invariant of every behaviour.
LEMMA Invariance == Spec => []IInv
<1>1. IInv /\ [Next]_vars => IInv'
  <2> SUFFICES ASSUME IInv, [Next]_vars PROVE IInv'
    OBVIOUS
  <2>1. Types' /\ Working' /\ Marked' /\ Rooted'
    BY TypesStep, WorkingStep, MarkedStep, RootedStep DEF IInv
  <2>2. ASSUME ~mixed' PROVE Copies' /\ Underway'
    <3>1. Types /\ Working /\ Rooted /\ Copies /\ Underway
      BY <2>2, MixedStays DEF IInv
    <3>2. QED
      BY <2>2, <3>1, CopiesStep, UnderwayStep
  <2>3. QED
    BY <2>1, <2>2 DEF IInv
<1>2. QED
  BY <1>1, InitIInv, PTL DEF Spec

\* The mirror, the sync and its stream stay within their types, for any files
\* and any number of snapshots: FindPathDiffOffset and the receiver never read
\* past the end of a stream, nor a snapshot or parent that was not looked up.
THEOREM TypeCorrect == Spec => []TypeOK
<1>1. IInv => TypeOK
  BY DEF IInv, Types, SourceOK, MirrorOK, SyncOK, Volumes, Comparing, Sending, Finishing, Pruning, TypeOK
<1>2. QED
  BY <1>1, Invariance, PTL

\* When Sync and Prune report success and nothing ever went wrong, every
\* snapshot of the run's list carries its received UUID and is read-only, and
\* the mirror has no other.
THEOREM OkIsMirrored == Spec => []OkMeansMirrored
<1>1. IInv => OkMeansMirrored
  <2> SUFFICES ASSUME IInv, pc = "idle", result = "ok", faults = MaxFaults
               PROVE  /\ \A s \in src : Synced(s) /\ dest[s].ro
                      /\ \A s \in Snaps \ src : ~dest[s].there
    BY DEF OkMeansMirrored
  <2>1. ASSUME NEW s \in src PROVE Synced(s) /\ dest[s].ro
    <3>1. s \in Snaps /\ s \in Passed
      BY SubvolumeAssumption DEF IInv, Types, SourceOK, Snaps, Passed
    <3>2. dest[s].received
      BY <3>1 DEF IInv, Marked
    <3>3. dest[s].ro
      BY <3>1, <3>2 DEF IInv, Marked
    <3>4. QED
      BY <3>1, <3>2, <3>3 DEF IInv, Types, MirrorOK, Synced
  <2>2. QED
    BY <2>1 DEF IInv, Marked
<1>2. QED
  BY <1>1, Invariance, PTL

\* A snapshot that carries its received UUID is the snapshot of the source:
\* every file as it shows there and none left under its orphan name, whatever
\* was interrupted, compared and resumed at an offset, and whichever snapshots
\* went meanwhile; unless a transfer was resumed when the parent it began from,
\* or the one it was compared with, was gone, or the copy is one of those, which
\* DeleteSubvolume has made writable and may have begun to empty, of a snapshot
\* that the last run's list no longer has.
THEOREM MirrorIsExact == Spec => []MirrorExact
<1>1. IInv => MirrorExact
  <2> SUFFICES ASSUME IInv, ~mixed, NEW s \in Snaps, Synced(s), Kept(s) PROVE Exact(s)
    BY DEF MirrorExact
  <2>1. Holds(content[s], dest[s].tree, FALSE)
    BY DEF IInv, Copies, Safe, Copy, Synced
  <2>2. \A p \in Paths : /\ dest[s].tree[File(p)] = Shown(p, content[s][p], FALSE)
                         /\ dest[s].tree[Orphan(p)] = NoFile
    BY <2>1 DEF Holds
  <2>3. Visible(dest[s].tree) = Received(content[s])
    BY <2>2 DEF Visible, Received, Shown
  <2>4. QED
    BY <2>2, <2>3 DEF Exact
<1>2. QED
  BY <1>1, Invariance, PTL

\* No step of a sync, whatever it resumes, nor of a prune, touches the copy of
\* a snapshot that has its received UUID while the source has the snapshot.
THEOREM SyncedCopiesStay == Spec => SyncedStay
<1> DEFINE Stay == \A s \in snaps' : Synced(s) => dest'[s].received /\ dest'[s].tree = dest[s].tree
<1>1. IInv /\ [Next]_vars => [Stay]_vars
  <2> SUFFICES ASSUME IInv, [Next]_vars, NEW s \in snaps', Synced(s)
               PROVE  dest'[s].received /\ dest'[s].tree = dest[s].tree
    OBVIOUS
  <2>1. Types /\ Working /\ dest[s].received
    BY DEF IInv, Synced
  <2>2. s \in Snaps
    BY <2>1, SourceStep, SubvolumeAssumption DEF SourceOK, Snaps
  <2>3. QED
    BY <2>1, <2>2, ReceivedStays
<1>2. QED
  BY <1>1, Invariance, PTL DEF Spec, SyncedStay
=============================================================================
