------------------------ MODULE DirectoryMirrorProofs ------------------------
(***************************************************************************)
(* Theorems about DirectoryMirror for every set of files, links and        *)
(* values, streams of any length that fits, any number of snapshots and of *)
(* faults: where in its stream the mirror is, and why a transfer that      *)
(* begins again at a recorded offset ends with the snapshot.               *)
(***************************************************************************)
EXTENDS DirectoryMirror, SendStreamsProofs

-----------------------------------------------------------------------------
(* The invariant.                                                          *)

Transfer == {"read", "open", "put"}
Begins   == {"subvol", "snapshot"}

State(s)  == IF s = 0 THEN Nothing ELSE content[s]
Before(s) == Max({0} \cup {t \in snaps : t < s})
On(s, n)  == Reached(State(Before(s)), State(s), tree, remote, n)
At(s)     == Holds(State(s), tree, remote)
Newest    == Max({0} \cup {s \in snaps : offs[s] = Done})

SourceOK == /\ remote \in BOOLEAN /\ taken \in 0..MaxSnaps /\ snaps \subseteq 1..taken /\ src \subseteq 1..taken
            /\ content \in [Snaps -> Contents]
DiskOK   == tree \in [Names -> Held] /\ offs \in [Snaps -> Void..Done \cup {Absent}]
SyncOK   == /\ pc \in {"idle", "pick", "prune"} \cup Transfer
            /\ cur \in 0..MaxSnaps /\ idx \in 0..Len(stream) /\ rxOffset \in 0..Done
            /\ result \in {"none", "ok", "error"} /\ faults \in 0..MaxFaults /\ spoiled \in BOOLEAN
Types    == SourceOK /\ DiskOK /\ SyncOK

\* A transfer is about the stream it has looked up, and its place in the stream
\* is not behind the one recorded.
Placed ==
    /\ \A s \in Snaps : s > taken => offs[s] = Absent
    /\ pc # "idle" => src = snaps /\ snaps # {}
    /\ pc \notin Transfer => stream = << >> /\ idx = 0 /\ rxOffset = 0
    /\ pc \in Transfer => /\ cur \in src /\ offs[cur] # Done
                          /\ stream = SendStream(Before(cur), cur)
                          /\ offs[cur] = Void => pc = "put" /\ idx = 0
    /\ pc = "read" => /\ idx = 0 => rxOffset = 0
                      /\ idx > 0 => offs[cur] >= 0 /\ (offs[cur] <= rxOffset \/ offs[cur] < idx)
                      /\ idx < rxOffset => offs[cur] = rxOffset
    /\ pc = "open" => /\ idx < Len(stream)
                      /\ idx > 0 => offs[cur] >= 0
                      /\ offs[cur] <= rxOffset \/ offs[cur] <= idx
                      /\ idx < rxOffset => offs[cur] = rxOffset
    /\ pc = "put"  => idx < Len(stream) /\ rxOffset <= idx /\ offs[cur] <= idx

\* Snapshots are sent in order, each to its end before the next.
InOrder == /\ \A s, t \in snaps : s < t /\ offs[t] # Absent => offs[s] = Done
           /\ pc \in Transfer => \A s \in src : s < cur => offs[s] = Done
           /\ pc = "pick" => \A s \in src : s <= cur => offs[s] = Done
           /\ pc = "prune" => \A s \in src : offs[s] = Done

\* The directory holds the newest snapshot that is marked, unless an offset is
\* recorded for the next one; then, and while it is sent, the directory is as
\* far on the way from the one to the other as it says.
OnTheWay == /\ \A s \in snaps : offs[s] \in 0..(Done - 1) => On(s, offs[s])
            /\ (\A s \in snaps : offs[s] \in {Absent, Done}) => At(Newest)
            /\ pc = "read" /\ idx >= rxOffset => On(cur, idx)
            /\ pc \in {"open", "put"} /\ idx >= rxOffset => On(cur, idx + 1)
            /\ pc \in {"open", "put"} /\ idx = 0 /\ offs[cur] \in {Absent, Void} => At(Before(cur))
            /\ pc = "idle" /\ result = "ok" => src # {} /\ At(Max(src))

\* The inductive invariant.
IInv == Types /\ Placed /\ (~spoiled => InOrder /\ OnTheWay)

-----------------------------------------------------------------------------
(* What the invariant says of the constants and of a transfer.             *)

LEMMA DoneIs ==
  /\ Done \in Nat /\ Done > 0 /\ Absent = -2 /\ Void = -1 /\ MaxSnaps \in Nat /\ MaxFaults \in Nat
  /\ \A op \in Begins, from, to \in Contents : Len(Stream(op, from, to)) <= Done
<1>1. Nothing \in Contents
  BY DEF Nothing, Contents
<1>2. \A op \in Begins, from, to \in Contents : Len(Stream(op, from, to)) \in Nat /\ Len(Stream(op, from, to)) >= 2
                                                /\ Len(Stream(op, from, to)) < MaxUint64
  <2> SUFFICES ASSUME NEW op \in Begins, NEW from \in Contents, NEW to \in Contents
               PROVE  Len(Stream(op, from, to)) \in Nat /\ Len(Stream(op, from, to)) >= 2 /\ Len(Stream(op, from, to)) < MaxUint64
    OBVIOUS
  <2>1. Len(Middle(from, to)) \in Nat /\ Len(Stream(op, from, to)) = Len(Middle(from, to)) + 2
    BY StreamIs DEF IsStream
  <2>2. Len(Stream(op, from, to)) < MaxUint64
    BY DirectoryAssumption DEF Begins
  <2>3. QED
    BY <2>1, <2>2
<1>3. MaxUint64 \in Nat /\ MaxUint64 > 2
  <2>1. Len(Stream("subvol", Nothing, Nothing)) >= 2 /\ Len(Stream("subvol", Nothing, Nothing)) < MaxUint64
        /\ Len(Stream("subvol", Nothing, Nothing)) \in Nat
    BY <1>1, <1>2 DEF Begins
  <2>2. QED
    BY <2>1, DirectoryAssumption
<1>4. QED
  BY <1>2, <1>3, DirectoryAssumption DEF Done, Absent, Void

LEMMA StatesAre == States \subseteq Contents
BY DirectoryAssumption

LEMMA StateIs ==
  ASSUME Types, NEW s \in 0..MaxSnaps
  PROVE  State(s) \in Contents
<1>1. s # 0 => s \in Snaps
  BY DoneIs DEF Snaps
<1>2. QED
  BY <1>1 DEF State, Nothing, Contents, Types, SourceOK

\* The snapshot before another.
LEMMA BeforeIs ==
  ASSUME Types, NEW s \in Snaps
  PROVE  /\ Before(s) \in {0} \cup snaps /\ Before(s) < s /\ Before(s) \in 0..MaxSnaps
         /\ \A t \in snaps : t < s => t <= Before(s)
<1> DEFINE S == {0} \cup {t \in snaps : t < s}
<1>1. S \in SUBSET (0..MaxSnaps) /\ 0 \in S /\ MaxSnaps \in Nat /\ s > 0
  <2>1. MaxSnaps \in Nat /\ s > 0 /\ snaps \subseteq 1..taken /\ taken \in 0..MaxSnaps
    BY DoneIs DEF Types, SourceOK, Snaps
  <2>2. \A t \in snaps : t \in 0..MaxSnaps
    BY <2>1
  <2>3. 0 \in 0..MaxSnaps
    BY <2>1
  <2>4. QED
    BY <2>1, <2>2, <2>3
<1>2. Max(S) \in S /\ \A y \in S : Max(S) >= y
  <2> HIDE DEF S
  <2>1. QED
    BY <1>1, MaxOfNat
<1>3. Before(s) = Max(S)
  BY DEF Before
<1>4. \A y \in S : y \in Int
  BY <1>1
<1> HIDE DEF S
<1>5. Before(s) \in S /\ \A y \in S : y <= Before(s)
  BY <1>2, <1>3, <1>4
<1>6. QED
  BY <1>1, <1>5 DEF S

\* The newest snapshot that is marked.
LEMMA NewestIs ==
  ASSUME Types
  PROVE  /\ Newest \in 0..MaxSnaps /\ (Newest # 0 => Newest \in snaps /\ offs[Newest] = Done)
         /\ \A t \in snaps : offs[t] = Done => t <= Newest
<1> DEFINE S == {0} \cup {s \in snaps : offs[s] = Done}
<1>1. S \in SUBSET (0..MaxSnaps) /\ 0 \in S /\ MaxSnaps \in Nat
  <2>1. MaxSnaps \in Nat /\ snaps \subseteq 1..taken /\ taken \in 0..MaxSnaps
    BY DoneIs DEF Types, SourceOK
  <2>2. \A t \in snaps : t \in 0..MaxSnaps
    BY <2>1
  <2>3. 0 \in 0..MaxSnaps
    BY <2>1
  <2>4. QED
    BY <2>1, <2>2, <2>3
<1>2. Max(S) \in S /\ \A y \in S : Max(S) >= y
  <2> HIDE DEF S
  <2>1. QED
    BY <1>1, MaxOfNat
<1>3. Newest = Max(S)
  BY DEF Newest
<1>4. \A y \in S : y \in Int
  BY <1>1
<1> HIDE DEF S
<1>5. Newest \in S /\ \A y \in S : y <= Newest
  BY <1>2, <1>3, <1>4
<1>6. QED
  BY <1>1, <1>5 DEF S

\* The stream that leads to a snapshot from the one before it.
LEMMA SentIs ==
  ASSUME Types, NEW s \in Snaps
  PROVE  LET M == Middle(State(Before(s)), State(s))
             sent == SendStream(Before(s), s)
         IN  /\ State(Before(s)) \in Contents /\ State(s) \in Contents
             /\ Len(M) \in Nat /\ Len(sent) = Len(M) + 2 /\ Len(sent) <= Done
             /\ sent[1].op \in Begins
             /\ \A j \in 1..Len(M) : sent[j + 1] = M[j] /\ M[j] \in AllCommands /\ M[j].op \notin Begins \cup {"end"}
             /\ sent[Len(M) + 2].op = "end"
<1>1. PICK op \in Begins : SendStream(Before(s), s) = Stream(op, State(Before(s)), State(s))
  BY BeforeIs DEF SendStream, State, Begins, Snaps
<1>2. State(Before(s)) \in Contents /\ State(s) \in Contents
  BY BeforeIs, StateIs, DoneIs DEF Snaps
<1>3. \A o : Begin(o).op = o
  BY DEF Begin, Cmd
<1>4. \A c \in AllCommands : c.op \notin Begins \cup {"end"}
  <2>1. ASSUME NEW p \in Paths, NEW c \in CommandsOn(p)
        PROVE  c.op \notin Begins \cup {"end"}
    <3>1. \A v : Wr(p, v).op \in {"write", "clone"}
      BY DEF Wr, Data, Cmd
    <3>2. \A v : Sym(p, v).op = "symlink" /\ Ln(p, v).op = "link"
      BY DEF Sym, Ln, Cmd
    <3>3. Mk(p).op = "mkfile" /\ Mv(p).op = "rename" /\ Attr(p).op = "attributes" /\ Rm(p).op = "unlink"
      BY DEF Mk, Mv, Attr, Rm, Cmd
    <3>4. c.op \in {"mkfile", "rename", "write", "clone", "symlink", "attributes", "link", "unlink"}
      BY <3>1, <3>2, <3>3 DEF CommandsOn
    <3>5. QED
      BY <3>4 DEF Begins
  <2>2. QED
    BY <2>1 DEF AllCommands
<1>5. Len(Stream(op, State(Before(s)), State(s))) <= Done
  BY <1>2, DoneIs
<1>6. PICK from \in Contents, to \in Contents : from = State(Before(s)) /\ to = State(s)
  BY <1>2
<1>7. PICK M, sent : M = Middle(from, to) /\ sent = Stream(op, from, to)
  OBVIOUS
<1>8. /\ Len(M) \in Nat /\ Len(sent) = Len(M) + 2
      /\ sent[1] = Begin(op)
      /\ \A j \in 1..Len(M) : sent[j + 1] = M[j] /\ M[j] \in AllCommands
      /\ sent[Len(M) + 2] = Begin("end")
  <2>1. IsStream(op, M, sent)
    BY <1>7, StreamIs
  <2>2. QED
    BY <2>1 DEF IsStream
<1>9. /\ Len(M) \in Nat /\ Len(sent) = Len(M) + 2 /\ Len(sent) <= Done
      /\ sent[1].op \in Begins
      /\ \A j \in 1..Len(M) : sent[j + 1] = M[j] /\ M[j] \in AllCommands /\ M[j].op \notin Begins \cup {"end"}
      /\ sent[Len(M) + 2].op = "end"
  BY <1>3, <1>4, <1>5, <1>6, <1>7, <1>8
<1>10. M = Middle(State(Before(s)), State(s)) /\ sent = SendStream(Before(s), s)
  BY <1>1, <1>6, <1>7
<1>11. QED
  BY <1>2, <1>9, <1>10

\* The transfer's next command.
LEMMA CommandIs ==
  ASSUME Types, Placed, pc \in Transfer
  PROVE  LET M == Middle(State(Before(cur)), State(cur))
         IN  /\ cur \in Snaps /\ cur \in snaps /\ Len(stream) \in Nat /\ Len(stream) = Len(M) + 2 /\ Len(M) \in Nat
             /\ idx \in Nat /\ Len(stream) <= Done
             /\ idx < Len(stream) => /\ Next1.op \in Begins <=> idx = 0
                                     /\ Next1.op = "end" <=> idx = Len(M) + 1
                                     /\ idx \in 1..Len(M) => Next1 = M[idx] /\ M[idx] \in AllCommands
<1>1. cur \in Snaps /\ cur \in snaps /\ idx \in 0..Len(stream) /\ stream = SendStream(Before(cur), cur)
  BY DoneIs DEF Types, SourceOK, SyncOK, Placed, Snaps, Transfer
<1>2. PICK M : M = Middle(State(Before(cur)), State(cur))
  OBVIOUS
<1>3. /\ Len(M) \in Nat /\ Len(stream) = Len(M) + 2 /\ Len(stream) <= Done
      /\ stream[1].op \in Begins
      /\ \A j \in 1..Len(M) : stream[j + 1] = M[j] /\ M[j] \in AllCommands /\ M[j].op \notin Begins \cup {"end"}
      /\ stream[Len(M) + 2].op = "end"
  BY <1>1, <1>2, SentIs
<1>4. PICK n \in Nat : n = Len(M)
  BY <1>3
<1>5. idx \in Nat
  BY <1>1, <1>3
<1>6. idx < Len(stream) => idx = 0 \/ idx \in 1..n \/ idx = n + 1
  BY <1>3, <1>4, <1>5
<1>7. "end" \notin Begins
  BY DEF Begins
<1>8. CASE idx = 0
  BY <1>1, <1>2, <1>3, <1>4, <1>7, <1>8 DEF Next1
<1>9. CASE idx \in 1..n
  BY <1>1, <1>2, <1>3, <1>4, <1>9 DEF Next1
<1>10. CASE idx = n + 1
  <2>1. Next1 = stream[n + 2]
    BY <1>5, <1>10 DEF Next1
  <2>2. QED
    BY <1>1, <1>2, <1>3, <1>4, <1>7, <1>10, <2>1
<1>11. QED
  BY <1>1, <1>2, <1>3, <1>4, <1>5, <1>6, <1>8, <1>9, <1>10

-----------------------------------------------------------------------------
(* The invariant holds initially and is kept by every step.                *)

LEMMA InitIInv == Init => IInv
<1> SUFFICES ASSUME Init PROVE IInv
  OBVIOUS
<1> USE DoneIs DEF Init
<1>1. Nothing \in Contents /\ Empty \in [Names -> Held]
  BY DEF Nothing, Contents, Empty, Held
<1>2. Types
  <2>1. SourceOK
    BY <1>1 DEF SourceOK
  <2>2. offs \in [Snaps -> Void..Done \cup {Absent}]
    <3>1. Absent \in Void..Done \cup {Absent}
      OBVIOUS
    <3>2. QED
      BY <3>1
  <2>3. SyncOK
    <3>1. idx \in 0..Len(stream)
      <4>1. Len(stream) = 0 /\ idx = 0
        OBVIOUS
      <4>2. QED
        BY ONLY <4>1
    <3>2. faults \in 0..MaxFaults /\ rxOffset \in 0..Done /\ cur \in 0..MaxSnaps
      OBVIOUS
    <3>3. pc \in {"idle", "pick", "prune"} \cup Transfer /\ result \in {"none", "ok", "error"} /\ spoiled \in BOOLEAN
      OBVIOUS
    <3>4. QED
      BY ONLY <3>1, <3>2, <3>3 DEF SyncOK
  <2>4. QED
    BY <1>1, <2>1, <2>2, <2>3 DEF Types, DiskOK
<1>3. Placed
  BY DEF Placed, Snaps, Transfer
<1>4. InOrder
  BY DEF InOrder, Transfer
<1>5. Newest = 0
  BY <1>2, NewestIs
<1>6. State(0) = Nothing
  BY DEF State
<1>7. Holds(Nothing, tree, remote)
  <2>1. ASSUME NEW p \in Paths
        PROVE  tree[File(p)] = Shown(p, Nothing[p], remote) /\ tree[Orphan(p)] = NoFile
    <3>1. tree[File(p)] = NoFile /\ tree[Orphan(p)] = NoFile /\ Nothing[p] = NoFile
      BY NamesAre DEF Empty, Nothing
    <3>2. QED
      BY <3>1 DEF Shown
  <2>2. QED
    BY <2>1 DEF Holds
<1>8. OnTheWay
  <2>1. At(Newest)
    BY <1>5, <1>6, <1>7 DEF At
  <2>2. QED
    BY <2>1 DEF OnTheWay
<1>9. QED
  BY <1>2, <1>3, <1>4, <1>8 DEF IInv

\* The snapshot PickSnapshot turns to, and the one its stream starts from.
LEMMA PickedIs ==
  ASSUME Types, Placed, pc = "pick", Ahead # {}
  PROVE  /\ Min(Ahead) \in snaps /\ Min(Ahead) \in src /\ Min(Ahead) \in Snaps /\ Min(Ahead) > cur
         /\ \A s \in src : s < Min(Ahead) => s <= cur
         /\ ParentOf(Min(Ahead)) = Before(Min(Ahead))
<1>1. Ahead \in SUBSET Nat /\ src = snaps /\ src \subseteq Snaps /\ \A s \in src : s \in Nat
  <2>1. /\ src = snaps /\ snaps \subseteq 1..taken /\ taken \in 0..MaxSnaps /\ MaxSnaps \in Nat
    BY DoneIs DEF Types, SourceOK, Placed
  <2>2. \A s \in snaps : s \in Nat /\ s \in Snaps
    BY <2>1 DEF Snaps
  <2>3. QED
    BY <2>1, <2>2 DEF Ahead
<1>2. Min(Ahead) \in Ahead /\ \A y \in Ahead : Min(Ahead) <= y
  BY <1>1, MinOfNat
<1>3. PICK m : m = Min(Ahead)
  OBVIOUS
<1>4. m \in src /\ m > cur /\ m \in Nat /\ cur \in Nat /\ \A s \in src : s > cur => m <= s
  BY <1>1, <1>2, <1>3, DoneIs DEF Ahead, Types, SyncOK
<1>5. \A s \in src : s < m => s <= cur
  BY <1>1, <1>4
<1>6. ParentOf(m) = Before(m)
  BY <1>1 DEF ParentOf, Before
<1>7. QED
  BY <1>1, <1>3, <1>4, <1>5, <1>6

LEMMA TypesStep ==
  ASSUME Types, Placed, [Next]_vars
  PROVE  Types'
<1> USE DoneIs DEF Types
<1>1. /\ remote \in BOOLEAN /\ taken \in 0..MaxSnaps /\ snaps \subseteq 1..taken /\ src \subseteq 1..taken
      /\ content \in [Snaps -> Contents]
      /\ tree \in [Names -> Held] /\ offs \in [Snaps -> Void..Done \cup {Absent}]
      /\ pc \in {"idle", "pick", "prune"} \cup Transfer
      /\ cur \in 0..MaxSnaps /\ idx \in 0..Len(stream) /\ rxOffset \in 0..Done
      /\ result \in {"none", "ok", "error"} /\ faults \in 0..MaxFaults /\ spoiled \in BOOLEAN
  BY DEF SourceOK, DiskOK, SyncOK
<1>2. \A s \in Snaps, v \in Void..Done : [offs EXCEPT ![s] = v] \in [Snaps -> Void..Done \cup {Absent}]
  BY <1>1
<1>3. \A s \in Snaps : [offs EXCEPT ![s] = Absent] \in [Snaps -> Void..Done \cup {Absent}]
  BY <1>1
<1>4. /\ pc \in Transfer => cur \in Snaps /\ idx \in Nat /\ Len(stream) \in Nat /\ Len(stream) <= Done
      /\ pc \in Transfer /\ idx < Len(stream) =>
             LET M == Middle(State(Before(cur)), State(cur))
             IN  /\ Next1.op \in Begins <=> idx = 0
                 /\ Next1.op = "end" <=> idx = Len(M) + 1
                 /\ idx \in 1..Len(M) => Next1 \in AllCommands
  BY CommandIs
<1>5. /\ Void \in Void..Done /\ Done \in Void..Done
      /\ pc \in Transfer /\ idx < Len(stream) => idx \in Void..Done /\ idx \in 0..Done
  BY <1>4
<1>6. ASSUME Abort PROVE /\ SourceOK'
                         /\ pc' \in {"idle", "pick", "prune"} \cup Transfer
                         /\ cur' \in 0..MaxSnaps /\ idx' \in 0..Len(stream') /\ rxOffset' \in 0..Done
                         /\ result' \in {"none", "ok", "error"}
  <2>1. SourceOK'
    BY <1>1, <1>6 DEF Abort, SourceOK, source
  <2>2. stream' = << >> /\ idx' = 0 /\ rxOffset' = 0 /\ cur' = 0 /\ pc' = "idle" /\ result' = "error"
    BY <1>6 DEF Abort, TransferOver
  <2>3. Len(stream') = 0
    BY <2>2
  <2>4. QED
    BY <2>1, <2>2, <2>3
<1>7. \A s \in Snaps : s \in 1..MaxSnaps
  BY DEF Snaps
<1>8. CASE TakeSnapshot
  <2>1. taken + 1 \in Snaps /\ taken' = taken + 1 /\ snaps' = snaps \cup {taken + 1} /\ taken' \in 0..MaxSnaps
    BY <1>1, <1>8 DEF TakeSnapshot, Snaps
  <2>2. PICK c \in Contents : content' = [content EXCEPT ![taken + 1] = c]
    BY <1>8, StatesAre DEF TakeSnapshot
  <2>3. content' \in [Snaps -> Contents]
    BY <1>1, <2>1, <2>2
  <2>4. snaps' \subseteq 1..taken' /\ src' \subseteq 1..taken'
    BY <1>1, <1>8, <2>1 DEF TakeSnapshot, proc
  <2>5. SourceOK'
    BY <1>1, <1>8, <2>1, <2>3, <2>4 DEF TakeSnapshot, SourceOK
  <2>6. DiskOK' /\ SyncOK'
    BY <1>1, <1>8 DEF TakeSnapshot, DiskOK, SyncOK, disk, proc
  <2>7. QED
    BY <2>5, <2>6
<1>9. ASSUME NEW s \in Snaps, Expire(s) PROVE Types'
  <2>1. faults' \in 0..MaxFaults /\ spoiled' \in BOOLEAN
    <3>1. \/ faults' = faults /\ spoiled' = spoiled
          \/ faults > 0 /\ faults' = faults - 1 /\ spoiled' = TRUE
      BY <1>9 DEF Expire
    <3>2. faults' \in 0..MaxFaults
      BY <1>1, <3>1
    <3>3. spoiled' \in BOOLEAN
      BY <1>1, <3>1, Zenon
    <3>4. QED
      BY <3>2, <3>3
  <2>2. /\ snaps' \subseteq snaps
        /\ UNCHANGED <<remote, taken, content, tree, offs, src, cur, stream, idx, rxOffset, pc, result>>
    BY <1>9 DEF Expire, disk, proc
  <2>3. SourceOK'
    BY <1>1, <2>2 DEF SourceOK
  <2>4. DiskOK' /\ SyncOK'
    BY <1>1, <2>1, <2>2 DEF DiskOK, SyncOK
  <2>5. QED
    BY <2>3, <2>4
<1>10. CASE StartSync
  BY <1>1, <1>10 DEF StartSync, SourceOK, DiskOK, SyncOK, disk, source
<1>11. CASE PickSnapshot
  <2>1. Min(Ahead) \in Snaps /\ Min(Ahead) \in 0..MaxSnaps /\ ParentOf(Min(Ahead)) = Before(Min(Ahead))
    BY <1>7, <1>11, PickedIs DEF PickSnapshot
  <2>2. CASE Abort
    BY <1>1, <1>6, <1>11, <2>2 DEF PickSnapshot, DiskOK, SyncOK, disk
  <2>3. CASE /\ cur' = Min(Ahead)
             /\ UNCHANGED <<source, pc, src, stream, idx, rxOffset, result>>
    BY <1>1, <1>11, <2>1, <2>3 DEF PickSnapshot, SourceOK, DiskOK, SyncOK, disk, source
  <2>4. CASE /\ cur' = Min(Ahead)
             /\ stream' = SendStream(ParentOf(Min(Ahead)), Min(Ahead))
             /\ pc' = "read"
             /\ UNCHANGED <<source, src, idx, rxOffset, result>>
    <3>1. Len(stream') \in Nat
      BY <2>1, <2>4, SentIs
    <3>2. idx = 0 /\ idx' \in 0..Len(stream')
      BY <1>11, <2>4, <3>1 DEF Placed, PickSnapshot, Transfer
    <3>3. pc' \in Transfer
      BY <2>4 DEF Transfer
    <3>4. QED
      BY <1>1, <1>11, <2>1, <2>4, <3>2, <3>3 DEF PickSnapshot, SourceOK, DiskOK, SyncOK, disk, source
  <2>5. QED
    BY <1>11, <2>2, <2>3, <2>4 DEF PickSnapshot
<1>12. CASE AllSynced
  BY <1>1, <1>12 DEF AllSynced, SourceOK, DiskOK, SyncOK, disk, source, proc
<1>13. CASE FinishRun
  BY <1>1, <1>13 DEF FinishRun, SourceOK, DiskOK, SyncOK, disk, source, proc
<1>14. CASE SkipCommand
  <2>1. idx' \in 0..Len(stream')
    BY <1>1, <1>4, <1>14 DEF SkipCommand, More, Transfer
  <2>2. QED
    BY <1>1, <1>14, <2>1 DEF SkipCommand, SourceOK, DiskOK, SyncOK, disk, source
<1>15. CASE BeginSubvolume
  <2>1. pc' \in Transfer /\ pc \in Transfer /\ idx < Len(stream)
    BY <1>15 DEF BeginSubvolume, More, Transfer
  <2>2. rxOffset' \in 0..Done
    <3>1. offs[cur] # Void
      <4>1. pc = "read"
        BY <1>15 DEF BeginSubvolume, More
      <4>2. QED
        BY <2>1, <4>1 DEF Placed
    <3>2. offs[cur] \in Void..Done \cup {Absent}
      BY <1>1, <1>4, <2>1
    <3>3. QED
      BY <1>15, <3>1, <3>2 DEF BeginSubvolume, Recorded
  <2>3. QED
    BY <1>1, <1>15, <2>1, <2>2 DEF BeginSubvolume, SourceOK, DiskOK, SyncOK, disk, source
<1>16. CASE DoCommand
  <2>1. pc \in Transfer /\ idx < Len(stream) /\ Next1.op \notin Begins /\ Next1.op # "end"
    BY <1>16 DEF DoCommand, More, Transfer, Begins
  <2>2. Next1 \in AllCommands
    <3>1. PICK M : M = Middle(State(Before(cur)), State(cur))
      OBVIOUS
    <3>2. /\ Len(M) \in Nat /\ Len(stream) = Len(M) + 2 /\ idx \in Nat /\ idx # 0 /\ idx # Len(M) + 1
          /\ idx \in 1..Len(M) => Next1 \in AllCommands
      BY <2>1, <3>1, CommandIs
    <3>3. QED
      BY <2>1, <3>2
  <2>3. CASE Abort /\ UNCHANGED disk
    BY <1>1, <1>6, <1>16, <2>3 DEF DoCommand, DiskOK, SyncOK, disk
  <2>4. CASE /\ tree' = IF remote THEN RemoteApplied(tree, Next1) ELSE Applied(tree, Next1)
             /\ pc' = "open"
             /\ UNCHANGED <<source, offs, proc, result>>
    <3>1. tree' = After(tree, remote, Next1)
      BY <2>4 DEF After
    <3>2. tree' \in [Names -> Held]
      BY <1>1, <2>2, <3>1, AfterTyped
    <3>3. pc' \in Transfer
      BY <2>4 DEF Transfer
    <3>4. QED
      BY <1>1, <1>16, <2>4, <3>2, <3>3 DEF DoCommand, SourceOK, DiskOK, SyncOK, source, proc
  <2>5. QED
    BY <1>16, <2>3, <2>4 DEF DoCommand
<1>17. CASE PostOpSkip
  <2>1. idx' \in 0..Len(stream') /\ pc' \in Transfer
    BY <1>1, <1>4, <1>17 DEF PostOpSkip, Placed, Transfer
  <2>2. QED
    BY <1>1, <1>17, <2>1 DEF PostOpSkip, SourceOK, DiskOK, SyncOK, disk, source
<1>18. CASE PostOpOpen
  <2>1. cur \in Snaps /\ pc' \in Transfer
    BY <1>4, <1>18 DEF PostOpOpen, Transfer
  <2>2. offs' \in [Snaps -> Void..Done \cup {Absent}]
    BY <1>1, <1>18, <2>1 DEF PostOpOpen
  <2>3. QED
    BY <1>1, <1>18, <2>1, <2>2 DEF PostOpOpen, SourceOK, DiskOK, SyncOK, source, proc
<1>19. CASE PostOpWrite
  <2>1. cur \in Snaps /\ pc \in Transfer /\ pc' \in Transfer /\ idx < Len(stream)
    BY <1>4, <1>19 DEF PostOpWrite, Transfer, Placed
  <2>2. offs' \in [Snaps -> Void..Done \cup {Absent}] /\ idx' \in 0..Len(stream')
    BY <1>1, <1>2, <1>4, <1>5, <1>19, <2>1 DEF PostOpWrite
  <2>3. QED
    BY <1>1, <1>19, <2>1, <2>2 DEF PostOpWrite, SourceOK, DiskOK, SyncOK, source
<1>20. CASE PostOpRemote
  <2>1. cur \in Snaps /\ pc \in Transfer /\ idx < Len(stream)
    BY <1>4, <1>20 DEF PostOpRemote, Transfer, Placed
  <2>2. DiskOK'
    BY <1>1, <1>2, <1>5, <1>20, <2>1 DEF PostOpRemote, DiskOK
  <2>3. CASE Abort /\ faults > 0 /\ faults' = faults - 1
    BY <1>1, <1>6, <1>20, <2>2, <2>3 DEF PostOpRemote, SyncOK
  <2>4. CASE /\ idx' = idx + 1
             /\ pc' = "read"
             /\ UNCHANGED <<source, src, cur, stream, rxOffset, result, faults>>
    <3>1. idx' \in 0..Len(stream') /\ pc' \in Transfer
      BY <1>4, <2>1, <2>4 DEF Transfer
    <3>2. QED
      BY <1>1, <1>20, <2>2, <2>4, <3>1 DEF PostOpRemote, SourceOK, SyncOK, source
  <2>5. QED
    BY <1>20, <2>3, <2>4 DEF PostOpRemote
<1>21. CASE FinishSubvolume
  <2>1. cur \in Snaps
    BY <1>4, <1>21 DEF FinishSubvolume, Transfer
  <2>2. DiskOK'
    BY <1>1, <1>2, <1>5, <1>21, <2>1 DEF FinishSubvolume, DiskOK
  <2>3. idx' \in 0..Len(stream') /\ rxOffset' \in 0..Done
    <3>1. stream' = << >> /\ idx' = 0 /\ rxOffset' = 0
      BY <1>21 DEF FinishSubvolume, TransferOver
    <3>2. Len(stream') = 0
      BY <3>1
    <3>3. QED
      BY <3>1, <3>2
  <2>4. faults' \in 0..MaxFaults /\ spoiled' \in BOOLEAN
    <3>1. \/ faults' = faults /\ spoiled' = spoiled
          \/ faults > 0 /\ faults' = faults - 1 /\ spoiled' = TRUE
      BY <1>21 DEF FinishSubvolume
    <3>2. faults' \in 0..MaxFaults
      BY <1>1, <3>1
    <3>3. spoiled' \in BOOLEAN
      BY <1>1, <3>1, Zenon
    <3>4. QED
      BY <3>2, <3>3
  <2>5. QED
    BY <1>1, <1>21, <2>2, <2>3, <2>4 DEF FinishSubvolume, SourceOK, SyncOK, source
<1>22. ASSUME NEW s \in Snaps, PruneOffset(s) PROVE Types'
  BY <1>1, <1>3, <1>22 DEF PruneOffset, SourceOK, DiskOK, SyncOK, source, proc
<1>23. CASE StreamBreaks \/ Crash
  BY <1>1, <1>6, <1>23 DEF StreamBreaks, Crash, DiskOK, SyncOK, disk
<1>24. CASE UNCHANGED vars
  BY <1>1, <1>24 DEF vars, SourceOK, DiskOK, SyncOK, source, disk, proc
<1>25. QED
  BY <1>8, <1>9, <1>10, <1>11, <1>12, <1>13, <1>14, <1>15, <1>16, <1>17, <1>18, <1>19, <1>20, <1>21, <1>22, <1>23, <1>24
     DEF Next, Source, Sync

\* A step that ends a transfer or is no part of one.
LEMMA PlacedWithout ==
  ASSUME Types, Placed, Types', pc' \notin Transfer,
         \A s \in Snaps : s > taken' => offs'[s] = Absent,
         pc' # "idle" => src' = snaps' /\ snaps' # {},
         stream' = << >> /\ idx' = 0 /\ rxOffset' = 0
  PROVE  Placed'
BY DEF Placed, Transfer

\* A step within a transfer.
LEMMA PlacedWithin ==
  ASSUME Types, Placed, Types', pc \in Transfer, pc' \in Transfer,
         UNCHANGED <<source, src, cur, stream>>,
         \A s \in Snaps : s # cur => offs'[s] = offs[s],
         offs'[cur] # Done,
         offs'[cur] = Void => pc' = "put" /\ idx' = 0,
         pc' = "read" => /\ idx' = 0 => rxOffset' = 0
                         /\ idx' > 0 => offs'[cur] >= 0 /\ (offs'[cur] <= rxOffset' \/ offs'[cur] < idx')
                         /\ idx' < rxOffset' => offs'[cur] = rxOffset',
         pc' = "open" => /\ idx' < Len(stream)
                         /\ idx' > 0 => offs'[cur] >= 0
                         /\ offs'[cur] <= rxOffset' \/ offs'[cur] <= idx'
                         /\ idx' < rxOffset' => offs'[cur] = rxOffset',
         pc' = "put" => idx' < Len(stream) /\ rxOffset' <= idx' /\ offs'[cur] <= idx'
  PROVE  Placed'
<1>1. cur \in src /\ src = snaps /\ snaps # {} /\ stream = SendStream(Before(cur), cur) /\ pc # "idle"
  BY DEF Placed, Transfer
<1>2. cur' \in src' /\ src' = snaps' /\ snaps' # {} /\ stream' = SendStream(Before(cur), cur)'
  <2>1. UNCHANGED <<snaps, content, src, cur, stream>>
    BY DEF source
  <2>2. Before(cur)' = Before(cur)
    BY <2>1 DEF Before
  <2>3. SendStream(Before(cur), cur)' = SendStream(Before(cur), cur)
    BY <2>1, <2>2 DEF SendStream
  <2>4. QED
    BY <1>1, <2>1, <2>3
<1>3. \A s \in Snaps : s > taken' => offs'[s] = Absent
  <2>1. cur \in 1..taken /\ taken' = taken /\ taken \in Nat
    BY <1>1, DoneIs DEF Types, SourceOK, source
  <2>2. \A s \in Snaps : s > taken => s # cur
    BY <2>1, DoneIs DEF Snaps
  <2>3. QED
    BY <2>1, <2>2 DEF Placed
<1>4. cur' = cur /\ stream' = stream /\ pc' # "pick" /\ pc' # "prune" /\ pc' # "idle"
  BY DEF Transfer
<1>5. QED
  BY <1>2, <1>3, <1>4 DEF Placed

LEMMA PlacedStep ==
  ASSUME Types, Placed, [Next]_vars
  PROVE  Placed'
<1> USE DoneIs
<1>1. Types'
  BY TypesStep
<1>2. /\ pc \in {"idle", "pick", "prune", "read", "open", "put"} /\ offs \in [Snaps -> Void..Done \cup {Absent}]
      /\ rxOffset \in Nat /\ taken \in Nat /\ idx \in 0..Len(stream)
  BY DEF Types, SourceOK, DiskOK, SyncOK, Transfer
<1>3. \A s \in Snaps : s \in Int /\ offs[s] \in Int
  BY <1>2 DEF Snaps
<1>4. \A s \in Snaps : s > taken => offs[s] = Absent
  BY DEF Placed
<1>5. pc # "idle" => src = snaps /\ snaps # {}
  BY DEF Placed
<1>6. pc \in Transfer => /\ cur \in Snaps /\ cur \in src /\ cur <= taken /\ cur # 0 /\ idx \in Nat /\ Len(stream) \in Nat
                         /\ Len(stream) <= Done /\ offs[cur] # Done /\ offs[cur] \in Int
  <2> SUFFICES ASSUME pc \in Transfer
               PROVE  /\ cur \in Snaps /\ cur \in src /\ cur <= taken /\ cur # 0 /\ idx \in Nat /\ Len(stream) \in Nat
                      /\ Len(stream) <= Done /\ offs[cur] # Done /\ offs[cur] \in Int
    OBVIOUS
  <2>1. cur \in Snaps /\ idx \in Nat /\ Len(stream) \in Nat /\ Len(stream) <= Done
    BY CommandIs
  <2>2. cur \in src /\ offs[cur] # Done
    BY DEF Placed
  <2>3. cur \in 1..taken
    BY <2>2 DEF Types, SourceOK
  <2>4. QED
    BY <1>2, <1>3, <2>1, <2>2, <2>3
<1>7. pc \notin Transfer => stream = << >> /\ idx = 0 /\ rxOffset = 0
  BY DEF Placed
<1>8. pc = "read" => /\ idx = 0 => rxOffset = 0
                     /\ idx > 0 => offs[cur] >= 0 /\ (offs[cur] <= rxOffset \/ offs[cur] < idx)
                     /\ idx < rxOffset => offs[cur] = rxOffset
                     /\ offs[cur] # Void
  BY DEF Placed, Transfer
<1>9. pc = "open" => /\ idx < Len(stream)
                     /\ idx > 0 => offs[cur] >= 0
                     /\ offs[cur] <= rxOffset \/ offs[cur] <= idx
                     /\ idx < rxOffset => offs[cur] = rxOffset
                     /\ offs[cur] # Void
  BY DEF Placed, Transfer
<1>10. pc = "put" => idx < Len(stream) /\ rxOffset <= idx /\ offs[cur] <= idx
  BY DEF Placed
<1>11. ASSUME Abort, \A s \in Snaps : s > taken => offs'[s] = Absent
       PROVE  Placed'
  <2>1. pc' = "idle" /\ stream' = << >> /\ idx' = 0 /\ rxOffset' = 0 /\ taken' = taken
    BY <1>11 DEF Abort, TransferOver, source
  <2>2. QED
    BY <1>1, <1>11, <2>1, PlacedWithout DEF Transfer
<1>12. "idle" \notin Transfer /\ "pick" \notin Transfer /\ "prune" \notin Transfer
  BY DEF Transfer
<1>13. CASE TakeSnapshot
  <2>1. pc = "idle" /\ UNCHANGED <<offs, stream, idx, rxOffset, pc>> /\ taken' = taken + 1
    BY <1>13 DEF TakeSnapshot, disk, proc
  <2>2. \A s \in Snaps : s > taken' => s > taken
    BY <1>2, <1>3, <2>1
  <2>3. QED
    BY <1>1, <1>4, <1>7, <1>12, <2>1, <2>2, PlacedWithout
<1>14. ASSUME NEW s \in Snaps, Expire(s) PROVE Placed'
  <2>1. pc = "idle" /\ UNCHANGED <<offs, stream, idx, rxOffset, pc, taken>>
    BY <1>14 DEF Expire, disk, proc
  <2>2. QED
    BY <1>1, <1>4, <1>7, <1>12, <2>1, PlacedWithout
<1>15. CASE StartSync
  <2>1. pc = "idle" /\ pc' = "pick" /\ src' = snaps' /\ snaps' # {} /\ UNCHANGED <<offs, stream, idx, rxOffset, taken>>
    BY <1>15 DEF StartSync, disk, source
  <2>2. QED
    BY <1>1, <1>4, <1>7, <1>12, <2>1, PlacedWithout
<1>16. CASE PickSnapshot
  <2>1. /\ pc = "pick" /\ Ahead # {} /\ UNCHANGED <<tree, offs, faults, spoiled>> /\ snaps # {} /\ src = snaps
        /\ stream = << >> /\ idx = 0 /\ rxOffset = 0
    BY <1>5, <1>7, <1>12, <1>16 DEF PickSnapshot, disk
  <2>2. PICK m : m = Min(Ahead)
    OBVIOUS
  <2>3. m \in Snaps /\ m \in src /\ ParentOf(m) = Before(m)
    BY <2>1, <2>2, PickedIs
  <2>4. CASE Abort
    BY <1>4, <1>11, <2>1, <2>4
  <2>5. CASE cur' = m /\ UNCHANGED <<source, pc, src, stream, idx, rxOffset, result>>
    BY <1>1, <1>4, <1>12, <2>1, <2>5, PlacedWithout DEF source
  <2>6. CASE /\ cur' = m
             /\ offs[m] \notin {Void, Done}
             /\ stream' = SendStream(ParentOf(m), m)
             /\ pc' = "read"
             /\ UNCHANGED <<source, src, idx, rxOffset, result>>
    <3>1. Before(cur)' = Before(m)
      BY <2>6 DEF source, Before
    <3>2. stream' = SendStream(Before(cur), cur)'
      BY <2>3, <2>6, <3>1 DEF source, SendStream
    <3>3. \A s \in Snaps : s > taken' => offs'[s] = Absent
      BY <1>4, <2>1, <2>6 DEF source
    <3>4. /\ cur' \in src' /\ offs'[cur'] # Done /\ offs'[cur'] # Void
          /\ src' = snaps' /\ snaps' # {} /\ idx' = 0 /\ rxOffset' = 0
      BY <2>1, <2>3, <2>6 DEF source
    <3>5. QED
      BY <2>6, <3>2, <3>3, <3>4 DEF Placed, Transfer
  <2>7. QED
    BY <1>16, <2>2, <2>4, <2>5, <2>6 DEF PickSnapshot
<1>17. CASE AllSynced
  <2>1. pc = "pick" /\ pc' = "prune" /\ UNCHANGED <<offs, taken, snaps, src, stream, idx, rxOffset>>
    BY <1>17 DEF AllSynced, disk, source, proc
  <2>2. QED
    BY <1>1, <1>4, <1>5, <1>7, <1>12, <2>1, PlacedWithout
<1>18. CASE FinishRun
  <2>1. pc = "prune" /\ pc' = "idle" /\ UNCHANGED <<offs, taken, stream, idx, rxOffset>>
    BY <1>18 DEF FinishRun, disk, source
  <2>2. QED
    BY <1>1, <1>4, <1>7, <1>12, <2>1, PlacedWithout
<1>19. CASE SkipCommand
  <2>1. /\ pc = "read" /\ pc' = "read" /\ rxOffset > idx /\ idx' = idx + 1
        /\ UNCHANGED <<source, src, cur, stream, offs, rxOffset>>
    BY <1>19 DEF SkipCommand, More, disk
  <2>2. pc \in Transfer /\ pc' \in Transfer
    BY <2>1 DEF Transfer
  <2>3. QED
    BY <1>1, <1>2, <1>6, <1>8, <2>1, <2>2, PlacedWithin
<1>20. CASE BeginSubvolume
  <2>1. /\ pc = "read" /\ pc' = "open" /\ rxOffset' = Recorded /\ Next1.op \in Begins /\ idx < Len(stream)
        /\ UNCHANGED <<source, src, cur, stream, offs, idx>>
    BY <1>20 DEF BeginSubvolume, More, disk, Begins
  <2>2. pc \in Transfer /\ pc' \in Transfer
    BY <2>1 DEF Transfer
  <2>3. idx = 0
    <3>1. /\ Next1.op \in Begins <=> idx = 0
      BY <2>1, <2>2, CommandIs
    <3>2. QED
      BY <2>1, <3>1
  <2>4. /\ offs[cur] = Absent => rxOffset' = 0
        /\ offs[cur] # Absent => rxOffset' = offs[cur]
    BY <2>1 DEF Recorded
  <2>5. QED
    BY <1>1, <1>2, <1>6, <1>8, <2>1, <2>2, <2>3, <2>4, PlacedWithin
<1>21. CASE DoCommand
  <2>1. pc = "read" /\ rxOffset <= idx /\ Next1.op \notin Begins /\ idx < Len(stream)
    BY <1>21 DEF DoCommand, More, Begins
  <2>2. pc \in Transfer
    BY <2>1 DEF Transfer
  <2>3. idx > 0
    <3>1. /\ Next1.op \in Begins <=> idx = 0
      BY <2>1, <2>2, CommandIs
    <3>2. QED
      BY <1>6, <2>1, <2>2, <3>1
  <2>4. CASE Abort /\ UNCHANGED disk
    BY <1>4, <1>11, <2>4 DEF disk
  <2>5. CASE pc' = "open" /\ UNCHANGED <<source, offs, proc, result>>
    <3>1. pc' \in Transfer
      BY <2>5 DEF Transfer
    <3>2. UNCHANGED <<source, src, cur, stream, offs, idx, rxOffset>>
      BY <2>5 DEF proc
    <3>3. QED
      BY <1>1, <1>2, <1>6, <1>8, <2>1, <2>2, <2>3, <2>5, <3>1, <3>2, PlacedWithin
  <2>6. QED
    BY <1>21, <2>4, <2>5 DEF DoCommand
<1>22. CASE PostOpSkip
  <2>1. /\ pc = "open" /\ pc' = "read" /\ idx < rxOffset /\ idx' = idx + 1
        /\ UNCHANGED <<source, src, cur, stream, offs, rxOffset>>
    BY <1>22 DEF PostOpSkip, disk
  <2>2. pc \in Transfer /\ pc' \in Transfer
    BY <2>1 DEF Transfer
  <2>3. QED
    BY <1>1, <1>2, <1>6, <1>9, <2>1, <2>2, PlacedWithin
<1>23. CASE PostOpOpen
  <2>1. /\ pc = "open" /\ pc' = "put" /\ idx >= rxOffset
        /\ offs' = [offs EXCEPT ![cur] = IF @ = Absent THEN Void ELSE @]
        /\ UNCHANGED <<source, src, cur, stream, idx, rxOffset>>
    BY <1>23 DEF PostOpOpen, proc
  <2>2. pc \in Transfer /\ pc' \in Transfer
    BY <2>1 DEF Transfer
  <2>3. /\ \A s \in Snaps : s # cur => offs'[s] = offs[s]
        /\ offs[cur] = Absent => offs'[cur] = Void
        /\ offs[cur] # Absent => offs'[cur] = offs[cur]
    BY <1>2, <1>6, <2>1, <2>2
  <2>4. QED
    BY <1>1, <1>2, <1>6, <1>9, <2>1, <2>2, <2>3, PlacedWithin
<1>24. CASE PostOpWrite \/ (PostOpRemote /\ ~Abort)
  <2>1. /\ pc \in {"open", "put"} /\ pc' = "read" /\ (pc = "open" => idx >= rxOffset) /\ idx' = idx + 1
        /\ offs' = [offs EXCEPT ![cur] = idx]
        /\ UNCHANGED <<source, src, cur, stream, rxOffset>>
    BY <1>24 DEF PostOpWrite, PostOpRemote
  <2>2. pc \in Transfer /\ pc' \in Transfer
    BY <2>1 DEF Transfer
  <2>3. /\ \A s \in Snaps : s # cur => offs'[s] = offs[s]
        /\ offs'[cur] = idx
    BY <1>2, <1>6, <2>1, <2>2
  <2>4. QED
    BY <1>1, <1>2, <1>6, <1>9, <1>10, <2>1, <2>2, <2>3, PlacedWithin
<1>25. CASE PostOpRemote /\ Abort
  <2>1. pc \in Transfer /\ \E v : offs' = [offs EXCEPT ![cur] = v]
    BY <1>25 DEF PostOpRemote, Transfer
  <2>2. \A s \in Snaps : s > taken => s # cur
    BY <1>2, <1>3, <1>6, <2>1
  <2>3. QED
    BY <1>2, <1>4, <1>11, <1>25, <2>1, <2>2
<1>26. CASE FinishSubvolume
  <2>1. /\ pc = "read" /\ pc' = "pick" /\ UNCHANGED <<taken, snaps, src>>
        /\ stream' = << >> /\ idx' = 0 /\ rxOffset' = 0
        /\ offs' = offs \/ \E v : offs' = [offs EXCEPT ![cur] = v]
    BY <1>26 DEF FinishSubvolume, TransferOver, source
  <2>2. pc \in Transfer
    BY <2>1 DEF Transfer
  <2>3. \A s \in Snaps : s > taken => s # cur
    BY <1>2, <1>3, <1>6, <2>2
  <2>4. \A s \in Snaps : s > taken' => offs'[s] = Absent
    BY <1>2, <1>4, <2>1, <2>3
  <2>5. QED
    BY <1>1, <1>5, <1>12, <2>1, <2>4, PlacedWithout
<1>27. ASSUME NEW s \in Snaps, PruneOffset(s) PROVE Placed'
  <2>1. pc = "prune" /\ offs' = [offs EXCEPT ![s] = Absent] /\ UNCHANGED <<taken, snaps, src, stream, idx, rxOffset, pc>>
    BY <1>27 DEF PruneOffset, source, proc
  <2>2. \A r \in Snaps : r > taken' => offs'[r] = Absent
    BY <1>2, <1>4, <2>1
  <2>3. QED
    BY <1>1, <1>5, <1>7, <1>12, <2>1, <2>2, PlacedWithout
<1>28. CASE StreamBreaks \/ Crash
  <2>1. Abort /\ offs' = offs
    BY <1>28 DEF StreamBreaks, Crash, disk
  <2>2. QED
    BY <1>4, <1>11, <2>1
<1>29. CASE UNCHANGED vars
  <2>1. UNCHANGED <<taken, snaps, content, offs, src, cur, stream, idx, rxOffset, pc>>
    BY <1>29 DEF vars, source, disk, proc
  <2>2. SendStream(Before(cur), cur)' = SendStream(Before(cur), cur)
    BY <2>1 DEF SendStream, Before
  <2>3. QED
    BY <2>1, <2>2 DEF Placed
<1>30. PostOpWrite \/ PostOpRemote => Placed'
  BY <1>24, <1>25
<1>31. (\E s \in Snaps : Expire(s) \/ PruneOffset(s)) => Placed'
  BY <1>14, <1>27
<1>32. TakeSnapshot \/ StartSync \/ PickSnapshot \/ AllSynced \/ FinishRun => Placed'
  BY <1>13, <1>15, <1>16, <1>17, <1>18
<1>33. SkipCommand \/ BeginSubvolume \/ DoCommand \/ PostOpSkip \/ PostOpOpen \/ FinishSubvolume => Placed'
  BY <1>19, <1>20, <1>21, <1>22, <1>23, <1>26
<1>34. QED
  BY <1>28, <1>29, <1>30, <1>31, <1>32, <1>33 DEF Next, Source, Sync

-----------------------------------------------------------------------------
(* The rest of the invariant, as long as no mark was lost and the snapshots *)
(* that the mirror needs are kept.                                          *)

LEMMA NotSpoiled ==
  ASSUME Types, [Next]_vars, ~spoiled'
  PROVE  ~spoiled
<1>1. spoiled' = spoiled \/ spoiled' = TRUE
  BY DEF Next, Source, Sync, TakeSnapshot, Expire, StartSync, PickSnapshot, AllSynced, FinishRun, SkipCommand,
         BeginSubvolume, DoCommand, PostOpSkip, PostOpOpen, PostOpWrite, PostOpRemote, FinishSubvolume, PruneOffset,
         StreamBreaks, Crash, vars
<1>2. QED
  BY <1>1, Zenon

\* Which file a transfer's steps write.
LEMMA InOrderWithin ==
  ASSUME Types, Placed, InOrder, pc \in Transfer, UNCHANGED <<snaps, src>>,
         \A s \in Snaps : s # cur => offs'[s] = offs[s],
         pc' \in Transfer => cur' = cur,
         pc' = "pick" => cur' = cur /\ offs'[cur] = Done,
         pc' # "prune"
  PROVE  InOrder'
<1>1. /\ src = snaps /\ cur \in snaps /\ offs[cur] # Done /\ cur \in Int
      /\ \A s \in snaps : s \in Snaps /\ s \in Int
  <2>1. cur \in src /\ src = snaps /\ offs[cur] # Done
    BY DEF Placed, Transfer
  <2>2. \A s \in snaps : s \in 1..taken /\ taken \in 0..MaxSnaps /\ MaxSnaps \in Nat
    BY DoneIs DEF Types, SourceOK
  <2>3. \A s \in snaps : s \in Snaps /\ s \in Int
    BY <2>2 DEF Snaps
  <2>4. QED
    BY <2>1, <2>3
<1>2. ASSUME NEW s \in snaps, NEW t \in snaps, s < t, offs'[t] # Absent
      PROVE  offs'[s] = Done
  <2>1. CASE t = cur
    BY <1>1, <1>2, <2>1 DEF InOrder
  <2>2. CASE t # cur
    <3>1. offs[t] # Absent
      BY <1>1, <1>2, <2>2
    <3>2. offs[s] = Done
      BY <1>2, <3>1 DEF InOrder
    <3>3. QED
      BY <1>1, <3>2
  <2>3. QED
    BY <2>1, <2>2
<1>3. \A s \in src : s < cur => offs'[s] = Done
  BY <1>1 DEF InOrder
<1>4. ASSUME pc' = "pick", NEW s \in src', s <= cur' PROVE offs'[s] = Done
  <2>1. s \in src /\ s \in Int /\ s <= cur /\ offs'[cur] = Done
    BY <1>1, <1>4
  <2>2. s = cur \/ s < cur
    BY <1>1, <2>1
  <2>3. QED
    BY <1>3, <2>1, <2>2
<1>5. QED
  BY <1>2, <1>3, <1>4 DEF InOrder

LEMMA InOrderStep ==
  ASSUME Types, Placed, InOrder, [Next]_vars, ~spoiled'
  PROVE  InOrder'
<1> USE DoneIs
<1>1. /\ taken \in Nat /\ offs \in [Snaps -> Void..Done \cup {Absent}] /\ cur \in Nat
      /\ pc \in {"idle", "pick", "prune", "read", "open", "put"}
      /\ \A s \in snaps : s \in Snaps /\ s \in Nat /\ s <= taken /\ s # 0
      /\ \A s \in src : s \in Nat /\ s # 0
  <2>1. taken \in 0..MaxSnaps /\ snaps \subseteq 1..taken /\ src \subseteq 1..taken
    BY DEF Types, SourceOK
  <2>2. QED
    BY <2>1 DEF Types, DiskOK, SyncOK, Snaps, Transfer
<1>2. \A s, t \in snaps : s < t /\ offs[t] # Absent => offs[s] = Done
  BY DEF InOrder
<1>3. pc # "idle" => src = snaps
  BY DEF Placed
<1>4. "idle" \notin Transfer /\ "pick" \notin Transfer /\ "prune" \notin Transfer
  BY DEF Transfer
<1>5. ASSUME UNCHANGED <<snaps, offs>>, pc' = "idle" PROVE InOrder'
  BY <1>2, <1>4, <1>5 DEF InOrder
<1>6. ASSUME UNCHANGED <<snaps, src, offs, cur>>, pc \in Transfer, pc' \in Transfer PROVE InOrder'
  BY <1>4, <1>6 DEF InOrder
<1>7. CASE TakeSnapshot
  <2>1. pc' = "idle" /\ snaps' = snaps \cup {taken + 1} /\ offs' = offs /\ taken + 1 \in Snaps
    BY <1>1, <1>7 DEF TakeSnapshot, disk, Snaps
  <2>2. offs[taken + 1] = Absent
    BY <1>1, <2>1 DEF Placed
  <2>3. \A s, t \in snaps' : s < t /\ offs'[t] # Absent => offs'[s] = Done
    BY <1>1, <1>2, <2>1, <2>2
  <2>4. QED
    BY <1>4, <2>1, <2>3 DEF InOrder
<1>8. ASSUME NEW s \in Snaps, Expire(s) PROVE InOrder'
  <2>1. pc' = "idle" /\ snaps' \subseteq snaps /\ offs' = offs
    BY <1>8 DEF Expire, disk
  <2>2. QED
    BY <1>2, <1>4, <2>1 DEF InOrder
<1>9. CASE StartSync
  <2>1. pc' = "pick" /\ snaps' = snaps /\ src' = snaps /\ offs' = offs /\ cur' = 0
    BY <1>9 DEF StartSync, disk, source
  <2>2. \A s \in src' : ~(s <= cur')
    BY <1>1, <2>1
  <2>3. QED
    BY <1>2, <1>4, <2>1, <2>2 DEF InOrder
<1>10. CASE PickSnapshot
  <2>1. /\ pc = "pick" /\ Ahead # {} /\ UNCHANGED <<snaps, src, offs>> /\ src = snaps
    BY <1>3, <1>10 DEF PickSnapshot, disk, source, Abort
  <2>2. PICK m : m = Min(Ahead)
    OBVIOUS
  <2>3. m \in snaps /\ \A s \in src : s < m => offs[s] = Done
    BY <2>1, <2>2, PickedIs DEF InOrder
  <2>4. CASE Abort
    BY <1>5, <2>1, <2>4 DEF Abort
  <2>5. CASE offs[m] = Done /\ cur' = m /\ pc' = "pick"
    <3>1. \A s \in src' : s <= cur' => offs'[s] = Done
      BY <1>1, <2>1, <2>3, <2>5
    <3>2. QED
      BY <1>2, <1>4, <2>1, <2>5, <3>1 DEF InOrder
  <2>6. CASE cur' = m /\ pc' = "read"
    BY <1>2, <2>1, <2>3, <2>6 DEF InOrder
  <2>7. QED
    BY <1>10, <2>1, <2>2, <2>4, <2>5, <2>6 DEF PickSnapshot
<1>11. CASE AllSynced
  <2>1. pc = "pick" /\ pc' = "prune" /\ UNCHANGED <<snaps, src, offs>> /\ Ahead = {}
    BY <1>11 DEF AllSynced, disk, source, proc
  <2>2. \A s \in src : s <= cur
    BY <1>1, <2>1 DEF Ahead
  <2>3. \A s \in src' : offs'[s] = Done
    BY <2>1, <2>2 DEF InOrder
  <2>4. QED
    BY <1>2, <1>4, <2>1, <2>3 DEF InOrder
<1>12. CASE FinishRun
  BY <1>5, <1>12 DEF FinishRun, disk, source
<1>13. CASE SkipCommand \/ BeginSubvolume \/ PostOpSkip
  <2>1. pc \in Transfer /\ pc' \in Transfer /\ UNCHANGED <<snaps, src, offs, cur>>
    BY <1>13 DEF SkipCommand, BeginSubvolume, PostOpSkip, More, disk, source, Transfer
  <2>2. QED
    BY <1>6, <2>1
<1>14. CASE DoCommand
  <2>1. CASE Abort /\ UNCHANGED disk
    BY <1>5, <2>1 DEF Abort, disk, source
  <2>2. CASE pc' = "open" /\ UNCHANGED <<source, offs, proc, result>>
    <3>1. pc \in Transfer /\ pc' \in Transfer /\ UNCHANGED <<snaps, src, offs, cur>>
      BY <1>14, <2>2 DEF DoCommand, More, Transfer, source, proc
    <3>2. QED
      BY <1>6, <3>1
  <2>3. QED
    BY <1>14, <2>1, <2>2 DEF DoCommand
<1>15. CASE PostOpOpen \/ PostOpWrite \/ PostOpRemote
  <2>1. pc \in Transfer /\ UNCHANGED <<snaps, src>> /\ \E v : offs' = [offs EXCEPT ![cur] = v]
    BY <1>15 DEF PostOpOpen, PostOpWrite, PostOpRemote, Abort, Transfer, source, proc
  <2>2. pc' \in {"idle", "put", "read"} /\ (pc' # "idle" => cur' = cur)
    BY <1>15 DEF PostOpOpen, PostOpWrite, PostOpRemote, Abort, proc
  <2>3. \A s \in Snaps : s # cur => offs'[s] = offs[s]
    BY <1>1, <2>1
  <2>4. QED
    BY <1>4, <2>1, <2>2, <2>3, InOrderWithin
<1>16. CASE FinishSubvolume
  <2>1. pc \in Transfer /\ UNCHANGED <<snaps, src, cur>> /\ pc' = "pick"
    BY <1>16 DEF FinishSubvolume, Transfer, source
  <2>2. offs' = [offs EXCEPT ![cur] = Done]
    BY <1>16 DEF FinishSubvolume
  <2>3. cur \in Snaps
    BY <2>1, CommandIs
  <2>4. QED
    BY <1>1, <1>4, <2>1, <2>2, <2>3, InOrderWithin
<1>17. ASSUME NEW s \in Snaps, PruneOffset(s) PROVE InOrder'
  <2>1. /\ pc = "prune" /\ pc' = "prune" /\ offs' = [offs EXCEPT ![s] = Absent] /\ UNCHANGED <<snaps, src>>
        /\ s \notin src /\ src = snaps
    BY <1>3, <1>17 DEF PruneOffset, source, proc
  <2>2. \A r \in snaps : offs'[r] = offs[r]
    BY <1>1, <2>1
  <2>3. QED
    BY <1>4, <2>1, <2>2 DEF InOrder
<1>18. CASE StreamBreaks \/ Crash
  <2>1. Abort /\ offs' = offs
    BY <1>18 DEF StreamBreaks, Crash, disk
  <2>2. QED
    BY <1>5, <2>1 DEF Abort, source
<1>19. CASE UNCHANGED vars
  BY <1>19 DEF vars, source, disk, proc, InOrder
<1>20. QED
  BY <1>7, <1>8, <1>9, <1>10, <1>11, <1>12, <1>13, <1>14, <1>15, <1>16, <1>17, <1>18, <1>19
     DEF Next, Source, Sync

\* Max, when it is known which element it is.
LEMMA TopIs ==
  ASSUME NEW n \in Nat, NEW S \in SUBSET (0..n), NEW m \in S, \A y \in S : y <= m
  PROVE  Max(S) = m
<1>1. PICK x : x = Max(S)
  OBVIOUS
<1>2. x \in S /\ \A y \in S : x >= y
  BY <1>1, MaxOfNat
<1>3. x \in Int /\ m \in Int /\ x >= m /\ x <= m
  BY <1>2
<1>4. QED
  BY <1>1, <1>3

\* The beginning of the way.
LEMMA ReachedFirst ==
  ASSUME NEW from \in Contents, NEW to \in Contents, NEW t, NEW far, Reached(from, to, t, far, 0)
  PROVE  Reached(from, to, t, far, 1)
<1>1. ASSUME NEW p \in Paths, NEW k \in 1..Len(Change(p, from[p], to[p])) PROVE ~(Place(from, to)[p] + k < 1)
  <2>1. Place(from, to)[p] \in 0..Len(Middle(from, to)) /\ Len(Middle(from, to)) \in Nat
    BY PlaceIs, StreamIs DEF IsStream
  <2>2. k \in Int /\ k >= 1
    OBVIOUS
  <2>3. QED
    BY <2>1, <2>2
<1>2. QED
  BY <1>1 DEF Reached

\* A snapshot that is next and has no offset recorded is sent to a directory
\* that holds the one before it.
LEMMA AtStart ==
  ASSUME Types, InOrder, OnTheWay, NEW s \in snaps, offs[s] = Absent, \A t \in snaps : t < s => offs[t] = Done
  PROVE  At(Before(s)) /\ On(s, 0) /\ On(s, 1)
<1>1. s \in Snaps /\ \A t \in snaps : t \in Nat
  BY DoneIs DEF Types, SourceOK, Snaps
<1>2. \A t \in snaps : t > s => offs[t] = Absent
  BY DoneIs DEF InOrder
<1>3. \A t \in snaps : offs[t] \in {Absent, Done}
  BY <1>1, <1>2
<1>4. At(Newest)
  BY <1>3 DEF OnTheWay
<1>5. Newest = Before(s)
  <2>1. /\ Newest \in 0..MaxSnaps /\ (Newest # 0 => Newest \in snaps /\ offs[Newest] = Done)
        /\ \A t \in snaps : offs[t] = Done => t <= Newest
    BY NewestIs
  <2>2. /\ Before(s) \in {0} \cup snaps /\ Before(s) < s /\ Before(s) \in 0..MaxSnaps
        /\ \A t \in snaps : t < s => t <= Before(s)
    BY <1>1, BeforeIs
  <2>3. PICK a, b : a = Newest /\ b = Before(s)
    OBVIOUS
  <2>4. a \in Nat /\ b \in Nat /\ s \in Nat
    BY <1>1, <2>1, <2>2, <2>3
  <2>5. b <= a
    BY <2>1, <2>2, <2>3, <2>4
  <2>6. a <= b
    <3>1. CASE a = 0
      BY <2>4, <3>1
    <3>2. CASE a # 0
      <4>1. a \in snaps /\ offs[a] = Done /\ Done # Absent
        BY <2>1, <2>3, <3>2, DoneIs
      <4>2. a < s
        BY <1>2, <2>4, <4>1
      <4>3. QED
        BY <2>2, <2>3, <4>1, <4>2
    <3>3. QED
      BY <3>1, <3>2
  <2>7. QED
    BY <2>3, <2>4, <2>5, <2>6
<1>6. At(Before(s))
  BY <1>4, <1>5
<1>7. State(Before(s)) \in Contents /\ State(s) \in Contents
  BY <1>1, SentIs
<1>8. On(s, 1)
  BY <1>6, <1>7, ReachedStart DEF On, At
<1>9. On(s, 0)
  BY <1>7, <1>8, ReachedLess DEF On
<1>10. QED
  BY <1>6, <1>8, <1>9

\* The places of a way.
LEMMA OnLess ==
  ASSUME Types, NEW s \in Snaps, NEW n \in Int, On(s, n), NEW m \in Int, m <= n
  PROVE  On(s, m)
BY SentIs, ReachedLess DEF On

\* A step that leaves the source and the directory as they are.
LEMMA OnTheWayQuiet ==
  ASSUME Types, Types', UNCHANGED <<remote, snaps, content, tree>>,
         \A s \in snaps : offs'[s] \in 0..(Done - 1) => On(s, offs'[s]),
         (\A s \in snaps : offs'[s] \in {Absent, Done}) =>
             \E m \in {0} \cup snaps : /\ m # 0 => offs'[m] = Done
                                       /\ \A s \in snaps : offs'[s] = Done => s <= m
                                       /\ At(m),
         pc' = "read" /\ idx' >= rxOffset' => On(cur', idx'),
         pc' \in {"open", "put"} /\ idx' >= rxOffset' => On(cur', idx' + 1),
         pc' \in {"open", "put"} /\ idx' = 0 /\ offs'[cur'] \in {Absent, Void} => At(Before(cur')),
         pc' = "idle" /\ result' = "ok" => src' # {} /\ At(Max(src'))
  PROVE  OnTheWay'
<1>1. ASSUME \A s \in snaps : offs'[s] \in {Absent, Done} PROVE At(Newest)'
  <2>1. PICK m \in {0} \cup snaps : /\ m # 0 => offs'[m] = Done
                                    /\ \A s \in snaps : offs'[s] = Done => s <= m
                                    /\ At(m)
    BY <1>1
  <2>2. {0} \cup {s \in snaps : offs'[s] = Done} \in SUBSET (0..MaxSnaps) /\ MaxSnaps \in Nat
    <3>1. MaxSnaps \in Nat /\ snaps \subseteq 1..taken /\ taken \in 0..MaxSnaps
      BY DoneIs DEF Types, SourceOK
    <3>2. 0 \in 0..MaxSnaps /\ \A t \in snaps : t \in 0..MaxSnaps
      BY <3>1
    <3>3. QED
      BY <3>1, <3>2
  <2>3. m \in {0} \cup {s \in snaps : offs'[s] = Done} /\ \A y \in {0} \cup {s \in snaps : offs'[s] = Done} : y <= m
    <3>1. 0 <= m
      BY <2>1, <2>2
    <3>2. QED
      BY <2>1, <3>1
  <2>4. Max({0} \cup {s \in snaps : offs'[s] = Done}) = m
    BY <2>2, <2>3, TopIs
  <2>5. Newest' = m
    BY <2>4 DEF Newest
  <2>6. QED
    BY <2>1, <2>5 DEF At, State
<1>2. QED
  BY <1>1 DEF OnTheWay, On, At, State, Before

\* A new snapshot comes after those there are.
LEMMA OnTheWayTaken ==
  ASSUME Types, Placed, OnTheWay, TakeSnapshot
  PROVE  OnTheWay'
<1>1. /\ pc' = "idle" /\ snaps' = snaps \cup {taken + 1} /\ taken + 1 \in Snaps
      /\ UNCHANGED <<remote, tree, offs, src, result, pc>>
      /\ taken \in Nat /\ \A s \in snaps \cup src : s \in Nat /\ s <= taken /\ s # 0
      /\ \A s \in snaps \cup src : s \in Snaps
  <2>1. taken \in 0..MaxSnaps /\ snaps \subseteq 1..taken /\ src \subseteq 1..taken
    BY DEF Types, SourceOK
  <2>2. QED
    BY <2>1, DoneIs DEF TakeSnapshot, Snaps, disk, proc
<1>2. offs[taken + 1] = Absent
  BY <1>1 DEF Placed
<1>3. \A s \in Snaps : s # taken + 1 => content'[s] = content[s]
  <2>1. PICK c \in Contents : content' = [content EXCEPT ![taken + 1] = c]
    BY StatesAre DEF TakeSnapshot
  <2>2. QED
    BY <2>1 DEF Types, SourceOK
<1>4. \A s \in {0} \cup snaps \cup src : State(s)' = State(s)
  BY <1>1, <1>3 DEF State
<1>5. \A s \in snaps : Before(s)' = Before(s)
  <2>1. ASSUME NEW s \in snaps PROVE {t \in snaps' : t < s} = {t \in snaps : t < s}
    <3>1. ~(taken + 1 < s)
      BY <1>1
    <3>2. QED
      BY <1>1, <3>1
  <2>2. QED
    BY <2>1 DEF Before
<1>6. \A s \in snaps : Before(s) \in {0} \cup snaps
  BY <1>1, BeforeIs
<1>7. Newest' = Newest /\ Newest \in {0} \cup snaps
  <2>1. {s \in snaps' : offs'[s] = Done} = {s \in snaps : offs[s] = Done}
    BY <1>1, <1>2, DoneIs
  <2>2. QED
    BY <2>1, NewestIs DEF Newest
<1>8. ASSUME NEW s \in snaps', offs'[s] \in 0..(Done - 1)
      PROVE  Reached(State(Before(s)), State(s), tree, remote, offs[s])'
  <2>1. s \in snaps /\ offs'[s] = offs[s]
    BY <1>1, <1>2, <1>8, DoneIs
  <2>2. Reached(State(Before(s)), State(s), tree, remote, offs[s])
    BY <1>8, <2>1 DEF OnTheWay, On
  <2>3. State(s)' = State(s)
    BY <1>4, <2>1
  <2>4. State(Before(s))' = State(Before(s))
    <3>1. PICK b : b = Before(s) /\ b = Before(s)'
      BY <1>5, <2>1
    <3>2. State(b)' = State(b)
      BY <1>4, <1>6, <2>1, <3>1
    <3>3. QED
      BY <3>1, <3>2 DEF State
  <2>5. QED
    BY <1>1, <2>1, <2>2, <2>3, <2>4
<1>9. ASSUME \A s \in snaps' : offs'[s] \in {Absent, Done}
      PROVE  At(Newest)'
  <2>1. At(Newest)
    BY <1>1, <1>9 DEF OnTheWay
  <2>2. PICK m : m = Newest /\ m = Newest' /\ m \in {0} \cup snaps
    BY <1>7
  <2>3. State(m)' = State(m)
    BY <1>4, <2>2
  <2>4. QED
    BY <1>1, <2>1, <2>2, <2>3 DEF At, State
<1>10. ASSUME result' = "ok" PROVE src' # {} /\ Holds(State(Max(src)), tree, remote)'
  <2>1. pc = "idle" /\ result = "ok"
    BY <1>1, <1>10
  <2>2. src # {} /\ Holds(State(Max(src)), tree, remote)
    BY <2>1 DEF OnTheWay, At
  <2>3. PICK m : m = Max(src) /\ m = Max(src')
    BY <1>1
  <2>4. m \in src
    <3>1. src \in SUBSET (0..taken)
      BY <1>1
    <3>2. QED
      BY <1>1, <2>2, <2>3, <3>1, MaxOfNat
  <2>5. State(m)' = State(m)
    BY <1>4, <2>4
  <2>6. QED
    BY <1>1, <2>2, <2>3, <2>5 DEF State
<1>11. QED
  BY <1>1, <1>8, <1>9, <1>10 DEF OnTheWay, On, At

\* Retention takes none of the snapshots that the directory holds or is on its
\* way to.
LEMMA OnTheWayExpired ==
  ASSUME Types, Placed, InOrder, OnTheWay, NEW r \in Snaps, Expire(r), r \notin MirrorNeeds
  PROVE  OnTheWay'
<1> USE DoneIs
<1>1. /\ pc' = "idle" /\ snaps' = snaps \ {r} /\ r \in snaps
      /\ UNCHANGED <<remote, content, tree, offs, src, result, pc>>
      /\ \A s \in snaps : s \in Nat /\ s \in Snaps /\ s # 0 /\ s \in 0..MaxSnaps
      /\ offs \in [Snaps -> Void..Done \cup {Absent}]
  <2>1. taken \in 0..MaxSnaps /\ snaps \subseteq 1..taken
    BY DEF Types, SourceOK
  <2>2. QED
    BY <2>1 DEF Expire, Snaps, Types, DiskOK, disk, proc
<1>2. \/ offs[r] = Absent
      \/ offs[r] = Done /\ \E u \in snaps : offs[u] = Done /\ r < u
  <2>1. offs[r] \notin Void..(Done - 1)
    BY <1>1 DEF MirrorNeeds
  <2>2. offs[r] = Absent \/ offs[r] = Done
    BY <1>1, <2>1
  <2>3. offs[r] = Done => \E u \in snaps : offs[u] = Done /\ ~(u <= r)
    BY <1>1 DEF MirrorNeeds
  <2>4. QED
    BY <1>1, <2>2, <2>3
<1>3. \A s : State(s)' = State(s)
  BY <1>1 DEF State
<1>4. ASSUME NEW s \in snaps, s # r, offs[s] \in 0..(Done - 1)
      PROVE  Before(s)' = Before(s)
  <2>1. s \in Snaps /\ Before(s) \in {0} \cup snaps /\ Before(s) < s /\ \A t \in snaps : t < s => t <= Before(s)
    BY <1>1, BeforeIs
  <2>2. Before(s) # r
    <3>1. SUFFICES ASSUME Before(s) = r PROVE FALSE
      OBVIOUS
    <3>2. offs[r] = Done
      BY <1>1, <1>4, <2>1, <3>1 DEF InOrder
    <3>3. PICK u \in snaps : offs[u] = Done /\ r < u
      BY <1>2, <3>2
    <3>4. u # s /\ ~(s < u)
      BY <1>4, <3>3 DEF InOrder
    <3>5. u < s
      BY <1>1, <3>4
    <3>6. QED
      BY <1>1, <2>1, <3>1, <3>3, <3>5
  <2>3. PICK b : b = Before(s)
    OBVIOUS
  <2>4. {0} \cup {t \in snaps' : t < s} \in SUBSET (0..MaxSnaps)
    <3>1. 0 \in 0..MaxSnaps
      OBVIOUS
    <3>2. QED
      BY <1>1, <3>1
  <2>5. b \in {0} \cup {t \in snaps' : t < s} /\ \A y \in {0} \cup {t \in snaps' : t < s} : y <= b
    <3>1. b \in {0} \cup {t \in snaps' : t < s}
      BY <1>1, <2>1, <2>2, <2>3
    <3>2. 0 <= b
      BY <1>1, <2>1, <2>3
    <3>3. QED
      BY <1>1, <2>1, <2>3, <3>1, <3>2
  <2>6. Max({0} \cup {t \in snaps' : t < s}) = b
    BY <2>4, <2>5, TopIs
  <2>7. QED
    BY <2>3, <2>6 DEF Before
<1>5. Newest' = Newest
  <2>1. /\ Newest \in 0..MaxSnaps /\ (Newest # 0 => Newest \in snaps /\ offs[Newest] = Done)
        /\ \A t \in snaps : offs[t] = Done => t <= Newest
    BY NewestIs
  <2>2. PICK m : m = Newest
    OBVIOUS
  <2>3. m \in 0..MaxSnaps /\ (m # 0 => m \in snaps /\ offs[m] = Done) /\ \A t \in snaps : offs[t] = Done => t <= m
    BY <2>1, <2>2
  <2>4. m # r
    <3>1. SUFFICES ASSUME m = r PROVE FALSE
      OBVIOUS
    <3>2. offs[r] = Done
      BY <1>1, <2>3, <3>1
    <3>3. PICK u \in snaps : offs[u] = Done /\ r < u
      BY <1>2, <3>2
    <3>4. QED
      BY <1>1, <2>3, <3>1, <3>3
  <2>5. {0} \cup {s \in snaps' : offs'[s] = Done} \in SUBSET (0..MaxSnaps)
    <3>1. 0 \in 0..MaxSnaps
      OBVIOUS
    <3>2. QED
      BY <1>1, <3>1
  <2>6. m \in {0} \cup {s \in snaps' : offs'[s] = Done} /\ \A y \in {0} \cup {s \in snaps' : offs'[s] = Done} : y <= m
    <3>1. m \in {0} \cup {s \in snaps' : offs'[s] = Done}
      BY <1>1, <2>3, <2>4
    <3>2. 0 <= m
      BY <2>3
    <3>3. QED
      BY <1>1, <2>3, <3>1, <3>2
  <2>7. Max({0} \cup {s \in snaps' : offs'[s] = Done}) = m
    BY <2>5, <2>6, TopIs
  <2>8. QED
    BY <2>2, <2>7 DEF Newest
<1>6. ASSUME NEW s \in snaps', offs'[s] \in 0..(Done - 1)
      PROVE  Reached(State(Before(s)), State(s), tree, remote, offs[s])'
  <2>1. s \in snaps /\ s # r /\ offs'[s] = offs[s]
    BY <1>1, <1>6
  <2>2. Reached(State(Before(s)), State(s), tree, remote, offs[s])
    BY <1>6, <2>1 DEF OnTheWay, On
  <2>3. State(Before(s))' = State(Before(s))
    <3>1. Before(s)' = Before(s)
      BY <1>4, <1>6, <2>1
    <3>2. QED
      BY <1>1, <3>1 DEF State
  <2>4. QED
    BY <1>1, <1>3, <2>1, <2>2, <2>3
<1>7. ASSUME \A s \in snaps' : offs'[s] \in {Absent, Done}
      PROVE  At(Newest)'
  <2>1. \A s \in snaps : offs[s] \in {Absent, Done}
    BY <1>1, <1>2, <1>7
  <2>2. At(Newest)
    BY <2>1 DEF OnTheWay
  <2>3. QED
    BY <1>1, <1>5, <2>2 DEF At, State
<1>8. result' = "ok" => src' # {} /\ Holds(State(Max(src)), tree, remote)'
  <2>1. pc = "idle" /\ result' = result
    BY <1>1
  <2>2. result = "ok" => src # {} /\ Holds(State(Max(src)), tree, remote)
    BY <2>1 DEF OnTheWay, At
  <2>3. State(Max(src))' = State(Max(src))
    BY <1>1 DEF State
  <2>4. QED
    BY <1>1, <2>1, <2>2, <2>3
<1>9. QED
  BY <1>1, <1>6, <1>7, <1>8 DEF OnTheWay, On, At

\* The numbers of a transfer.
LEMMA TransferIs ==
  ASSUME Types, Placed, pc \in Transfer
  PROVE  /\ cur \in Snaps /\ cur \in snaps /\ src = snaps /\ cur \in Int
         /\ idx \in Nat /\ rxOffset \in 0..Done
         /\ Len(stream) \in Nat /\ Len(stream) <= Done /\ idx <= Len(stream)
         /\ offs[cur] \in Int /\ offs[cur] \in Void..(Done - 1) \cup {Absent}
         /\ offs[cur] = Void => pc = "put" /\ idx = 0
<1> USE DoneIs
<1>1. cur \in Snaps /\ cur \in snaps /\ idx \in Nat /\ Len(stream) \in Nat /\ Len(stream) <= Done
  BY CommandIs
<1>2. src = snaps /\ offs[cur] # Done /\ (offs[cur] = Void => pc = "put" /\ idx = 0)
  BY DEF Placed, Transfer
<1>3. rxOffset \in 0..Done /\ idx \in 0..Len(stream) /\ offs[cur] \in Void..Done \cup {Absent} /\ cur \in Int
  BY <1>1 DEF Types, DiskOK, SyncOK
<1>4. QED
  BY <1>1, <1>2, <1>3

\* While a snapshot is sent, those before it are marked, and there is nothing of
\* those after it.
LEMMA Others ==
  ASSUME Types, Placed, InOrder, pc \in Transfer
  PROVE  \A s \in snaps : /\ s < cur => offs[s] = Done
                          /\ s > cur => offs[s] = Absent
                          /\ s # cur => offs[s] \in {Absent, Done}
<1>1. cur \in snaps /\ src = snaps /\ cur \in Int /\ offs[cur] # Done
  BY TransferIs DEF Placed
<1>2. \A s \in snaps : s \in Int
  BY DoneIs DEF Types, SourceOK
<1>3. \A s \in snaps : s < cur => offs[s] = Done
  BY <1>1 DEF InOrder
<1>4. \A s \in snaps : s > cur => offs[s] = Absent
  BY <1>1, <1>2 DEF InOrder
<1>5. QED
  BY <1>1, <1>2, <1>3, <1>4

\* The next command is applied.
LEMMA OnTheWayApplied ==
  ASSUME Types, Placed, InOrder, OnTheWay, DoCommand, ~Abort
  PROVE  OnTheWay'
<1> USE DoneIs
<1>1. /\ pc = "read" /\ pc' = "open" /\ idx < Len(stream) /\ rxOffset <= idx
      /\ Next1.op \notin Begins /\ Next1.op # "end" /\ CanDo(Next1)
      /\ tree' = IF remote THEN RemoteApplied(tree, Next1) ELSE Applied(tree, Next1)
      /\ UNCHANGED <<remote, snaps, content, offs, cur, idx, rxOffset>>
  BY DEF DoCommand, More, Begins, source, proc
<1>2. pc \in Transfer
  BY <1>1 DEF Transfer
<1>3. /\ cur \in Snaps /\ cur \in snaps /\ cur \in Int /\ idx \in Nat /\ rxOffset \in 0..Done
      /\ offs[cur] \in Int /\ offs[cur] # Done
  BY <1>2, TransferIs DEF Placed
<1>4. PICK M : M = Middle(State(Before(cur)), State(cur))
  OBVIOUS
<1>5. idx \in 1..Len(M) /\ Next1 = M[idx] /\ M[idx] \in AllCommands
  <2>1. /\ Len(M) \in Nat /\ Len(stream) = Len(M) + 2
        /\ Next1.op \in Begins <=> idx = 0
        /\ Next1.op = "end" <=> idx = Len(M) + 1
        /\ idx \in 1..Len(M) => Next1 = M[idx] /\ M[idx] \in AllCommands
    BY <1>1, <1>2, <1>4, CommandIs
  <2>2. QED
    BY <1>1, <1>3, <2>1
<1>6. PICK from \in Contents, to \in Contents : from = State(Before(cur)) /\ to = State(cur)
  BY <1>3, SentIs
<1>7. tree \in [Names -> Held] /\ remote \in BOOLEAN
  BY DEF Types, DiskOK, SourceOK
<1>8. Reached(from, to, tree, remote, idx)
  BY <1>1, <1>3, <1>6 DEF OnTheWay, On
<1>9. Can(tree, remote, M[idx]) /\ tree' = After(tree, remote, M[idx])
  BY <1>1, <1>5 DEF CanDo, DirectorySucceeds, Can, After
<1>10. Reached(from, to, tree', remote, idx + 1)
  <2>1. PICK t : t = tree'
    OBVIOUS
  <2>2. Reached(from, to, After(tree, remote, Middle(from, to)[idx]), remote, idx + 1)
    BY <1>4, <1>5, <1>6, <1>7, <1>8, <1>9, ReachedStep
  <2>3. QED
    BY <1>4, <1>6, <1>9, <2>2
<1>11. State(Before(cur))' = from /\ State(cur)' = to
  BY <1>1, <1>6 DEF State, Before
<1>12. Reached(State(Before(cur)), State(cur), tree, remote, idx + 1)'
  BY <1>1, <1>10, <1>11
<1>13. idx > 0 /\ offs[cur] >= 0 /\ offs[cur] <= idx + 1
  <2>1. idx > 0
    BY <1>5
  <2>2. offs[cur] >= 0 /\ (offs[cur] <= rxOffset \/ offs[cur] < idx)
    BY <1>1, <2>1 DEF Placed
  <2>3. QED
    BY <1>1, <1>3, <2>1, <2>2
<1>14. ASSUME NEW s \in snaps', offs'[s] \in 0..(Done - 1)
       PROVE  Reached(State(Before(s)), State(s), tree, remote, offs[s])'
  <2>1. s = cur
    BY <1>1, <1>2, <1>14, Others
  <2>2. PICK t : t = tree'
    OBVIOUS
  <2>3. Reached(from, to, t, remote, offs[cur])
    BY <1>3, <1>10, <1>13, <2>2, ReachedLess
  <2>4. QED
    BY <1>1, <1>11, <2>1, <2>2, <2>3
<1>15. ~ \A s \in snaps' : offs'[s] \in {Absent, Done}
  BY <1>1, <1>3, <1>13
<1>16. QED
  BY <1>1, <1>12, <1>13, <1>14, <1>15 DEF OnTheWay, On

\* A step that leaves the offsets as they are, too.
LEMMA OnTheWayKept ==
  ASSUME Types, Types', OnTheWay, UNCHANGED <<remote, snaps, content, tree, offs>>,
         pc' = "read" /\ idx' >= rxOffset' => On(cur', idx'),
         pc' \in {"open", "put"} /\ idx' >= rxOffset' => On(cur', idx' + 1),
         pc' \in {"open", "put"} /\ idx' = 0 /\ offs'[cur'] \in {Absent, Void} => At(Before(cur')),
         pc' = "idle" /\ result' = "ok" => src' # {} /\ At(Max(src'))
  PROVE  OnTheWay'
<1>1. \A s \in snaps : offs'[s] \in 0..(Done - 1) => On(s, offs'[s])
  BY DEF OnTheWay
<1>2. (\A s \in snaps : offs'[s] \in {Absent, Done}) =>
          \E m \in {0} \cup snaps : /\ m # 0 => offs'[m] = Done
                                    /\ \A s \in snaps : offs'[s] = Done => s <= m
                                    /\ At(m)
  <2>1. PICK m : m = Newest
    OBVIOUS
  <2>2. m \in {0} \cup snaps /\ (m # 0 => offs[m] = Done) /\ \A s \in snaps : offs[s] = Done => s <= m
    BY <2>1, NewestIs
  <2>3. (\A s \in snaps : offs[s] \in {Absent, Done}) => At(m)
    BY <2>1 DEF OnTheWay
  <2>4. QED
    BY <2>2, <2>3
<1>3. QED
  BY <1>1, <1>2, OnTheWayQuiet

\* A step of a transfer that writes its offset file: there is an offset now, or
\* an empty file.
LEMMA OnTheWayWritten ==
  ASSUME Types, Placed, InOrder, OnTheWay, Types', pc \in Transfer, UNCHANGED <<remote, snaps, content, tree>>,
         \A s \in snaps : s # cur => offs'[s] = offs[s],
         offs'[cur] \notin {Absent, Done},
         offs'[cur] \in 0..(Done - 1) => On(cur, offs'[cur]),
         pc' = "read" /\ idx' >= rxOffset' => On(cur', idx'),
         pc' \in {"open", "put"} /\ idx' >= rxOffset' => On(cur', idx' + 1),
         pc' \in {"open", "put"} /\ idx' = 0 /\ offs'[cur'] \in {Absent, Void} => At(Before(cur')),
         pc' = "idle" => result' # "ok"
  PROVE  OnTheWay'
<1>1. \A s \in snaps : offs'[s] \in 0..(Done - 1) => On(s, offs'[s])
  BY DEF OnTheWay
<1>2. ~ \A s \in snaps : offs'[s] \in {Absent, Done}
  BY TransferIs
<1>3. QED
  BY <1>1, <1>2, OnTheWayQuiet

\* The last command has run: the directory holds the snapshot.
LEMMA OnTheWayFinished ==
  ASSUME Types, Placed, InOrder, OnTheWay, FinishSubvolume
  PROVE  At(cur)
<1> USE DoneIs
<1>1. pc = "read" /\ pc \in Transfer
  BY DEF FinishSubvolume, Transfer
<1>2. cur \in Snaps /\ cur \in snaps /\ idx \in Nat /\ rxOffset \in 0..Done /\ Len(stream) <= Done /\ Len(stream) \in Nat
  BY <1>1, TransferIs
<1>3. PICK M : M = Middle(State(Before(cur)), State(cur))
  OBVIOUS
<1>4. PICK n \in Nat : n = Len(M)
  BY <1>1, <1>3, CommandIs
<1>5. Len(stream) = n + 2
  BY <1>1, <1>3, <1>4, CommandIs
<1>6. PICK from \in Contents, to \in Contents : from = State(Before(cur)) /\ to = State(cur)
  BY <1>2, SentIs
<1>7. \E m \in Nat : m >= n + 1 /\ On(cur, m)
  <2>1. CASE rxOffset <= idx
    <3>1. On(cur, idx)
      BY <1>1, <1>2, <2>1 DEF OnTheWay
    <3>2. idx = n + 2 \/ idx = n + 1
      <4>1. CASE idx = Len(stream)
        BY <1>5, <4>1
      <4>2. CASE More /\ Next1.op = "end"
        <5>1. idx < Len(stream)
          BY <4>2 DEF More
        <5>2. /\ Next1.op = "end" <=> idx = Len(M) + 1
          BY <1>1, <1>3, <5>1, CommandIs
        <5>3. QED
          BY <1>4, <4>2, <5>2
      <4>3. QED
        BY <4>1, <4>2 DEF FinishSubvolume
    <3>3. QED
      BY <1>2, <3>1, <3>2
  <2>2. CASE ~(rxOffset <= idx)
    <3>1. idx = Len(stream)
      BY <2>2 DEF FinishSubvolume
    <3>2. offs[cur] = rxOffset /\ offs[cur] # Done
      BY <1>1, <1>2, <2>2 DEF Placed
    <3>3. offs[cur] \in 0..(Done - 1) /\ offs[cur] \in Nat /\ offs[cur] >= n + 1
      BY <1>2, <1>5, <2>2, <3>1, <3>2
    <3>4. On(cur, offs[cur])
      BY <1>2, <3>3 DEF OnTheWay
    <3>5. QED
      BY <3>3, <3>4
  <2>3. QED
    BY <2>1, <2>2
<1>8. PICK m \in Nat : m >= n + 1 /\ On(cur, m)
  BY <1>7
<1>9. Holds(to, tree, remote)
  <2>1. Reached(from, to, tree, remote, m) /\ m >= Len(Middle(from, to)) + 1
    BY <1>3, <1>4, <1>6, <1>8 DEF On
  <2>2. QED
    BY <2>1, ReachedEnd
<1>10. QED
  BY <1>6, <1>9 DEF At

LEMMA OnTheWayStep ==
  ASSUME Types, Placed, InOrder, OnTheWay, [Next]_vars, ~spoiled'
  PROVE  OnTheWay'
<1> USE DoneIs
<1>1. Types'
  BY TypesStep
<1>2. "idle" \notin Transfer /\ "pick" \notin Transfer /\ "prune" \notin Transfer
  BY DEF Transfer
<1>3. ASSUME UNCHANGED <<source, disk>>, pc' = "idle", result' = "error" PROVE OnTheWay'
  BY <1>1, <1>3, OnTheWayKept DEF source, disk
<1>4. CASE TakeSnapshot
  BY <1>4, OnTheWayTaken
<1>5. ASSUME NEW s \in Snaps, Expire(s) PROVE OnTheWay'
  <2>1. s \notin MirrorNeeds
    BY <1>5 DEF Expire
  <2>2. QED
    BY <1>5, <2>1, OnTheWayExpired
<1>6. CASE StartSync \/ AllSynced
  <2>1. pc' \in {"pick", "prune"} /\ UNCHANGED <<remote, snaps, content, tree, offs>>
    BY <1>6 DEF StartSync, AllSynced, source, disk
  <2>2. QED
    BY <1>1, <2>1, OnTheWayKept
<1>7. CASE PickSnapshot
  <2>1. pc = "pick" /\ Ahead # {} /\ UNCHANGED <<remote, snaps, content, tree, offs>>
    BY <1>7 DEF PickSnapshot, Abort, source, disk
  <2>2. PICK m : m = Min(Ahead)
    OBVIOUS
  <2>3. m \in snaps /\ m \in src /\ m \in Snaps /\ src = snaps /\ \A s \in src : s < m => offs[s] = Done
    BY <2>1, <2>2, PickedIs DEF InOrder, Placed
  <2>4. CASE Abort
    BY <1>3, <1>7, <2>4 DEF Abort, PickSnapshot
  <2>5. CASE pc' = pc
    BY <1>1, <2>1, <2>5, OnTheWayKept
  <2>6. CASE offs[m] \notin {Void, Done} /\ cur' = m /\ pc' = "read" /\ UNCHANGED <<idx, rxOffset>>
    <3>1. idx = 0 /\ rxOffset = 0
      BY <1>2, <2>1 DEF Placed
    <3>2. On(m, 0)
      <4>1. CASE offs[m] = Absent
        BY <2>3, <4>1, AtStart
      <4>2. CASE offs[m] # Absent
        <5>1. offs[m] \in 0..(Done - 1)
          BY <2>3, <2>6, <4>2 DEF Types, DiskOK
        <5>2. On(m, offs[m]) /\ offs[m] \in Int /\ 0 <= offs[m]
          BY <2>3, <5>1 DEF OnTheWay
        <5>3. QED
          BY <2>3, <5>2, OnLess
      <4>3. QED
        BY <4>1, <4>2
    <3>3. On(cur', idx')
      BY <2>6, <3>1, <3>2
    <3>4. QED
      BY <1>1, <2>1, <2>6, <3>3, OnTheWayKept
  <2>7. QED
    BY <1>7, <2>2, <2>4, <2>5, <2>6 DEF PickSnapshot
<1>8. CASE FinishRun
  <2>1. pc = "prune" /\ pc' = "idle" /\ UNCHANGED <<remote, snaps, content, tree, offs, src>>
    BY <1>8 DEF FinishRun, source, disk
  <2>2. src = snaps /\ snaps # {} /\ \A s \in src : offs[s] = Done
    BY <2>1 DEF InOrder, Placed
  <2>3. At(Newest)
    BY <2>2 DEF OnTheWay
  <2>4. PICK m : m = Newest
    OBVIOUS
  <2>5. m \in src /\ \A s \in src : s <= m
    <3>1. (m # 0 => m \in snaps) /\ \A s \in snaps : s <= m
      BY <2>2, <2>4, NewestIs
    <3>2. \A s \in snaps : s >= 1 /\ s \in Nat
      BY DEF Types, SourceOK
    <3>3. QED
      BY <2>2, <3>1, <3>2
  <2>6. src \in SUBSET (0..MaxSnaps)
    <3>1. src \subseteq 1..taken /\ taken \in 0..MaxSnaps
      BY DEF Types, SourceOK
    <3>2. QED
      BY <3>1
  <2>7. Max(src) = m
    BY <2>5, <2>6, TopIs
  <2>8. At(Max(src'))
    BY <2>1, <2>3, <2>4, <2>7
  <2>9. QED
    BY <1>1, <2>1, <2>2, <2>8, OnTheWayKept
<1>9. CASE SkipCommand \/ PostOpSkip
  <2>1. /\ pc \in {"read", "open"} /\ pc \in Transfer /\ pc' = "read" /\ idx < rxOffset /\ idx' = idx + 1
        /\ UNCHANGED <<remote, snaps, content, tree, offs, cur, rxOffset>>
    BY <1>2, <1>9, TransferIs DEF SkipCommand, PostOpSkip, More, source, disk, Transfer
  <2>2. cur \in snaps /\ idx \in Nat /\ rxOffset \in 0..Done /\ offs[cur] = rxOffset /\ offs[cur] # Done
    BY <2>1, TransferIs DEF Placed
  <2>3. idx' >= rxOffset' => On(cur', idx')
    <3>1. On(cur, offs[cur])
      BY <2>1, <2>2 DEF OnTheWay
    <3>2. idx + 1 >= rxOffset => idx + 1 = offs[cur]
      BY <2>1, <2>2
    <3>3. QED
      BY <2>1, <3>1, <3>2
  <2>4. QED
    BY <1>1, <2>1, <2>3, OnTheWayKept
<1>10. CASE BeginSubvolume
  <2>1. /\ pc = "read" /\ pc' = "open" /\ rxOffset <= idx /\ Next1.op \in Begins /\ rxOffset' = Recorded
        /\ idx < Len(stream) /\ UNCHANGED <<remote, snaps, content, tree, offs, cur, idx>>
    BY <1>10 DEF BeginSubvolume, More, source, disk, Begins
  <2>2. pc \in Transfer
    BY <2>1 DEF Transfer
  <2>3. cur \in Snaps /\ cur \in snaps /\ src = snaps /\ idx \in Nat /\ offs[cur] \in Int /\ offs[cur] # Void
    BY <2>1, <2>2, TransferIs
  <2>4. idx = 0
    <3>1. /\ Next1.op \in Begins <=> idx = 0
      BY <2>1, <2>2, CommandIs
    <3>2. QED
      BY <2>1, <3>1
  <2>5. On(cur, 1)
    <3>1. On(cur, 0)
      BY <2>1, <2>4 DEF OnTheWay
    <3>2. QED
      BY <2>3, <3>1, SentIs, ReachedFirst DEF On
  <2>6. offs[cur] = Absent => At(Before(cur))
    BY <2>2, <2>3, Others, AtStart
  <2>7. On(cur', idx' + 1)
    BY <2>1, <2>4, <2>5
  <2>8. offs'[cur'] \in {Absent, Void} => At(Before(cur'))
    BY <2>1, <2>3, <2>6
  <2>9. QED
    BY <1>1, <2>1, <2>7, <2>8, OnTheWayKept
<1>11. CASE DoCommand
  <2>1. CASE Abort
    <3>1. UNCHANGED disk
      BY <1>11, <2>1 DEF DoCommand, Abort
    <3>2. QED
      BY <1>3, <2>1, <3>1 DEF Abort
  <2>2. CASE ~Abort
    BY <1>11, <2>2, OnTheWayApplied
  <2>3. QED
    BY <2>1, <2>2
<1>12. CASE PostOpOpen
  <2>1. /\ pc = "open" /\ pc' = "put" /\ idx >= rxOffset
        /\ offs' = [offs EXCEPT ![cur] = IF @ = Absent THEN Void ELSE @]
        /\ UNCHANGED <<remote, snaps, content, tree, cur, idx, rxOffset>>
    BY <1>12 DEF PostOpOpen, source, proc
  <2>2. pc \in Transfer
    BY <2>1 DEF Transfer
  <2>3. cur \in Snaps /\ cur \in snaps /\ offs[cur] # Void /\ offs[cur] # Done
    BY <2>1, <2>2, TransferIs DEF Placed
  <2>4. /\ \A s \in snaps : s # cur => offs'[s] = offs[s]
        /\ offs[cur] = Absent => offs'[cur] = Void
        /\ offs[cur] # Absent => offs'[cur] = offs[cur]
    <3>1. offs \in [Snaps -> Void..Done \cup {Absent}] /\ \A s \in snaps : s \in Snaps
      BY DEF Types, SourceOK, DiskOK, Snaps
    <3>2. QED
      BY <2>1, <2>3, <3>1
  <2>5. offs'[cur] \in 0..(Done - 1) => On(cur, offs'[cur])
    BY <2>3, <2>4 DEF OnTheWay
  <2>6. On(cur', idx' + 1)
    BY <2>1 DEF OnTheWay
  <2>7. idx' = 0 /\ offs'[cur'] \in {Absent, Void} => At(Before(cur'))
    BY <2>1, <2>3, <2>4 DEF OnTheWay
  <2>8. QED
    BY <1>1, <2>1, <2>2, <2>3, <2>4, <2>5, <2>6, <2>7, OnTheWayWritten
<1>13. CASE PostOpWrite \/ (PostOpRemote /\ ~Abort)
  <2>1. /\ pc \in {"open", "put"} /\ pc' = "read" /\ (pc = "open" => idx >= rxOffset) /\ idx' = idx + 1
        /\ offs' = [offs EXCEPT ![cur] = idx]
        /\ UNCHANGED <<remote, snaps, content, tree, cur, rxOffset>>
    BY <1>13 DEF PostOpWrite, PostOpRemote, source
  <2>2. pc \in Transfer
    BY <2>1 DEF Transfer
  <2>3. cur \in Snaps /\ cur \in snaps /\ idx \in Nat /\ rxOffset \in 0..Done /\ Len(stream) <= Done /\ Len(stream) \in Nat
    BY <2>1, <2>2, TransferIs
  <2>4. idx < Len(stream) /\ idx >= rxOffset
    BY <2>1, <2>3 DEF Placed
  <2>5. (\A s \in snaps : s # cur => offs'[s] = offs[s]) /\ offs'[cur] = idx
    <3>1. offs \in [Snaps -> Void..Done \cup {Absent}] /\ \A s \in snaps : s \in Snaps
      BY DEF Types, SourceOK, DiskOK, Snaps
    <3>2. QED
      BY <2>1, <2>3, <3>1
  <2>6. On(cur, idx + 1)
    BY <2>1, <2>4 DEF OnTheWay
  <2>7. On(cur, idx)
    BY <2>3, <2>6, OnLess
  <2>8. offs'[cur] \notin {Absent, Done}
    BY <2>3, <2>4, <2>5
  <2>9. On(cur, offs'[cur]) /\ On(cur', idx')
    BY <2>1, <2>5, <2>6, <2>7
  <2>10. QED
    BY <1>1, <2>1, <2>2, <2>5, <2>8, <2>9, OnTheWayWritten
<1>14. CASE PostOpRemote /\ Abort
  <2>1. /\ pc \in Transfer /\ pc' = "idle" /\ result' = "error" /\ offs' = [offs EXCEPT ![cur] = Void]
        /\ UNCHANGED <<remote, snaps, content, tree>>
    BY <1>14 DEF PostOpRemote, Abort, Transfer, source
  <2>2. (\A s \in snaps : s # cur => offs'[s] = offs[s]) /\ offs'[cur] = Void
    <3>1. offs \in [Snaps -> Void..Done \cup {Absent}] /\ \A s \in snaps : s \in Snaps
      BY DEF Types, SourceOK, DiskOK, Snaps
    <3>2. QED
      BY <2>1, <3>1, TransferIs
  <2>3. Void \notin {Absent, Done} /\ Void \notin 0..(Done - 1)
    OBVIOUS
  <2>4. QED
    BY <1>1, <2>1, <2>2, <2>3, OnTheWayWritten
<1>15. CASE FinishSubvolume
  <2>1. pc \in Transfer /\ pc' = "pick" /\ UNCHANGED <<remote, snaps, content, tree>>
    BY <1>15 DEF FinishSubvolume, Transfer, source
  <2>2. offs' = [offs EXCEPT ![cur] = Done]
    BY <1>15 DEF FinishSubvolume
  <2>3. (\A s \in snaps : s # cur => offs'[s] = offs[s]) /\ offs'[cur] = Done /\ cur \in snaps
    <3>1. offs \in [Snaps -> Void..Done \cup {Absent}] /\ \A s \in snaps : s \in Snaps
      BY DEF Types, SourceOK, DiskOK, Snaps
    <3>2. QED
      BY <2>1, <2>2, <3>1, TransferIs
  <2>4. \A s \in snaps : offs'[s] \in 0..(Done - 1) => On(s, offs'[s])
    BY <2>3 DEF OnTheWay
  <2>5. \A s \in snaps : offs'[s] = Done => s <= cur
    <3>1. \A s \in snaps : s \in Int /\ cur \in Int
      BY <2>1, TransferIs DEF Types, SourceOK
    <3>2. QED
      BY <2>1, <2>3, <3>1, Others
  <2>6. At(cur)
    BY <1>15, OnTheWayFinished
  <2>7. QED
    BY <1>1, <2>1, <2>3, <2>4, <2>5, <2>6, OnTheWayQuiet
<1>16. ASSUME NEW s \in Snaps, PruneOffset(s) PROVE OnTheWay'
  <2>1. /\ pc = "prune" /\ pc' = "prune" /\ offs' = [offs EXCEPT ![s] = Absent]
        /\ UNCHANGED <<remote, snaps, content, tree>> /\ s \notin src
    BY <1>16 DEF PruneOffset, source, proc
  <2>2. \A t \in snaps : offs'[t] = offs[t]
    BY <2>1 DEF Placed, Types, DiskOK
  <2>3. \A t \in snaps : offs'[t] \in 0..(Done - 1) => On(t, offs'[t])
    BY <2>2 DEF OnTheWay
  <2>4. ASSUME \A t \in snaps : offs'[t] \in {Absent, Done}
        PROVE  \E m \in {0} \cup snaps : /\ m # 0 => offs'[m] = Done
                                         /\ \A t \in snaps : offs'[t] = Done => t <= m
                                         /\ At(m)
    <3>1. PICK m : m = Newest
      OBVIOUS
    <3>2. m \in {0} \cup snaps /\ (m # 0 => offs[m] = Done) /\ \A t \in snaps : offs[t] = Done => t <= m
      BY <3>1, NewestIs
    <3>3. At(m)
      BY <2>2, <2>4, <3>1 DEF OnTheWay
    <3>4. (m # 0 => offs'[m] = Done) /\ \A t \in snaps : offs'[t] = Done => t <= m
      BY <2>2, <3>2
    <3>5. QED
      BY <3>2, <3>3, <3>4
  <2>5. QED
    BY <1>1, <2>1, <2>3, <2>4, OnTheWayQuiet
<1>17. CASE StreamBreaks \/ Crash
  BY <1>3, <1>17 DEF StreamBreaks, Crash, Abort
<1>18. CASE UNCHANGED vars
  <2>1. UNCHANGED <<remote, snaps, content, tree, offs, pc, result, src, cur, idx, rxOffset>>
    BY <1>18 DEF vars, source, disk, proc
  <2>2. QED
    BY <2>1 DEF OnTheWay, On, At, State, Before, Newest
<1>19. CASE PostOpRemote
  BY <1>13, <1>14, <1>19
<1>20. QED
  BY <1>4, <1>5, <1>6, <1>7, <1>8, <1>9, <1>10, <1>11, <1>12, <1>13, <1>15, <1>16, <1>17, <1>18, <1>19
     DEF Next, Source, Sync

LEMMA Invariance == Spec => []IInv
<1>1. Init => IInv
  BY InitIInv
<1>2. IInv /\ [Next]_vars => IInv'
  <2> SUFFICES ASSUME IInv, [Next]_vars PROVE IInv'
    OBVIOUS
  <2>1. Types /\ Placed /\ (~spoiled => InOrder /\ OnTheWay)
    BY DEF IInv
  <2>2. Types' /\ Placed'
    BY <2>1, TypesStep, PlacedStep
  <2>3. ASSUME ~spoiled' PROVE InOrder' /\ OnTheWay'
    <3>1. InOrder /\ OnTheWay
      BY <2>1, <2>3, NotSpoiled
    <3>2. QED
      BY <2>1, <2>3, <3>1, InOrderStep, OnTheWayStep
  <2>4. QED
    BY <2>2, <2>3 DEF IInv
<1>3. QED
  BY <1>1, <1>2, PTL DEF Spec

-----------------------------------------------------------------------------
(* The theorems.                                                           *)

\* The source, the mirror's disk and the process have their types, for any
\* streams shorter than the mark of a completed snapshot: an offset is never
\* taken for the mark (FinishSubvolume writes math.MaxUint64-1 where PostOp
\* writes offsets).
THEOREM TypeCorrect == Spec => []TypeOK
<1>1. IInv => TypeOK
  BY DEF IInv, Types, SourceOK, DiskOK, SyncOK, TypeOK, Transfer
<1>2. QED
  BY <1>1, Invariance, PTL

\* What the directory shows is all that there is of a snapshot.
LEMMA HoldsShows ==
  ASSUME Types, NEW s \in Snaps, At(s)
  PROVE  Shows(s)
<1>1. s # 0 /\ content[s] \in [Paths -> Values \cup {NoFile}] /\ remote \in BOOLEAN
  BY DoneIs DEF Snaps, Types, SourceOK, Contents
<1>2. \A p \in Paths : tree[File(p)] = Shown(p, content[s][p], remote)
  BY <1>1 DEF At, Holds, State
<1>3. CASE remote
  <2>1. \A p \in Paths : tree[File(p)] = content[s][p]
    BY <1>2, <1>3 DEF Shown
  <2>2. Visible(tree) = content[s]
    BY <1>1, <2>1 DEF Visible
  <2>3. QED
    BY <1>3, <2>2 DEF Shows
<1>4. CASE ~remote
  <2>1. \A p \in Paths : tree[File(p)] = Received(content[s])[p]
    BY <1>2, <1>4 DEF Shown, Received
  <2>2. Visible(tree) = Received(content[s])
    BY <2>1 DEF Visible, Received
  <2>3. QED
    BY <1>4, <2>2 DEF Shows
<1>5. QED
  BY <1>3, <1>4

\* After a run of syncSnapshot that reported success the directory is the newest
\* snapshot the run knew, whatever was interrupted, skipped by PreOp or begun
\* again on the way, for any files and any number of interruptions, unless a
\* mark was lost or retention deleted the snapshot the mirror held.
THEOREM MirrorIsFaithful == Spec => []MirrorFaithful
<1>1. IInv => MirrorFaithful
  <2> SUFFICES ASSUME IInv, pc = "idle", result = "ok", ~spoiled
               PROVE  Shows(Max(src))
    BY DEF MirrorFaithful
  <2>1. Types /\ src # {} /\ At(Max(src))
    BY DEF IInv, OnTheWay
  <2>2. MaxSnaps \in Nat /\ src \subseteq 1..taken /\ taken \in 0..MaxSnaps
    BY <2>1, DoneIs DEF Types, SourceOK
  <2>3. src \in SUBSET (0..MaxSnaps)
    BY <2>2
  <2>4. Max(src) \in Snaps
    <3>1. PICK m : m = Max(src)
      OBVIOUS
    <3>2. m \in src
      BY <2>1, <2>2, <2>3, <3>1, MaxOfNat
    <3>3. QED
      BY <2>2, <3>1, <3>2 DEF Snaps
  <2>5. QED
    BY <2>1, <2>4, HoldsShows
<1>2. QED
  BY <1>1, Invariance, PTL

\* The steps that write an offset file.
LEMMA OffsetsWritten ==
  ASSUME [Next]_vars
  PROVE  \/ offs' = offs \/ PostOpOpen \/ PostOpWrite \/ PostOpRemote \/ FinishSubvolume
         \/ \E s \in Snaps : PruneOffset(s)
<1>1. Source \/ StartSync \/ PickSnapshot \/ AllSynced \/ FinishRun => offs' = offs
  BY DEF Source, TakeSnapshot, Expire, StartSync, PickSnapshot, AllSynced, FinishRun, disk
<1>2. SkipCommand \/ BeginSubvolume \/ DoCommand \/ PostOpSkip => offs' = offs
  BY DEF SkipCommand, BeginSubvolume, DoCommand, PostOpSkip, disk
<1>3. StreamBreaks \/ Crash \/ UNCHANGED vars => offs' = offs
  BY DEF StreamBreaks, Crash, vars, disk
<1>4. QED
  BY <1>1, <1>2, <1>3 DEF Next, Sync

\* Whatever step a sync or its interruption takes, no offset file goes back to
\* an earlier command, save Prune's removals and the remote shell's truncation
\* on a full disk (PostOp).
THEOREM OffsetsNeverGoBack == Spec => OffsetsAdvance
<1>1. ASSUME IInv, [Next]_vars
      PROVE  [\A s \in Snaps : \/ offs'[s] >= offs[s]
                               \/ offs'[s] = Absent /\ s \notin src
                               \/ offs'[s] = Void /\ remote /\ faults' < faults]_vars
  <2> SUFFICES ASSUME NEW s \in Snaps
               PROVE  \/ offs'[s] >= offs[s]
                      \/ offs'[s] = Absent /\ s \notin src
                      \/ offs'[s] = Void /\ remote /\ faults' < faults
    OBVIOUS
  <2> USE DoneIs
  <2>1. Types /\ Placed /\ offs \in [Snaps -> Void..Done \cup {Absent}] /\ offs[s] \in Int /\ offs[s] <= Done /\ faults \in Nat
    <3>1. Types /\ Placed
      BY <1>1, Zenon DEF IInv
    <3>2. offs \in [Snaps -> Void..Done \cup {Absent}] /\ faults \in 0..MaxFaults
      BY <3>1 DEF Types, DiskOK, SyncOK
    <3>3. QED
      BY <3>1, <3>2
  <2>2. CASE offs' = offs
    BY <2>1, <2>2
  <2>3. CASE PostOpOpen
    BY <2>1, <2>3 DEF PostOpOpen
  <2>4. ASSUME offs' = [offs EXCEPT ![cur] = idx], pc \in {"open", "put"}, pc = "open" => idx >= rxOffset
        PROVE  offs'[s] >= offs[s]
    <3>1. idx \in Nat /\ rxOffset \in Nat /\ offs[cur] \in Int
      BY <2>1, <2>4, TransferIs DEF Transfer
    <3>2. offs[cur] <= idx
      BY <2>1, <2>4, <3>1 DEF Placed
    <3>3. QED
      BY <2>1, <2>4, <3>1, <3>2
  <2>5. CASE PostOpWrite
    BY <2>4, <2>5 DEF PostOpWrite
  <2>6. ASSUME offs' = [offs EXCEPT ![cur] = Void], remote, faults' = faults - 1
        PROVE  \/ offs'[s] >= offs[s]
               \/ offs'[s] = Void /\ remote /\ faults' < faults
    BY <2>1, <2>6
  <2>7. CASE PostOpRemote
    <3>1. \/ offs' = [offs EXCEPT ![cur] = idx]
          \/ offs' = [offs EXCEPT ![cur] = Void] /\ faults' = faults - 1
      BY <2>7 DEF PostOpRemote
    <3>2. pc = "open" /\ remote /\ idx >= rxOffset
      BY <2>7 DEF PostOpRemote
    <3>3. QED
      BY <2>4, <2>6, <3>1, <3>2
  <2>8. CASE FinishSubvolume
    <3>1. CASE offs' = [offs EXCEPT ![cur] = Done]
      BY <2>1, <3>1
    <3>2. CASE remote /\ offs' = [offs EXCEPT ![cur] = Void] /\ faults' = faults - 1
      BY <2>6, <3>2
    <3>3. QED
      BY <2>2, <2>8, <3>1, <3>2 DEF FinishSubvolume
  <2>9. ASSUME NEW r \in Snaps, PruneOffset(r)
        PROVE  offs'[s] >= offs[s] \/ (offs'[s] = Absent /\ s \notin src)
    BY <2>1, <2>9 DEF PruneOffset
  <2>10. QED
    BY <1>1, <2>2, <2>3, <2>5, <2>7, <2>8, <2>9, OffsetsWritten
<1>2. QED
  BY <1>1, Invariance, PTL DEF Spec, OffsetsAdvance

\* Only FinishSubvolume marks a snapshot, and only when the directory shows all
\* of it: no interruption leaves a mark that later runs would trust.
THEOREM MarkedIsComplete == Spec => MarkedWhenComplete
<1>1. ASSUME IInv, [Next]_vars
      PROVE  [\A s \in Snaps : (offs[s] # Done /\ offs'[s] = Done /\ ~spoiled) => Shows(s)]_vars
  <2> SUFFICES ASSUME NEW s \in Snaps, offs[s] # Done, offs'[s] = Done, ~spoiled
               PROVE  Shows(s)
    OBVIOUS
  <2> USE DoneIs
  <2>1. Types /\ Placed /\ InOrder /\ OnTheWay /\ offs \in [Snaps -> Void..Done \cup {Absent}]
    <3>1. Types /\ Placed /\ InOrder /\ OnTheWay
      BY <1>1, Zenon DEF IInv
    <3>2. QED
      BY <3>1 DEF Types, DiskOK
  <2>2. offs' # offs
    OBVIOUS
  <2>3. ~PostOpOpen
    BY <2>1 DEF PostOpOpen
  <2>4. ASSUME offs' = [offs EXCEPT ![cur] = idx], pc \in {"open", "put"} PROVE FALSE
    <3>1. idx \in Nat /\ Len(stream) \in Nat /\ Len(stream) <= Done
      BY <2>1, <2>4, TransferIs DEF Transfer
    <3>2. idx < Len(stream)
      BY <2>1, <2>4 DEF Placed
    <3>3. QED
      BY <2>1, <2>4, <3>1, <3>2
  <2>5. ~PostOpWrite /\ ~PostOpRemote
    <3>1. PostOpWrite \/ PostOpRemote => \/ offs' = [offs EXCEPT ![cur] = idx] /\ pc \in {"open", "put"}
                                         \/ offs' = [offs EXCEPT ![cur] = Void]
      BY DEF PostOpWrite, PostOpRemote
    <3>2. offs' # [offs EXCEPT ![cur] = Void]
      BY <2>1
    <3>3. QED
      BY <2>4, <3>1, <3>2
  <2>6. ~ \E r \in Snaps : PruneOffset(r)
    BY <2>1 DEF PruneOffset
  <2>7. FinishSubvolume
    BY <1>1, <2>2, <2>3, <2>5, <2>6, OffsetsWritten
  <2>8. s = cur
    BY <2>1, <2>7 DEF FinishSubvolume
  <2>9. At(cur)
    BY <2>1, <2>7, OnTheWayFinished
  <2>10. QED
    BY <2>1, <2>8, <2>9, HoldsShows
<1>2. QED
  BY <1>1, Invariance, PTL DEF Spec, MarkedWhenComplete
=============================================================================
