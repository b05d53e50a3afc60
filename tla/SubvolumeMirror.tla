--------------------------- MODULE SubvolumeMirror ---------------------------
(***************************************************************************)
(* A local mirror of format "subvolume": localSubvolumeManager of          *)
(* pkg/cmd/syncmanager/local_subvolume.go, with the local receiver         *)
(* (pkg/receive/receivers/local/local.go) and FindPathDiffOffset           *)
(* (pkg/receive/diff.go), which finds out where to resume a transfer.      *)
(*                                                                         *)
(* Every snapshot of the source is received into a subvolume of its own,   *)
(* incrementally from the one received before it, and is complete once it  *)
(* carries the UUID of the source snapshot.  The process can stop between  *)
(* any two system calls.                                                   *)
(***************************************************************************)
EXTENDS SendStreams

CONSTANTS MaxSnaps,       (* bound: snapshots ever taken                   *)
          MaxFaults       (* bound: crashes, broken streams, logged errors
                             and snapshots that go during a sync           *)

ASSUME SubvolumeAssumption == MaxSnaps \in Nat /\ MaxFaults \in Nat

VARIABLES
  taken, snaps, content,  (* the source, as in DirectoryMirror             *)
  dest,      (* the mirror: a subvolume for each snapshot received         *)
  pc, src,   (* src: sourceInfo.Snapshots, looked up when the sync starts  *)
  cur,       (* the snapshot being synced, or whose copy is being deleted  *)
  parent,    (* its parent, 0 for none                                     *)
  restore,   (* FindPathDiffOffset is to make the destination writable     *)
  stream,    (* its send stream                                            *)
  idx,       (* ctx.currentOffset: commands consumed                       *)
  start,     (* ctx.startOffset                                            *)
  result,    (* how the last sync ended                                    *)
  faults,    (* faults left                                                *)
  base,      (* history: what each received snapshot was begun from        *)
  mixed      (* history: a transfer was resumed with a parent other than
                the one it began from, or the one it was compared with     *)

source  == <<taken, snaps, content>>
history == <<base, mixed>>
task    == <<cur, parent, restore, stream, idx, start>>
vars    == <<source, dest, pc, src, task, result, faults, history>>

Snaps == 1..MaxSnaps

NoVol == [there |-> FALSE, tree |-> Empty, received |-> FALSE, ro |-> FALSE]
Volume(tree) == [there |-> TRUE, tree |-> tree, received |-> FALSE, ro |-> FALSE]

Init == /\ taken = 0 /\ snaps = {}
        /\ content = [s \in Snaps |-> Nothing]
        /\ dest = [s \in Snaps |-> NoVol]
        /\ base = [s \in Snaps |-> 0]
        /\ pc = "idle" /\ src = {} /\ cur = 0 /\ parent = 0 /\ restore = FALSE
        /\ stream = << >> /\ idx = 0 /\ start = 0
        /\ result = "none" /\ faults = MaxFaults /\ mixed = FALSE

Fault == faults > 0 /\ faults' = faults - 1

-----------------------------------------------------------------------------
(* The source.                                                             *)

TakeSnapshot == /\ pc = "idle"
                /\ taken < MaxSnaps
                /\ taken' = taken + 1
                /\ snaps' = snaps \cup {taken'}
                /\ \E c \in Contents : content' = [content EXCEPT ![taken'] = c]
                /\ UNCHANGED <<dest, pc, src, task, result, faults, history>>

\* The newest stays.  While a sync runs only another process (`btrsync
\* prune`) deletes.
Expire(s) == /\ s \in snaps /\ s < Max(snaps)
             /\ snaps' = snaps \ {s}
             /\ IF pc = "idle" THEN UNCHANGED faults ELSE Fault
             /\ UNCHANGED <<taken, content, dest, pc, src, task, result, history>>

-----------------------------------------------------------------------------
(* Sync and the beginning of syncSnapshot.                                 *)

StartSync == /\ pc = "idle" /\ snaps # {}
             /\ src' = snaps
             /\ cur' = 0
             /\ pc' = "pick"
             /\ result' = "none"
             /\ UNCHANGED <<source, dest, parent, restore, stream, idx, start, faults, history>>

\* An error ends the sync and the run with it.
Abort == /\ pc' = "idle"
         /\ result' = "error"

\* Seeded fault: the index before the first.
ParentUnchecked(s) == Max({-1} \cup {t \in src : t < s})

\* snaputil.MapParents.
ParentOf(s) == Max({0} \cup {t \in src : t < s})
Ahead == {s \in src : s > cur}

\* checkDestinationSnapshotLocal: found, and received from this snapshot.
Synced(s) == dest[s].there /\ dest[s].received

\* Seeded fault: what is partial is sent again from the start.
PickRestarts == /\ pc = "pick" /\ Ahead # {}
                /\ cur' = Min(Ahead)
                /\ parent' = ParentOf(cur')
                /\ start' = 0
                /\ pc' = IF Synced(cur') THEN "pick" ELSE "send"
                /\ UNCHANGED <<source, dest, src, restore, stream, idx, result, faults, history>>

PickSnapshot == /\ pc = "pick" /\ Ahead # {}
                /\ cur' = Min(Ahead)
                /\ parent' = ParentOf(cur')
                /\ start' = 0
                /\ pc' = IF Synced(cur') THEN "pick"
                         ELSE IF dest[cur'].there THEN "diff" ELSE "send"
                /\ UNCHANGED <<source, dest, src, restore, stream, idx, result, faults, history>>

AllSynced == /\ pc = "pick" /\ Ahead = {}
             /\ pc' = "prune"
             /\ UNCHANGED <<source, dest, src, task, result, faults, history>>

-----------------------------------------------------------------------------
(* FindPathDiffOffset.                                                     *)

\* The destination is made read-only for the time of the comparison.
DiffBegin == /\ pc = "diff"
             /\ cur \in snaps
             /\ restore' = ~dest[cur].ro
             /\ dest' = [dest EXCEPT ![cur].ro = TRUE]
             /\ pc' = "compare"
             /\ UNCHANGED <<source, src, cur, parent, stream, idx, start, result, faults, history>>

\* The source snapshot is gone.
DiffGone == /\ pc = "diff" /\ cur \notin snaps
            /\ Abort
            /\ UNCHANGED <<source, dest, src, task, faults, history>>

\* BTRFS_IOC_SEND from a parent that is still there, in full otherwise
\* (SendWithParentRoot's error is dropped).
Against(p) == IF p \in snaps THEN p ELSE 0
SendStream(p, s) == IF Against(p) = 0 THEN Stream("subvol", Nothing, content[s])
                                      ELSE Stream("snapshot", content[p], content[s])

\* The stream of the destination: what it holds under its final names, after
\* a creation for each file that still has its orphan name.
Partial == LET from == IF parent = 0 THEN Nothing ELSE Visible(dest[parent].tree)
               to   == Visible(dest[cur].tree)
           IN  << Begin(IF parent = 0 THEN "subvol" ELSE "snapshot") >>
               \o FlattenSeq([i \in 1..Len(PathOrder) |->
                     (IF dest[cur].tree[Orphan(PathOrder[i])] = NoFile THEN << >> ELSE Create(PathOrder[i], Blank))
                     \o Change(PathOrder[i], from[PathOrder[i]], to[PathOrder[i]])])
               \o << Begin("end") >>

\* In streams without data two commands agree when they do the same to the
\* same name, whatever is written; those on orphan names never do, the names
\* hold the inode's generation.
Muted(side, commands) ==
    [i \in DOMAIN commands |->
        [commands[i] EXCEPT !.val = IF \E p \in Paths : commands[i].name = Orphan(p) THEN side ELSE NoFile]]

\* FindDiffOffset: how many commands agree from the start.
Agreeing(a, b) == CHOOSE k \in 0..Len(a) :
                     /\ k <= Len(b)
                     /\ SubSeq(a, 1, k) = SubSeq(b, 1, k)
                     /\ k < Len(a) /\ k < Len(b) => a[k + 1] # b[k + 1]

\* The offset counts the commands of a stream without data, where one command
\* stands for all the writes of an extent: it may fall short of the place in
\* the stream that is sent.
DiffEnd == /\ pc = "compare" /\ (parent # 0 => dest[parent].ro)
           /\ \E a \in {Muted("source", SendStream(parent, cur))}, b \in {Muted("mirror", Partial)} :
                 start' \in {Min({1, Agreeing(a, b)}), Agreeing(a, b)}
           /\ dest' = IF restore THEN [dest EXCEPT ![cur].ro = FALSE] ELSE dest
           /\ pc' = "send"
           /\ UNCHANGED <<source, src, cur, parent, restore, stream, idx, result, faults, history>>

\* The stream of the destination needs a parent that is read-only.
DiffFails == /\ pc = "compare" /\ parent # 0 /\ ~dest[parent].ro
             /\ dest' = IF restore THEN [dest EXCEPT ![cur].ro = FALSE] ELSE dest
             /\ Abort
             /\ UNCHANGED <<source, src, task, faults, history>>

\* The streams differ before the senders have written them to the end: what is
\* left does not fit in the pipes and nobody reads it.
DiffOverflows ==
    /\ pc = "compare"
    /\ \E a \in {Muted("source", SendStream(parent, cur))}, b \in {Muted("mirror", Partial)} :
          Agreeing(a, b) < Len(a)
    /\ pc' = "overflow"
    /\ UNCHANGED <<source, dest, src, task, result, faults, history>>

\* Both senders block until the garbage collector closes the pipes' read ends;
\* then they fail.
DiffCollected == /\ pc = "overflow"
                 /\ dest' = IF restore THEN [dest EXCEPT ![cur].ro = FALSE] ELSE dest
                 /\ Abort
                 /\ UNCHANGED <<source, src, task, faults, history>>

-----------------------------------------------------------------------------
(* The transfer.                                                           *)

Send == /\ pc = "send" /\ cur \in snaps
        /\ stream' = SendStream(parent, cur)
        /\ idx' = 0
        /\ mixed' = (mixed \/ (start > 0 /\ ~(base[cur] = parent /\ Against(parent) = parent)))
        /\ pc' = "read"
        /\ UNCHANGED <<source, dest, src, cur, parent, restore, start, result, faults, base>>

\* Without the source snapshot Send returns with the pipe open, and the
\* receiver waits until the garbage collector closes the write end.
SendGone == /\ pc = "send" /\ cur \notin snaps
            /\ pc' = "starved"
            /\ UNCHANGED <<source, dest, src, task, result, faults, history>>

SendCollected == /\ pc = "starved"
                 /\ Abort
                 /\ UNCHANGED <<source, dest, src, task, faults, history>>

Next1 == stream[idx + 1]
More  == pc = "read" /\ idx < Len(stream)

SkipCommand == /\ More /\ start > idx
               /\ idx' = idx + 1
               /\ UNCHANGED <<source, dest, pc, src, cur, parent, restore, stream, start, result, faults, history>>

\* Subvol: an empty subvolume.  Snapshot: a copy of the one received from the
\* parent.  Either is writable until it is finished.
BeginSubvolume == /\ More /\ start <= idx /\ Next1.op \in {"subvol", "snapshot"}
                  /\ \/ /\ dest[cur].there \/ (Next1.op = "snapshot" /\ ~Synced(parent))
                        /\ Abort
                        /\ UNCHANGED <<dest, idx, base>>
                     \/ /\ ~dest[cur].there
                        /\ Next1.op = "snapshot" => Synced(parent)
                        /\ dest' = [dest EXCEPT ![cur] =
                              Volume(IF Next1.op = "subvol" THEN Empty ELSE dest[parent].tree)]
                        /\ base' = [base EXCEPT ![cur] = IF Next1.op = "subvol" THEN 0 ELSE parent]
                        /\ idx' = idx + 1
                        /\ UNCHANGED <<pc, result>>
                  /\ UNCHANGED <<source, src, cur, parent, restore, stream, start, faults, mixed>>

DoCommand == /\ More /\ start <= idx /\ Next1.op \notin {"subvol", "snapshot", "end"}
             /\ \/ /\ ~dest[cur].ro /\ Succeeds(dest[cur].tree, Next1)
                   /\ dest' = [dest EXCEPT ![cur].tree = Applied(@, Next1)]
                   /\ idx' = idx + 1
                   /\ UNCHANGED <<pc, result>>
                \/ /\ dest[cur].ro \/ ~Succeeds(dest[cur].tree, Next1)
                   /\ Abort
                   /\ UNCHANGED <<dest, idx>>
             /\ UNCHANGED <<source, src, cur, parent, restore, stream, start, faults, history>>

\* Seeded fault: a stream without END taken for complete.
BreakFinishes == /\ More /\ Fault
                 /\ pc' = "writable"
                 /\ UNCHANGED <<source, dest, src, task, result, history>>

StreamBreaks == /\ More /\ Fault
                /\ Abort
                /\ UNCHANGED <<source, dest, src, task, history>>

StreamEnds == /\ pc = "read"
              /\ idx = Len(stream) \/ (More /\ start <= idx /\ Next1.op = "end")
              /\ pc' = "writable"
              /\ UNCHANGED <<source, dest, src, task, result, faults, history>>

-----------------------------------------------------------------------------
(* FinishSubvolume: writable, received, read-only.                         *)

MakeWritable == /\ pc = "writable"
                /\ dest' = [dest EXCEPT ![cur].ro = FALSE]
                /\ pc' = "receive"
                /\ UNCHANGED <<source, src, task, result, faults, history>>

SetReceived == /\ pc = "receive"
               /\ dest' = [dest EXCEPT ![cur].received = TRUE]
               /\ pc' = "readonly"
               /\ UNCHANGED <<source, src, task, result, faults, history>>

\* Seeded fault: read-only not restored.
StayWritable == /\ pc = "readonly"
                /\ pc' = "pick"
                /\ UNCHANGED <<source, dest, src, task, result, faults, history>>

MakeReadOnly == /\ pc = "readonly"
                /\ dest' = [dest EXCEPT ![cur].ro = TRUE]
                /\ pc' = "pick"
                /\ UNCHANGED <<source, src, task, result, faults, history>>

\* An error in any of them is logged and the sync goes on.
FinishFails == /\ pc \in {"writable", "receive", "readonly"}
               /\ Fault
               /\ pc' = "pick"
               /\ UNCHANGED <<source, dest, src, task, result, history>>

-----------------------------------------------------------------------------
\* Seeded fault: the oldest goes too.
ExpiredAndOldest == {s \in Snaps : dest[s].there /\ (s \notin src \/ s = Min(src))}

\* pruneLocalMirror: what is in the mirror and was not in the source.
MirrorExpired == {s \in Snaps : dest[s].there /\ s \notin src}

\* DeleteSubvolume clears the read-only flag, and os.RemoveAll removes one file
\* after the other before the subvolume itself.
PruneMirror(s) == /\ pc = "prune" /\ s \in MirrorExpired
                  /\ dest' = [dest EXCEPT ![s].ro = FALSE]
                  /\ cur' = s
                  /\ pc' = "remove"
                  /\ UNCHANGED <<source, src, parent, restore, stream, idx, start, result, faults, history>>

RemoveFile(n) == /\ pc = "remove" /\ dest[cur].tree[n] # NoFile
                 /\ dest' = [dest EXCEPT ![cur].tree[n] = NoFile]
                 /\ UNCHANGED <<source, pc, src, task, result, faults, history>>

RemoveVolume == /\ pc = "remove" /\ dest[cur].tree = Empty
                /\ dest' = [dest EXCEPT ![cur] = NoVol]
                /\ base' = [base EXCEPT ![cur] = 0]
                /\ pc' = "prune"
                /\ UNCHANGED <<source, src, task, result, faults, mixed>>

FinishRun == /\ pc = "prune" /\ MirrorExpired = {}
             /\ pc' = "idle"
             /\ result' = "ok"
             /\ UNCHANGED <<source, dest, src, task, faults, history>>

\* The process is killed; or a system call of a deletion fails.
Crash == /\ pc # "idle" /\ Fault
         /\ Abort
         /\ UNCHANGED <<source, dest, src, task, history>>

Source == TakeSnapshot \/ \E s \in Snaps : Expire(s)

Sync == \/ StartSync \/ PickSnapshot \/ AllSynced \/ FinishRun
        \/ DiffBegin \/ DiffGone \/ DiffFails \/ DiffEnd \/ DiffCollected
        \/ Send \/ SendGone \/ SendCollected
        \/ SkipCommand \/ BeginSubvolume \/ DoCommand \/ StreamEnds
        \/ MakeWritable \/ SetReceived \/ MakeReadOnly
        \/ (\E s \in Snaps : PruneMirror(s)) \/ (\E n \in Names : RemoveFile(n)) \/ RemoveVolume

Next == Source \/ Sync \/ DiffOverflows \/ StreamBreaks \/ FinishFails \/ Crash

Spec == Init /\ [][Next]_vars

\* The daemon runs again and again, a first snapshot is taken, a sync goes on.
FairSpec == Spec /\ WF_vars(Sync) /\ WF_vars(taken = 0 /\ TakeSnapshot)
-----------------------------------------------------------------------------
\* The shape of the source, the mirror and the process.
TypeOK == /\ taken \in 0..MaxSnaps /\ snaps \subseteq 1..taken /\ src \subseteq 1..taken
          /\ content \in [Snaps -> Contents]
          /\ dest \in [Snaps -> [there : BOOLEAN, tree : [Names -> Held], received : BOOLEAN, ro : BOOLEAN]]
          /\ base \in [Snaps -> 0..MaxSnaps] /\ mixed \in BOOLEAN
          /\ pc \in {"idle", "pick", "diff", "compare", "overflow", "send", "starved", "read", "writable", "receive", "readonly", "prune", "remove"}
          /\ cur \in 0..MaxSnaps /\ parent \in 0..MaxSnaps /\ restore \in BOOLEAN
          /\ idx \in 0..Len(stream) /\ start \in Nat
          /\ result \in {"none", "ok", "error"} /\ faults \in 0..MaxFaults

\* The subvolume shows what the snapshot shows.
Exact(s) == /\ Visible(dest[s].tree) = Received(content[s])
            /\ \A p \in Paths : dest[s].tree[Orphan(p)] = NoFile

\* No deletion of the copy has begun: only what the source no longer has is
\* deleted, and first made writable.
Kept(s) == s \in src \/ dest[s].ro

\* A mirrored snapshot that counts as synced is the snapshot of the source,
\* whatever was interrupted and resumed at an offset found by comparing
\* streams, unless retention took the parent it began from before it was
\* resumed, or the one it was compared with before it was sent.  A copy whose
\* deletion was interrupted still has the UUID and only some of the files: it
\* is writable, and of a snapshot that the last sync no longer found.
MirrorExact == mixed \/ \A s \in Snaps : Synced(s) /\ Kept(s) => Exact(s)

\* A snapshot that has been mirrored stays mirrored, with the same contents,
\* while the source has it: no later sync, resumed transfer or pruning touches
\* it.
SyncedStay == [][\A s \in snaps' : Synced(s) => dest'[s].received /\ dest'[s].tree = dest[s].tree]_vars

\* A run that reports success after nothing went wrong, ever, has mirrored
\* every snapshot it knew, read-only, and holds no other.
OkMeansMirrored == pc = "idle" /\ result = "ok" /\ faults = MaxFaults =>
    /\ \A s \in src : Synced(s) /\ dest[s].ro
    /\ \A s \in Snaps \ src : ~dest[s].there

\* States no later sync leaves: a partial snapshot left read-only by a
\* comparison that was killed, a parent left writable by a crash before
\* FinishSubvolume's last step, a command that cannot be applied again.
LeftReadOnly == pc = "idle" /\ \E s \in snaps : dest[s].there /\ ~Synced(s) /\ dest[s].ro
LeftWritable == pc = "idle" /\ \E s \in snaps : Synced(s) /\ ~dest[s].ro
CannotApply  == /\ More /\ start <= idx /\ Next1.op \notin {"subvol", "snapshot", "end"}
                /\ ~Succeeds(dest[cur].tree, Next1)

\* Syncs succeed again and again, also after crashes and broken streams, unless
\* one of these states is met or the streams to compare overflow the pipes.
Recovers == []<>(pc = "idle" /\ result = "ok") \/ <>(LeftReadOnly \/ LeftWritable \/ CannotApply \/ pc = "overflow")

-----------------------------------------------------------------------------
(* What the documentation says without exceptions.                         *)

\* README.md: "Recovery of interrupted transfers by natively scanning the btrfs
\* send streams and tracking offsets": a snapshot that counts as received is
\* the snapshot, also when its transfer was interrupted.
MirrorAlwaysExact == \A s \in src : Synced(s) => Exact(s)
=============================================================================
