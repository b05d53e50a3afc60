--------------------------- MODULE DirectoryMirror ---------------------------
(***************************************************************************)
(* A mirror of format "directory": localDirectoryManager and               *)
(* sshDirectoryManager of pkg/cmd/syncmanager (local_directory.go,         *)
(* ssh_directory.go), which feed the send stream of each snapshot to       *)
(* receive.ProcessSendStream (pkg/receive/receive.go), which applies it    *)
(* command by command with the receiver of                                 *)
(* pkg/receive/receivers/directory/directory.go or, with a remote command  *)
(* for each, of pkg/receive/receivers/sshdir/sshdir.go.                    *)
(*                                                                         *)
(* One directory holds the contents of the newest snapshot.  Beside it a   *)
(* file per snapshot holds the offset of the last command applied, so that *)
(* an interrupted transfer can resume.  The process can stop between any   *)
(* two system calls; what it wrote stays.                                  *)
(***************************************************************************)
EXTENDS SendStreams

CONSTANTS MaxUint64,      (* longer than any stream is                     *)
          States,         (* bound: what a snapshot can hold               *)
          MaxSnaps,       (* bound: snapshots ever taken                   *)
          MaxFaults       (* bound: crashes, broken streams, lost marks and
                             long pauses                                   *)

ASSUME DirectoryAssumption ==
    /\ MaxUint64 \in Nat /\ MaxSnaps \in Nat /\ MaxFaults \in Nat /\ States \subseteq Contents
    /\ \A op \in {"subvol", "snapshot"}, from, to \in Contents : Len(Stream(op, from, to)) < MaxUint64

VARIABLES
  remote,    (* the mirror is reached over SSH                             *)
  (* the source *)
  taken,     (* snapshots taken so far; they are 1..taken, oldest first    *)
  snaps,     (* those that still exist                                     *)
  content,   (* what each holds                                            *)
  (* the mirror's disk *)
  tree,      (* the mirror directory                                       *)
  offs,      (* the offset file of each snapshot                           *)
  (* the process *)
  pc, src,   (* src: sourceInfo.Snapshots, looked up when the sync starts  *)
  cur,       (* the snapshot being synced                                  *)
  stream,    (* its send stream                                            *)
  idx,       (* ctx.currentOffset: commands consumed                       *)
  rxOffset,  (* the directory receiver's currentOffset                     *)
  result,    (* how the last sync ended                                    *)
  faults,    (* faults left                                                *)
  spoiled    (* history: a mark was lost, or retention deleted a snapshot
                the mirror still needed                                    *)

disk   == <<tree, offs>>
source == <<remote, taken, snaps, content>>
proc   == <<src, cur, stream, idx, rxOffset>>
vars   == <<source, disk, proc, pc, result, faults, spoiled>>

Snaps == 1..MaxSnaps

\* The offset file: absent, there but empty, a number, or the mark of a
\* completed snapshot (math.MaxUint64-1), larger than any offset.
Absent == -2
Void   == -1
Done   == MaxUint64 - 1

-----------------------------------------------------------------------------
\* BTRFS_IOC_SEND without a parent, and with one.
SendStream(parent, s) == IF parent = 0 THEN Stream("subvol", Nothing, content[s])
                                       ELSE Stream("snapshot", content[parent], content[s])

Init == /\ remote \in BOOLEAN
        /\ taken = 0 /\ snaps = {}
        /\ content = [s \in Snaps |-> Nothing]
        /\ tree = Empty
        /\ offs = [s \in Snaps |-> Absent]
        /\ pc = "idle" /\ src = {} /\ cur = 0
        /\ stream = << >> /\ idx = 0 /\ rxOffset = 0
        /\ result = "none" /\ faults = MaxFaults /\ spoiled = FALSE

(* The source: snapshots are taken and deleted between syncs.              *)

TakeSnapshot == /\ pc = "idle"
                /\ taken < MaxSnaps
                /\ taken' = taken + 1
                /\ snaps' = snaps \cup {taken + 1}
                /\ \E c \in States :
                      content' = [content EXCEPT ![taken + 1] = c]
                /\ UNCHANGED <<remote, disk, proc, pc, result, faults, spoiled>>

\* The snapshot the mirror directory holds, and the one it is on its way to.
MirrorNeeds == {s \in snaps : \/ offs[s] \in Void..(Done - 1)
                              \/ offs[s] = Done /\ \A t \in snaps : offs[t] = Done => t <= s}

\* Each run takes a snapshot, when none is recent, before it deletes any
\* (handleSnapshots): the newest stays.  One the mirror still needs goes only
\* when no run has succeeded for longer than the retention period.
Expire(s) == /\ pc = "idle"
             /\ s \in snaps
             /\ s < Max(snaps)
             /\ snaps' = snaps \ {s}
             /\ \/ /\ s \notin MirrorNeeds
                   /\ UNCHANGED <<faults, spoiled>>
                \/ /\ s \in MirrorNeeds
                   /\ faults > 0
                   /\ faults' = faults - 1
                   /\ spoiled' = TRUE
             /\ UNCHANGED <<remote, taken, content, disk, proc, pc, result>>

-----------------------------------------------------------------------------
(* localDirectoryManager.Sync and syncSnapshot.                            *)

StartSync == /\ pc = "idle"
             /\ snaps # {}
             /\ src' = snaps
             /\ cur' = 0
             /\ pc' = "pick"
             /\ result' = "none"
             /\ UNCHANGED <<source, disk, stream, idx, rxOffset, faults, spoiled>>

\* The receiver and its place in the stream go with the transfer.
TransferOver == stream' = << >> /\ idx' = 0 /\ rxOffset' = 0

\* An error ends the sync and the run with it.
Abort == /\ pc' = "idle"
         /\ result' = "error"
         /\ cur' = 0
         /\ TransferOver
         /\ UNCHANGED <<source, src>>

\* Seeded fault: the oldest snapshot for a parent.
ParentOldest(s) == IF s = Min(src) THEN 0 ELSE Min(src)

\* snaputil.MapParents: the snapshot before it in the list, none for the first.
ParentOf(s) == Max({0} \cup {t \in src : t < s})

Ahead == {s \in src : s > cur}

\* Seeded fault: a missing offset file taken for a failure.
PickNeedsFile == /\ pc = "pick"
                 /\ Ahead # {}
                 /\ LET s == Min(Ahead) IN
                    \/ /\ offs[s] \in {Void, Absent}
                       /\ Abort
                    \/ /\ offs[s] = Done
                       /\ cur' = s
                       /\ UNCHANGED <<source, pc, src, stream, idx, rxOffset, result>>
                    \/ /\ offs[s] \notin {Void, Absent, Done}
                       /\ cur' = s
                       /\ stream' = SendStream(ParentOf(s), s)
                       /\ pc' = "read"
                       /\ UNCHANGED <<source, src, idx, rxOffset, result>>
                 /\ UNCHANGED <<disk, faults, spoiled>>

\* syncSnapshot on the next snapshot of the list: its offset file is read;
\* an empty one cannot be parsed.
PickSnapshot == /\ pc = "pick"
                /\ Ahead # {}
                /\ LET s == Min(Ahead) IN
                   \/ /\ offs[s] = Void
                      /\ Abort
                   \/ /\ offs[s] = Done
                      /\ cur' = s
                      /\ UNCHANGED <<source, pc, src, stream, idx, rxOffset, result>>
                   \/ /\ offs[s] \notin {Void, Done}
                      /\ cur' = s
                      /\ stream' = SendStream(ParentOf(s), s)
                      /\ pc' = "read"
                      /\ UNCHANGED <<source, src, idx, rxOffset, result>>
                /\ UNCHANGED <<disk, faults, spoiled>>

AllSynced == /\ pc = "pick"
             /\ Ahead = {}
             /\ pc' = "prune"
             /\ UNCHANGED <<source, disk, proc, result, faults, spoiled>>

\* Prune: offset files of snapshots that are gone are removed, one by one.
PruneOffset(s) == /\ pc = "prune"
                  /\ s \notin src
                  /\ offs[s] # Absent
                  /\ offs' = [offs EXCEPT ![s] = Absent]
                  /\ UNCHANGED <<source, tree, proc, pc, result, faults, spoiled>>

FinishRun == /\ pc = "prune"
             /\ \A s \in Snaps \ src : offs[s] = Absent
             /\ pc' = "idle"
             /\ result' = "ok"
             /\ cur' = 0
             /\ UNCHANGED <<source, disk, src, stream, idx, rxOffset, faults, spoiled>>

-----------------------------------------------------------------------------
(* ProcessSendStream with the directory receiver, maxErrors 0, HonorEnd.   *)

Next1 == stream[idx + 1]
More  == pc = "read" /\ idx < Len(stream)

\* PreOp answers ErrSkipCommand while the receiver's offset is ahead.
SkipCommand == /\ More
               /\ rxOffset > idx
               /\ idx' = idx + 1
               /\ UNCHANGED <<source, disk, src, cur, stream, rxOffset, pc, result, faults, spoiled>>

\* Seeded fault: a missing file not told from a number.
RecordedRaw == offs[cur]

Recorded == IF offs[cur] = Absent THEN 0 ELSE offs[cur]

\* Subvol and Snapshot: the receiver reads its offset file.
BeginSubvolume == /\ More
                  /\ rxOffset <= idx
                  /\ Next1.op \in {"subvol", "snapshot"}
                  /\ rxOffset' = Recorded
                  /\ pc' = "open"
                  /\ UNCHANGED <<source, disk, src, cur, stream, idx, result, faults, spoiled>>

CanDo(c) == IF remote THEN RemoteSucceeds(tree, c) ELSE DirectorySucceeds(tree, c)

DoCommand == /\ More
             /\ rxOffset <= idx
             /\ Next1.op \notin {"subvol", "snapshot", "end"}
             /\ \/ /\ CanDo(Next1)
                   /\ tree' = IF remote THEN RemoteApplied(tree, Next1) ELSE Applied(tree, Next1)
                   /\ pc' = "open"
                   /\ UNCHANGED <<source, offs, proc, result>>
                \/ /\ ~CanDo(Next1)
                   /\ Abort
                   /\ UNCHANGED disk
             /\ UNCHANGED <<faults, spoiled>>

\* PostOp leaves the offset file alone for commands before the one to resume.
PostOpSkip == /\ pc = "open"
              /\ idx < rxOffset
              /\ idx' = idx + 1
              /\ pc' = "read"
              /\ UNCHANGED <<source, disk, src, cur, stream, rxOffset, result, faults, spoiled>>

\* Seeded fault: the file written for every command.
PostOpAlways == /\ pc = "open"
                /\ offs' = [offs EXCEPT ![cur] = IF @ = Absent THEN Void ELSE @]
                /\ pc' = "put"
                /\ UNCHANGED <<source, tree, proc, result, faults, spoiled>>

\* os.OpenFile(..., O_CREATE), then the write of the offset.
PostOpOpen == /\ pc = "open" /\ ~remote
              /\ idx >= rxOffset
              /\ offs' = [offs EXCEPT ![cur] = IF @ = Absent THEN Void ELSE @]
              /\ pc' = "put"
              /\ UNCHANGED <<source, tree, proc, result, faults, spoiled>>

PostOpWrite == /\ pc = "put"
               /\ offs' = [offs EXCEPT ![cur] = idx]
               /\ idx' = idx + 1
               /\ pc' = "read"
               /\ UNCHANGED <<source, tree, src, cur, stream, rxOffset, result, faults, spoiled>>

\* The remote shell truncates the file before echo writes it: on a full disk
\* it stays empty.
PostOpRemote == /\ pc = "open" /\ remote
                /\ idx >= rxOffset
                /\ \/ /\ offs' = [offs EXCEPT ![cur] = idx]
                      /\ idx' = idx + 1
                      /\ pc' = "read"
                      /\ UNCHANGED <<source, src, cur, stream, rxOffset, result, faults>>
                   \/ /\ faults > 0
                      /\ faults' = faults - 1
                      /\ offs' = [offs EXCEPT ![cur] = Void]
                      /\ Abort
                /\ UNCHANGED <<tree, spoiled>>

\* FinishSubvolume, at the END command or, when END was skipped, at the end
\* of the stream.  Its error is logged and the sync goes on as if it had
\* succeeded.
FinishSubvolume == /\ pc = "read"
                   /\ \/ idx = Len(stream)
                      \/ More /\ rxOffset <= idx /\ Next1.op = "end"
                   /\ \/ /\ offs' = [offs EXCEPT ![cur] = Done]
                         /\ UNCHANGED <<faults, spoiled>>
                      \/ /\ faults > 0
                         /\ faults' = faults - 1
                         /\ spoiled' = TRUE
                         /\ \/ UNCHANGED offs
                            \/ remote /\ offs' = [offs EXCEPT ![cur] = Void]
                   /\ pc' = "pick"
                   /\ TransferOver
                   /\ UNCHANGED <<source, tree, src, cur, result>>

-----------------------------------------------------------------------------
\* Seeded fault: a stream without END taken for complete.
StreamEndsEarly == /\ More
                   /\ faults > 0
                   /\ faults' = faults - 1
                   /\ offs' = [offs EXCEPT ![cur] = Done]
                   /\ pc' = "pick"
                   /\ TransferOver
                   /\ UNCHANGED <<source, tree, src, cur, result, spoiled>>

\* The sender fails and the stream ends without END: stream.Err is returned.
StreamBreaks == /\ More
                /\ faults > 0
                /\ faults' = faults - 1
                /\ Abort
                /\ UNCHANGED <<disk, spoiled>>

\* The process is killed, or the connection lost.
Crash == /\ pc # "idle"
         /\ faults > 0
         /\ faults' = faults - 1
         /\ Abort
         /\ UNCHANGED <<disk, spoiled>>

-----------------------------------------------------------------------------
Source == TakeSnapshot \/ \E s \in Snaps : Expire(s)

Sync == \/ StartSync \/ PickSnapshot \/ AllSynced \/ FinishRun
        \/ SkipCommand \/ BeginSubvolume \/ DoCommand
        \/ PostOpSkip \/ PostOpOpen \/ PostOpWrite \/ PostOpRemote \/ FinishSubvolume
        \/ \E s \in Snaps : PruneOffset(s)

Next == Source \/ Sync \/ StreamBreaks \/ Crash

Spec == Init /\ [][Next]_vars

\* The daemon starts a run on every tick, a run takes a snapshot when there is
\* none, and makes progress.
FairSpec == Spec /\ WF_vars(Sync) /\ WF_vars(taken = 0 /\ TakeSnapshot)
-----------------------------------------------------------------------------
\* Type correctness of the source, the mirror's disk and the process.
TypeOK == /\ remote \in BOOLEAN
          /\ taken \in 0..MaxSnaps /\ snaps \subseteq 1..taken
          /\ content \in [Snaps -> Contents]
          /\ tree \in [Names -> Held]
          /\ offs \in [Snaps -> Void..Done \cup {Absent}]
          /\ pc \in {"idle", "pick", "prune", "read", "open", "put"}
          /\ src \subseteq 1..taken
          /\ cur \in 0..MaxSnaps
          /\ idx \in 0..Len(stream)
          /\ rxOffset \in 0..Done
          /\ result \in {"none", "ok", "error"}
          /\ faults \in 0..MaxFaults /\ spoiled \in BOOLEAN

\* The mirror directory shows the snapshot; the links of a local one lead below
\* the directory.
Shows(s) == Visible(tree) = IF remote THEN content[s] ELSE Received(content[s])

\* "The most recent snapshot's contents will be stored in the mirror path"
\* (config.go): after a run that reported success the directory is the
\* newest snapshot it knew, whatever was interrupted, skipped and resumed on
\* the way, unless a mark was lost or the mirror's snapshot deleted.
MirrorFaithful ==
    (pc = "idle" /\ result = "ok" /\ ~spoiled) => Shows(Max(src))

\* A resumed transfer never takes its recorded progress back.  A second
\* interruption would replay commands that cannot be replayed, and a smaller
\* number would be mixed with the larger one's digits: PostOp writes over the
\* file without truncating it.  Only a full remote disk empties it.
OffsetsAdvance ==
    [][\A s \in Snaps : \/ offs'[s] >= offs[s]
                        \/ offs'[s] = Absent /\ s \notin src
                        \/ offs'[s] = Void /\ remote /\ faults' < faults]_vars

\* The completion mark is written only when the directory shows the
\* snapshot: a crash never leaves a half-applied snapshot that later runs
\* skip as complete.
MarkedWhenComplete ==
    [][\A s \in Snaps :
          (offs[s] # Done /\ offs'[s] = Done /\ ~spoiled) => Shows(s)]_vars

\* The offset file a sync finds can be read: a crash between creating it and
\* writing it leaves it empty.
OffsetReadable == pc = "pick" => \A s \in src : offs[s] # Void

\* The command at hand can be applied.  A transfer that was interrupted begins
\* with the last command it had recorded, or with the one after it, which may
\* have been applied already: a rename or an unlink fails then.
CommandApplies == More /\ rxOffset <= idx /\ Next1.op \notin {"subvol", "snapshot", "end"}
                  => CanDo(Next1)

\* What no directory mirror can receive: a link whose target it does not have,
\* because its owner and times are set through it, and cloned data; and, over
\* SSH, a hard link.
BrokenLink == \E s \in snaps, p \in Links : content[s][p] \in Dangling \ Inodes
Reflinked  == \E s \in snaps, p \in Paths \ Links : content[s][p] \in Clones
HardLinked == remote /\ \E s \in snaps, p \in Links : content[s][p] \in Inodes

\* Transfers recover: runs succeed again and again, unless a mark was lost, the
\* mirror's snapshot was deleted, an offset file is empty, an interrupted
\* transfer meets a command it cannot apply again, or a snapshot holds what the
\* mirror can never receive.
Recovers == \/ []<>(pc = "idle" /\ result = "ok")
            \/ <>(\/ spoiled \/ ~OffsetReadable \/ (faults < MaxFaults /\ ~CommandApplies)
                 \/ BrokenLink \/ Reflinked \/ HardLinked)

-----------------------------------------------------------------------------
(* What the documentation says without exceptions.                         *)

\* README.md: "Recovery of interrupted transfers by natively scanning the btrfs
\* send streams and tracking offsets".
AlwaysRecovers == []<>(pc = "idle" /\ result = "ok")
=============================================================================
