---------------------------- MODULE StreamMirror ----------------------------
(***************************************************************************)
(* The mirrors that pass the send stream on without reading it:            *)
(*   "file"      localCompressedManager  (syncmanager/local_compressed.go) *)
(*   "sshfile"   sshCompressedManager    (syncmanager/ssh_compressed.go)   *)
(*   "sshsubvol" sshSubvolumeManager     (syncmanager/ssh_subvolume.go)    *)
(* with the remote helpers of sshutil/sshutil.go.                          *)
(*                                                                         *)
(* For each snapshot a goroutine lets the kernel send into a pipe, one     *)
(* copies from the pipe (through an encoder, for files) and over SSH a     *)
(* remote command, dd or `btrfs receive -e`, stores what arrives.  Files   *)
(* have a completion file beside them; a received subvolume shows by its   *)
(* received UUID that it is complete.                                      *)
(***************************************************************************)
EXTENDS Integers, FiniteSets, FiniteSetsExt

CONSTANTS Kinds,          (* the kinds of mirror                           *)
          Formats,        (* compression formats                           *)
          Pieces,         (* bound: how many pipe-sized pieces a stream has;
                             the last one holds its END                    *)
          Room,           (* pieces the pipe holds                         *)
          MaxSnaps,       (* bound: snapshots ever taken                   *)
          MaxFaults       (* bound: crashes, failing calls, edits of the
                             configured format                             *)

ASSUME KindsAssumption == Kinds \subseteq {"file", "sshfile", "sshsubvol"} /\ Kinds # {}
ASSUME BoundsAssumption == /\ Pieces \in Nat \ {0} /\ Room \in Nat \ {0}
                           /\ MaxSnaps \in Nat /\ MaxFaults \in Nat
                           /\ Formats # {}

VARIABLES
  kind, format,   (* what the configuration says of the mirror             *)
  taken, snaps,   (* snapshots taken so far (1..taken), those that exist   *)
  store,          (* the copy of each snapshot under each format's name    *)
  mark,           (* the completion files                                  *)
  pc, src, cur,   (* the sync: where it is, its list, its snapshot         *)
  base,           (* Parent_root of the running send; 0 for a full stream  *)
  sender, sent,   (* the goroutine that sends and what it has sent         *)
  copier, copied, (* the goroutine that copies and what it has copied      *)
  writer,         (* the remote command                                    *)
  failing,        (* the channel of errors holds one                       *)
  result,         (* how the last sync ended                               *)
  faults,         (* faults left                                           *)
  unflushed,      (* history: copies whose encoder failed to close         *)
  reformatted     (* history: the format was changed                       *)

source   == <<taken, snaps>>
mirror   == <<store, mark>>
pipeline == <<base, sender, sent, copier, copied, writer, failing>>
history  == <<unflushed, reformatted>>
vars == <<kind, format, source, mirror, pc, src, cur, pipeline, result, faults, history>>

Snaps   == 1..MaxSnaps
Remote  == kind # "file"
IsFile  == kind # "sshsubvol"
Copy(s) == store[s][format]

Put(s, what) == store' = [store EXCEPT ![s][format] = what]

Fault == faults > 0 /\ faults' = faults - 1

Init == /\ kind \in Kinds /\ format \in Formats
        /\ taken = 0 /\ snaps = {}
        /\ store = [s \in Snaps |-> [f \in Formats |-> "absent"]]
        /\ mark = [s \in Snaps |-> FALSE]
        /\ pc = "idle" /\ src = {} /\ cur = 0
        /\ base = 0 /\ sender = "off" /\ sent = 0 /\ copier = "off" /\ copied = 0
        /\ writer = "off" /\ failing = FALSE
        /\ result = "none" /\ faults = MaxFaults
        /\ unflushed = {} /\ reformatted = FALSE

-----------------------------------------------------------------------------
(* The source and the configuration.                                       *)

TakeSnapshot == /\ taken < MaxSnaps
                /\ taken' = taken + 1
                /\ snaps' = snaps \cup {taken + 1}
                /\ UNCHANGED <<kind, format, mirror, pc, src, cur, pipeline, result, faults, history>>

\* Retention by another process or by an overlapping run; the newest stays.
\* The kernel does not delete what it is sending or sending against.
Expire(s) == /\ s \in snaps /\ s < Max(snaps)
             /\ ~(sender = "send" /\ s \in {cur, base})
             /\ snaps' = snaps \ {s}
             /\ UNCHANGED <<kind, format, taken, mirror, pc, src, cur, pipeline, result, faults, history>>

\* The configured format is edited between two runs.
ChangeFormat(f) == /\ pc = "idle" /\ IsFile /\ f # format
                   /\ Fault
                   /\ format' = f
                   /\ reformatted' = TRUE
                   /\ UNCHANGED <<kind, source, mirror, pc, src, cur, pipeline, result, unflushed>>

-----------------------------------------------------------------------------
(* Sync and syncSnapshot (syncBtrfs).                                      *)

\* Seeded fault: the channel of errors outlives the snapshot.
PipelineKeepsErrors == /\ base' = 0 /\ sender' = "off" /\ sent' = 0 /\ copier' = "off" /\ copied' = 0
                       /\ writer' = "off" /\ failing' = failing

PipelineOff == /\ base' = 0 /\ sender' = "off" /\ sent' = 0 /\ copier' = "off" /\ copied' = 0
               /\ writer' = "off" /\ failing' = FALSE

Leave(res) == /\ pc' = "idle"
              /\ result' = res
              /\ PipelineOff
              /\ UNCHANGED <<kind, format, source, src, cur>>

StartSync == /\ pc = "idle" /\ snaps # {}
             /\ src' = snaps
             /\ cur' = 0
             /\ pc' = "pick"
             /\ result' = "none"
             /\ UNCHANGED <<kind, format, source, mirror, pipeline, faults, history>>

\* The completion file is there, whatever it was for; or the remote subvolume
\* has the snapshot's UUID as its received UUID.
Synced(s) == IF IsFile THEN mark[s] ELSE Copy(s) = "whole"

Ahead == {s \in src : s > cur}

\* snaputil.MapParents; the compressed mirrors send every snapshot in full.
ParentOf(s) == IF IsFile THEN 0 ELSE Max({0} \cup {t \in src : t < s})

\* os.Create truncates the local file at once.  A remote subvolume that is
\* not complete is deleted first.
PickSnapshot ==
  /\ pc = "pick" /\ Ahead # {}
  /\ cur' = Min(Ahead)
  /\ \/ /\ Synced(cur')
        /\ UNCHANGED <<store, pc, pipeline>>
     \/ /\ ~Synced(cur')
        /\ CASE kind = "file"      -> Put(cur', "part")
             [] kind = "sshfile"   -> UNCHANGED store
             [] kind = "sshsubvol" -> Put(cur', "absent")
        /\ pc' = "pipe"
        /\ base' = ParentOf(cur')
        /\ sender' = "open" /\ copier' = "copy"
        /\ writer' = IF Remote THEN "start" ELSE "off"
        /\ UNCHANGED <<sent, copied, failing>>
  /\ UNCHANGED <<kind, format, source, mark, src, result, faults, history>>

-----------------------------------------------------------------------------
(* The goroutine in btrfs.Send (pkg/btrfs/send.go).                        *)

\* The error of an option is dropped: without its parent the stream is a full
\* one.  When the snapshot itself is gone Send returns before it arranges to
\* close the pipe.
SendOpen == /\ sender = "open"
            /\ IF cur \in snaps
               THEN /\ sender' = "send"
                    /\ base' = IF base \in snaps THEN base ELSE 0
                    /\ UNCHANGED failing
               ELSE /\ sender' = "leaked"
                    /\ failing' = TRUE
                    /\ UNCHANGED base
            /\ UNCHANGED <<kind, format, source, mirror, pc, src, cur, sent, copier, copied, writer, result, faults, history>>

\* The garbage collector closes the pipe that nobody refers to any more.
PipeCollected == /\ sender = "leaked"
                 /\ sender' = "closed"
                 /\ UNCHANGED <<kind, format, source, mirror, pc, src, cur, base, sent, copier, copied, writer, failing, result, faults, history>>

\* Seeded fault: the stream has no end.
SendPieceOn == /\ sender = "send" /\ sent - copied < Room
               /\ sent' = sent + 1
               /\ UNCHANGED <<kind, format, source, mirror, pc, src, cur, base, sender, copier, copied, writer, failing, result, faults, history>>

SendPiece == /\ sender = "send" /\ sent < Pieces /\ sent - copied < Room
             /\ sent' = sent + 1
             /\ UNCHANGED <<kind, format, source, mirror, pc, src, cur, base, sender, copier, copied, writer, failing, result, faults, history>>

SendEnd == /\ sender = "send"
           /\ \/ /\ sent = Pieces
                 /\ UNCHANGED <<failing, faults>>
              \/ /\ Fault
                 /\ failing' = TRUE
           /\ sender' = "closed"
           /\ UNCHANGED <<kind, format, source, mirror, pc, src, cur, base, sent, copier, copied, writer, result, history>>

-----------------------------------------------------------------------------
(* The goroutine in io.Copy, with its deferred closes.                     *)

\* The local disk takes a piece, or the remote command does; over an io.Pipe
\* the copier waits for the reader, who may have given up.
CopyPiece == /\ copier = "copy" /\ copied < sent
             /\ Remote => writer = "run"
             /\ copied' = copied + 1
             /\ UNCHANGED <<kind, format, source, mirror, pc, src, cur, base, sender, sent, copier, writer, failing, result, faults, history>>

\* The local disk is full: the pipe is not read any further.
CopyFails == /\ copier = "copy" /\ copied < sent /\ kind = "file"
             /\ Fault
             /\ copier' = "done"
             /\ failing' = TRUE
             /\ UNCHANGED <<kind, format, source, mirror, pc, src, cur, base, sender, sent, copied, writer, result, history>>

\* What has arrived is complete when the sender reached its end.
Arrived == IF copied = Pieces THEN "whole" ELSE "part"

\* The stream ended: the deferred enc.Close writes what the encoder still
\* holds, and its error is dropped; over SSH the reader must take it.  The
\* standard input of a remote receive stays open.
CopyEnd == /\ copier = "copy" /\ copied = sent /\ sender = "closed"
           /\ kind = "sshfile" => writer = "run"
           /\ copier' = "done"
           /\ \/ /\ IF kind = "file" THEN Put(cur, Arrived) ELSE UNCHANGED store
                 /\ UNCHANGED <<faults, unflushed>>
              \/ /\ kind = "file"
                 /\ Fault
                 /\ unflushed' = unflushed \cup {cur}
                 /\ UNCHANGED store
           /\ UNCHANGED <<kind, format, source, mark, pc, src, cur, base, sender, sent, copied, writer, failing, result, reformatted>>

-----------------------------------------------------------------------------
(* The remote command: sshutil.WriteFile's dd, or btrfs receive.           *)

WriterStart == /\ writer = "start"
               /\ writer' = "run"
               /\ Put(cur, "part")
               /\ UNCHANGED <<kind, format, source, mark, pc, src, cur, base, sender, sent, copier, copied, failing, result, faults, history>>

\* dd ends when its input does; receive -e when it has read END.
WriterHasAll == /\ writer = "run"
                /\ IF kind = "sshfile" THEN copier = "done" ELSE copied = Pieces

WriterEnd == /\ WriterHasAll
             /\ writer' = "done"
             /\ Put(cur, Arrived)
             /\ UNCHANGED <<kind, format, source, mark, pc, src, cur, base, sender, sent, copier, copied, failing, result, faults, history>>

\* Seeded fault: the error of the remote command is not passed on.
WriteFileFailsQuietly == /\ kind = "sshfile" /\ writer \in {"start", "run"}
                         /\ Fault
                         /\ writer' = "failed"
                         /\ UNCHANGED <<kind, format, source, mirror, pc, src, cur, base, sender, sent, copier, copied, failing, result, history>>

\* WriteFile gives up and nobody reads its io.Pipe any more.
WriteFileFails == /\ kind = "sshfile" /\ writer \in {"start", "run"}
                  /\ Fault
                  /\ writer' = "failed"
                  /\ failing' = TRUE
                  /\ UNCHANGED <<kind, format, source, mirror, pc, src, cur, base, sender, sent, copier, copied, result, history>>

\* sess.Run returns an error and syncBtrfs with it, without waiting; what is
\* left of the pipeline ends when its writes fail.
ReceiveFails == /\ kind = "sshsubvol" /\ writer \in {"start", "run"}
                /\ Fault
                /\ Leave("error")
                /\ UNCHANGED <<mirror, history>>

-----------------------------------------------------------------------------
(* syncSnapshot waits for its goroutines; then the completion file.        *)

Joined == pc = "pipe" /\ sender = "closed" /\ copier = "done" /\ writer \in {"off", "done", "failed"}

\* Seeded fault: the errors of the goroutines are not looked at.
JoinBlind == /\ Joined
             /\ pc' = IF IsFile THEN "mark" ELSE "pick"
             /\ PipelineOff
             /\ UNCHANGED <<kind, format, source, mirror, src, cur, result, faults, history>>

Join == /\ Joined
        /\ \/ /\ failing
              /\ Leave("error")
           \/ /\ ~failing
              /\ pc' = IF IsFile THEN "mark" ELSE "pick"
              /\ PipelineOff
              /\ UNCHANGED <<kind, format, source, src, cur, result>>
        /\ UNCHANGED <<mirror, faults, history>>

Mark == /\ pc = "mark"
        /\ mark' = [mark EXCEPT ![cur] = TRUE]
        /\ pc' = "pick"
        /\ UNCHANGED <<kind, format, source, store, src, cur, pipeline, result, faults, history>>

AllSynced == /\ pc = "pick" /\ Ahead = {}
             /\ pc' = "prune"
             /\ UNCHANGED <<kind, format, source, mirror, src, cur, pipeline, result, faults, history>>

-----------------------------------------------------------------------------
(* Prune.                                                                  *)

\* Seeded fault: the newest snapshot is not kept.
NotAtSource(s, f) == store[s][f] # "absent" /\ s \notin src \ {Max(src)}

\* A file whose name, less the current format's suffix, is no snapshot's; a
\* read-only remote subvolume whose received UUID is no snapshot's.
Superfluous(s, f) == IF IsFile THEN store[s][f] # "absent" /\ (s \notin src \/ f # format)
                               ELSE store[s][f] = "whole" /\ s \notin src

PruneCopy(s, f) == /\ pc = "prune" /\ Superfluous(s, f)
                   /\ store' = [store EXCEPT ![s][f] = "absent"]
                   /\ UNCHANGED <<kind, format, source, mark, pc, src, cur, pipeline, result, faults, history>>

CopiesPruned == \A s \in Snaps, f \in Formats : ~Superfluous(s, f)

PruneMark(s) == /\ pc = "prune" /\ CopiesPruned
                /\ mark[s] /\ s \notin src
                /\ mark' = [mark EXCEPT ![s] = FALSE]
                /\ UNCHANGED <<kind, format, source, store, pc, src, cur, pipeline, result, faults, history>>

FinishRun == /\ pc = "prune" /\ CopiesPruned
             /\ \A s \in Snaps \ src : ~mark[s]
             /\ Leave("ok")
             /\ UNCHANGED <<mirror, faults, history>>

\* A call of the manager itself fails (mkdir, ssh, remove), or the process is
\* killed.  The remote command ends with its connection, and has stored the
\* stream all the same when it had all of it.
Stop == /\ pc # "idle"
        /\ Fault
        /\ Leave("error")
        /\ UNCHANGED <<mark, history>>
        /\ \/ UNCHANGED store
           \/ WriterHasAll /\ Put(cur, Arrived)

-----------------------------------------------------------------------------
Sender == SendOpen \/ PipeCollected \/ SendPiece \/ SendEnd
Copier == CopyPiece \/ CopyFails \/ CopyEnd
Writer == WriterStart \/ WriterEnd \/ WriteFileFails \/ ReceiveFails
Main   == \/ StartSync \/ PickSnapshot \/ Join \/ Mark \/ AllSynced \/ FinishRun
          \/ \E s \in Snaps : PruneMark(s) \/ \E f \in Formats : PruneCopy(s, f)

Next == \/ TakeSnapshot \/ Stop
        \/ \E s \in Snaps : Expire(s)
        \/ \E f \in Formats : ChangeFormat(f)
        \/ Sender \/ Copier \/ Writer \/ Main

Spec == Init /\ [][Next]_vars

\* The daemon starts a run on every tick, every run takes a first snapshot, the
\* goroutines are scheduled, the disk and the remote host answer.
FairSpec == /\ Spec
            /\ WF_vars(Sender) /\ WF_vars(Copier) /\ WF_vars(Writer) /\ WF_vars(Main)
            /\ WF_vars(taken = 0 /\ TakeSnapshot)
-----------------------------------------------------------------------------
\* Type correctness of the mirror and of the goroutines.
TypeOK == /\ kind \in Kinds /\ format \in Formats
          /\ taken \in 0..MaxSnaps /\ snaps \subseteq 1..taken
          /\ store \in [Snaps -> [Formats -> {"absent", "part", "whole"}]]
          /\ mark \in [Snaps -> BOOLEAN]
          /\ pc \in {"idle", "pick", "pipe", "mark", "prune"}
          /\ src \subseteq 1..taken /\ cur \in 0..MaxSnaps /\ base \in 0..MaxSnaps
          /\ sender \in {"off", "open", "send", "leaked", "closed"}
          /\ copier \in {"off", "copy", "done"}
          /\ writer \in {"off", "start", "run", "done", "failed"}
          /\ sent \in 0..Pieces /\ copied \in 0..sent /\ failing \in BOOLEAN
          /\ result \in {"none", "ok", "error"} /\ faults \in 0..MaxFaults
          /\ unflushed \subseteq Snaps /\ reformatted \in BOOLEAN

\* A snapshot that later runs will skip as synced has a complete copy: the
\* completion file is written after all three goroutines ended well.  Two
\* exceptions the code has: the encoder's Close failed without a word, or the
\* format was changed and Prune took the old file while the mark stayed.
SkippedIsWhole == \A s \in snaps :
                     mark[s] /\ s \notin unflushed /\ ~reformatted => Copy(s) = "whole"

\* After a run that reported success the mirror holds a complete copy of every
\* snapshot the run knew, and nothing of others, save pieces that a broken
\* remote receive left of a snapshot that has gone (prune lists read-only
\* subvolumes only).
OkMeansStored ==
  pc = "idle" /\ result = "ok" /\ ~reformatted =>
    /\ \A s \in src \ unflushed : Copy(s) = "whole"
    /\ \A s \in Snaps \ src : Copy(s) = "absent" \/ (~IsFile /\ Copy(s) = "part")

\* The complete copy of a snapshot that the source still has, and that the next
\* sync will skip, is never truncated, overwritten or removed, unless the format
\* was changed.
SyncedStay == [][\A s \in snaps \cap snaps' :
                   Copy(s) = "whole" /\ Synced(s) /\ ~reformatted' => Copy(s)' = "whole"]_vars

\* Where a sync waits for ever.  The local disk failed and nobody reads the
\* pipe; the remote dd failed and nobody reads the io.Pipe; the sender failed
\* and the remote receive, whose input is not closed, waits for END.
Hung == /\ pc = "pipe"
        /\ CASE kind = "file"      -> copier = "done" /\ sender = "send"
             [] kind = "sshfile"   -> writer = "failed" /\ copier = "copy"
             [] kind = "sshsubvol" -> sender = "closed" /\ sent < Pieces

\* Runs succeed again and again whatever failed before, except where a sync
\* hangs; a crash, a source that went away or a broken copy is made good.
Recovers == []<>(pc = "idle" /\ result = "ok") \/ <>[]Hung
=============================================================================
