-------------------------- MODULE StreamMirrorProofs -------------------------
(***************************************************************************)
(* Theorems about StreamMirror for every set of compression formats, every *)
(* length of a stream, every capacity of the pipe, and every number of     *)
(* snapshots and faults.                                                   *)
(***************************************************************************)
EXTENDS StreamMirror, WellFoundedInduction, TLAPS

\* A snapshot that no run has seen yet.
Untouched(s) == ~mark[s] /\ \A f \in Formats : store[s][f] = "absent"

\* The copy of a snapshot is what it should be, with the exceptions that
\* SkippedIsWhole and OkMeansStored make.
Good(s) == Copy(s) = "whole" \/ s \in unflushed \/ reformatted

\* No run has touched what is taken after it began, or not yet.
Fresh == /\ \A s \in Snaps : s > taken => Untouched(s)
         /\ pc # "idle" => \A s \in snaps \ src : Untouched(s)

\* A completion file stands beside a good copy, of every snapshot that exists
\* or that the sync in progress knows; remote subvolumes have none.
Marked == /\ \A s \in snaps \cup src : mark[s] => Good(s)
          /\ ~IsFile => \A s \in Snaps : ~mark[s]

\* The snapshots that the sync in progress, or the last one, has behind it.
Behind == IF pc = "prune" \/ (pc = "idle" /\ result = "ok") THEN src
          ELSE IF pc = "pick" THEN {s \in src : s <= cur}
          ELSE IF pc \in {"pipe", "mark"} THEN {s \in src : s < cur} ELSE {}

\* What the goroutines know of each other: without an error the sender has
\* closed the pipe after the last piece, and the copier has ended after copying it.
Piping ==
    /\ pc = "pipe" => /\ cur \in src /\ (IsFile => ~mark[cur])
                      /\ sender # "off" /\ copier # "off" /\ (Remote <=> writer # "off")
    /\ pc # "pipe" => sender = "off" /\ copier = "off" /\ writer = "off" /\ sent = 0 /\ copied = 0 /\ ~failing
    /\ sender = "leaked" => failing
    /\ sender = "closed" /\ ~failing => sent = Pieces
    /\ copier = "done" /\ ~failing => copied = sent /\ sender = "closed"
    /\ kind = "file" /\ copier = "done" /\ ~failing => Good(cur)
    /\ Remote /\ writer = "done" /\ ~failing => Good(cur)
    /\ writer = "failed" => failing
    /\ kind = "sshsubvol" /\ writer \in {"start", "run"} => Copy(cur) # "whole"
    /\ pc = "mark" => IsFile /\ cur \in src /\ Good(cur)

\* The inductive invariant.
IInv == /\ TypeOK /\ Fresh /\ Marked /\ Piping
        /\ \A s \in Behind : Good(s)
        /\ OkMeansStored

-----------------------------------------------------------------------------
\* The types in four parts: the source with the configuration, the mirror, the
\* sync, and the pipeline.
States == {"absent", "part", "whole"}

SourceOK == /\ kind \in Kinds /\ format \in Formats
            /\ taken \in 0..MaxSnaps /\ snaps \subseteq 1..taken
            /\ faults \in 0..MaxFaults /\ reformatted \in BOOLEAN
MirrorOK == /\ store \in [Snaps -> [Formats -> States]]
            /\ mark \in [Snaps -> BOOLEAN]
            /\ unflushed \subseteq Snaps
SyncOK   == /\ pc \in {"idle", "pick", "pipe", "mark", "prune"}
            /\ src \subseteq 1..taken /\ cur \in 0..MaxSnaps /\ base \in 0..MaxSnaps
            /\ result \in {"none", "ok", "error"}
PipeOK   == /\ sender \in {"off", "open", "send", "leaked", "closed"}
            /\ copier \in {"off", "copy", "done"}
            /\ writer \in {"off", "start", "run", "done", "failed"}
            /\ sent \in 0..Pieces /\ copied \in 0..sent /\ failing \in BOOLEAN

LEMMA TypeParts == TypeOK <=> SourceOK /\ MirrorOK /\ SyncOK /\ PipeOK
BY Zenon DEF TypeOK, SourceOK, MirrorOK, SyncOK, PipeOK, States

\* Snapshots are numbers up to the last one taken.
LEMMA SnapFacts ==
  ASSUME TypeOK
  PROVE  /\ taken \in Nat /\ MaxSnaps \in Nat /\ taken <= MaxSnaps /\ cur \in Nat
         /\ snaps \subseteq 1..taken /\ src \subseteq 1..taken
         /\ 1..taken \subseteq Snaps /\ Snaps \subseteq Nat
BY TypeParts, BoundsAssumption DEF SourceOK, SyncOK, Snaps

\* What is written to one copy leaves every other as it is.
LEMMA PutOne ==
  ASSUME TypeOK, NEW s \in Snaps, NEW what \in States, Put(s, what)
  PROVE  /\ store' \in [Snaps -> [Formats -> States]]
         /\ store'[s][format] = what
         /\ \A t \in Snaps, f \in Formats : t # s \/ f # format => store'[t][f] = store[t][f]
<1>1. store \in [Snaps -> [Formats -> States]] /\ format \in Formats
  BY TypeParts DEF MirrorOK, SourceOK
<1>2. QED
  BY <1>1 DEF Put

\* A list of snapshots that is not empty has an oldest and a newest.
LEMMA Ends ==
  ASSUME NEW n \in Nat, NEW S \in SUBSET (0..n), S # {}
  PROVE  /\ Min(S) \in S /\ \A y \in S : Min(S) <= y
         /\ Max(S) \in S /\ \A y \in S : Max(S) >= y
<1>1. ASSUME NEW T \in SUBSET Nat, T # {} PROVE \E x \in T : \A y \in T : x <= y
  <2>1. PICK x \in T : \A y \in T : ~(<<y, x>> \in OpToRel(<, Nat))
    BY <1>1, WFMin, NatLessThanWellFounded, Zenon
  <2>2. \A y \in T : ~(y < x)
    BY <2>1 DEF OpToRel
  <2>3. QED
    BY <2>2
<1>2. PICK x \in S : \A y \in S : x <= y
  BY <1>1
<1> DEFINE T == {n - s : s \in S}
<1>3. T \in SUBSET Nat /\ T # {}
  OBVIOUS
<1>4. PICK t \in T : \A u \in T : t <= u
  BY <1>1, <1>3
<1>5. PICK z \in S : t = n - z
  OBVIOUS
<1>6. \A y \in S : z >= y
  BY <1>4, <1>5
<1>7. QED
  BY <1>2, <1>6 DEF Min, Max

\* The snapshot a sync takes next is the oldest of those ahead.
LEMMA NextAhead ==
  ASSUME TypeOK, Ahead # {}
  PROVE  Min(Ahead) \in src /\ Min(Ahead) > cur /\ \A s \in src : s < Min(Ahead) => s <= cur
<1>1. Ahead \in SUBSET (0..taken) /\ taken \in Nat /\ cur \in Nat /\ src \subseteq Nat
  BY SnapFacts DEF Ahead
<1>2. Min(Ahead) \in Ahead /\ \A s \in Ahead : Min(Ahead) <= s
  BY <1>1, Ends
<1>3. \A s \in src : s \in Ahead <=> s > cur
  BY DEF Ahead
<1>4. QED
  BY <1>1, <1>2, <1>3 DEF Ahead

LEMMA ParentKnown ==
  ASSUME TypeOK, NEW s \in Snaps
  PROVE  ParentOf(s) \in 0..MaxSnaps
<1> DEFINE T == {0} \cup {t \in src : t < s}
<1>1. T \in SUBSET (0..MaxSnaps) /\ T # {} /\ MaxSnaps \in Nat
  BY SnapFacts DEF Snaps
<1>2. Max(T) \in T
  BY <1>1, Ends
<1>3. QED
  BY <1>1, <1>2 DEF ParentOf

-----------------------------------------------------------------------------
\* The snapshot that is written is one the sync knows, unmarked, and not complete
\* where that makes it count as synced.
Writes(s) == /\ s \in src /\ s \in Snaps
             /\ UNCHANGED <<kind, format, mark, src, snaps, taken, reformatted>>
             /\ \E what \in States : Put(s, what)
             /\ IsFile => ~mark[s]
             /\ ~IsFile /\ Copy(s) = "whole" => Copy(s)' = "whole"
             /\ \/ pc = "pick" /\ pc' = "pipe" /\ cur' = Min(Ahead) /\ Ahead # {} /\ s = cur'
                \/ pc = "pipe" /\ pc' = "pipe" /\ cur' = cur /\ s = cur
                \/ pc = "pipe" /\ pc' = "idle" /\ result' = "error" /\ s = cur

Prunes == \E s \in Snaps, f \in Formats : PruneCopy(s, f)

LEMMA CurKnown ==
  ASSUME TypeOK, Piping, pc = "pipe"
  PROVE  cur \in src /\ cur \in Snaps
BY SnapFacts DEF Piping

LEMMA CopyEndWrites ==
  ASSUME TypeOK, Piping, CopyEnd, store' # store
  PROVE  Writes(cur)
<1>1. pc = "pipe" /\ cur \in src /\ cur \in Snaps /\ kind = "file"
  BY CurKnown DEF CopyEnd, Piping
<1>2. Put(cur, Arrived) /\ Arrived \in States /\ IsFile /\ ~mark[cur]
  BY <1>1 DEF CopyEnd, Arrived, States, IsFile, Piping
<1>3. QED
  BY <1>1, <1>2 DEF CopyEnd, Writes, source

LEMMA WriterWrites ==
  ASSUME TypeOK, Piping, WriterStart \/ WriterEnd
  PROVE  Writes(cur)
<1> USE DEF source, history
<1>1. pc = "pipe" /\ cur \in src /\ cur \in Snaps /\ (IsFile => ~mark[cur])
  BY CurKnown DEF WriterStart, WriterEnd, WriterHasAll, Piping
<1>2. kind \in {"file", "sshfile", "sshsubvol"}
  BY TypeParts, KindsAssumption DEF SourceOK
<1>3. ~IsFile => Copy(cur) # "whole"
  BY <1>2 DEF IsFile, WriterStart, WriterEnd, WriterHasAll, Piping
<1>4. CASE WriterStart
  <2>1. Put(cur, "part") /\ "part" \in States
    BY <1>4 DEF WriterStart, States
  <2>2. QED
    BY <1>1, <1>3, <1>4, <2>1 DEF WriterStart, Writes
<1>5. CASE WriterEnd
  <2>1. Put(cur, Arrived) /\ Arrived \in States
    BY <1>5 DEF WriterEnd, States, Arrived
  <2>2. QED
    BY <1>1, <1>3, <1>5, <2>1 DEF WriterEnd, Writes
<1>6. QED
  BY <1>4, <1>5

LEMMA StopWrites ==
  ASSUME TypeOK, Piping, Stop, store' # store
  PROVE  Writes(cur)
<1> USE DEF source, history
<1>1. WriterHasAll /\ Put(cur, Arrived) /\ Arrived \in States
  BY DEF Stop, Arrived, States
<1>2. pc = "pipe" /\ cur \in src /\ cur \in Snaps /\ (IsFile => ~mark[cur])
  BY <1>1, CurKnown DEF WriterHasAll, Piping
<1>3. kind \in {"file", "sshfile", "sshsubvol"}
  BY TypeParts, KindsAssumption DEF SourceOK
<1>4. ~IsFile => Copy(cur) # "whole"
  BY <1>1, <1>3 DEF IsFile, WriterHasAll, Piping
<1>5. QED
  BY <1>1, <1>2, <1>4 DEF Stop, Leave, Writes

LEMMA PickWrites ==
  ASSUME TypeOK, Piping, PickSnapshot, store' # store
  PROVE  \E s \in Snaps : Writes(s)
<1> USE DEF source, history
<1>1. PICK s : s = cur'
  OBVIOUS
<1>2. s = Min(Ahead) /\ Ahead # {} /\ s \in src /\ s \in Snaps /\ pc = "pick"
  BY <1>1, NextAhead, SnapFacts DEF PickSnapshot
<1>3. ~Synced(s) /\ pc' = "pipe"
  BY <1>1 DEF PickSnapshot
<1>4. kind \in {"file", "sshfile", "sshsubvol"}
  BY TypeParts, KindsAssumption DEF SourceOK
<1>5. \E what \in States : Put(s, what)
  BY <1>1, <1>3, <1>4 DEF PickSnapshot, States
<1>6. (IsFile => ~mark[s]) /\ (~IsFile => Copy(s) # "whole")
  BY <1>3 DEF Synced
<1>7. UNCHANGED <<kind, format, mark, src, snaps, taken, reformatted>>
  BY DEF PickSnapshot
<1>8. Writes(s)
  BY <1>1, <1>2, <1>3, <1>5, <1>6, <1>7 DEF Writes
<1>9. QED
  BY <1>2, <1>8

\* What a step can do to the store.
LEMMA StoreChange ==
  ASSUME TypeOK, Piping, [Next]_vars
  PROVE  store' = store \/ (\E s \in Snaps : Writes(s)) \/ Prunes
<1> USE DEF mirror
<1>1. CASE PickSnapshot \/ CopyEnd \/ WriterStart \/ WriterEnd \/ Stop
  <2>0. Writes(cur) => cur \in Snaps
    BY DEF Writes
  <2>1. CASE PickSnapshot
    BY <2>1, PickWrites
  <2>2. CASE CopyEnd
    BY <2>0, <2>2, CopyEndWrites
  <2>3. CASE WriterStart \/ WriterEnd
    BY <2>0, <2>3, WriterWrites
  <2>4. CASE Stop
    BY <2>0, <2>4, StopWrites
  <2>5. QED
    BY <1>1, <2>1, <2>2, <2>3, <2>4
<1>2. CASE TakeSnapshot \/ (\E s \in Snaps : Expire(s)) \/ \E f \in Formats : ChangeFormat(f)
  BY <1>2 DEF TakeSnapshot, Expire, ChangeFormat
<1>3. CASE Sender \/ CopyPiece \/ CopyFails \/ WriteFileFails \/ ReceiveFails
  BY <1>3 DEF Sender, SendOpen, PipeCollected, SendPiece, SendEnd, CopyPiece, CopyFails,
     WriteFileFails, ReceiveFails
<1>4. CASE StartSync \/ Join \/ Mark \/ AllSynced \/ FinishRun \/ \E s \in Snaps : PruneMark(s)
  BY <1>4 DEF StartSync, Join, Mark, AllSynced, FinishRun, PruneMark
<1>5. CASE \E s \in Snaps, f \in Formats : PruneCopy(s, f)
  BY <1>5 DEF Prunes
<1>6. CASE UNCHANGED vars
  BY <1>6 DEF vars
<1>7. QED
  BY <1>1, <1>2, <1>3, <1>4, <1>5, <1>6 DEF Next, Copier, Writer, Main

\* Nothing else than the sync itself and its Prune touches a completion file, and
\* nothing else than a copier adds to the copies that were not flushed.
LEMMA MarkChange ==
  ASSUME [Next]_vars
  PROVE  mark' = mark \/ Mark \/ \E s \in Snaps : PruneMark(s)
<1> USE DEF mirror
<1>1. CASE TakeSnapshot \/ (\E s \in Snaps : Expire(s)) \/ \E f \in Formats : ChangeFormat(f)
  BY <1>1 DEF TakeSnapshot, Expire, ChangeFormat
<1>2. CASE Sender \/ Copier
  BY <1>2 DEF Sender, SendOpen, PipeCollected, SendPiece, SendEnd, Copier, CopyPiece, CopyFails, CopyEnd
<1>3. CASE Writer \/ Stop
  BY <1>3 DEF Writer, WriterStart, WriterEnd, WriteFileFails, ReceiveFails, Stop
<1>4. CASE StartSync \/ PickSnapshot \/ Join \/ AllSynced \/ FinishRun
  BY <1>4 DEF StartSync, PickSnapshot, Join, AllSynced, FinishRun
<1>5. CASE \E s \in Snaps, f \in Formats : PruneCopy(s, f)
  BY <1>5 DEF PruneCopy
<1>6. CASE UNCHANGED vars
  BY <1>6 DEF vars
<1>7. QED
  BY <1>1, <1>2, <1>3, <1>4, <1>5, <1>6 DEF Next, Main

LEMMA UnflushedChange ==
  ASSUME TypeOK, Piping, [Next]_vars
  PROVE  unflushed' = unflushed \/ (pc = "pipe" /\ unflushed' = unflushed \cup {cur})
<1> USE DEF history
<1>1. CASE TakeSnapshot \/ (\E s \in Snaps : Expire(s)) \/ \E f \in Formats : ChangeFormat(f)
  BY <1>1 DEF TakeSnapshot, Expire, ChangeFormat
<1>2. CASE Sender \/ Copier
  BY <1>2 DEF Sender, SendOpen, PipeCollected, SendPiece, SendEnd, Copier, CopyPiece, CopyFails, CopyEnd, Piping
<1>3. CASE Writer \/ Stop
  BY <1>3 DEF Writer, WriterStart, WriterEnd, WriteFileFails, ReceiveFails, Stop
<1>4. CASE StartSync \/ PickSnapshot \/ Join \/ Mark \/ AllSynced \/ FinishRun
  BY <1>4 DEF StartSync, PickSnapshot, Join, Mark, AllSynced, FinishRun
<1>5. CASE (\E s \in Snaps : PruneMark(s)) \/ \E s \in Snaps, f \in Formats : PruneCopy(s, f)
  BY <1>5 DEF PruneMark, PruneCopy
<1>6. CASE UNCHANGED vars
  BY <1>6 DEF vars
<1>7. QED
  BY <1>1, <1>2, <1>3, <1>4, <1>5, <1>6 DEF Next, Main

-----------------------------------------------------------------------------
\* The types are kept by every step.
LEMMA InitTypeOK == Init => TypeOK
<1> SUFFICES ASSUME Init PROVE SourceOK /\ MirrorOK /\ SyncOK /\ PipeOK
  BY TypeParts
<1>1. MirrorOK
  BY DEF Init, MirrorOK, States
<1>2. /\ 0 \in 0..MaxSnaps /\ MaxFaults \in 0..MaxFaults /\ 0 \in 0..Pieces /\ 0 \in 0..0
      /\ {} \subseteq 1..0
  BY BoundsAssumption
<1>3. SourceOK /\ SyncOK
  BY <1>2, Zenon DEF Init, SourceOK, SyncOK
<1>4. PipeOK
  BY <1>2, Zenon DEF Init, PipeOK
<1>5. QED
  BY <1>1, <1>3, <1>4

LEMMA SourceStep == TypeOK /\ [Next]_vars => SourceOK'
<1> SUFFICES ASSUME TypeOK, SourceOK, [Next]_vars PROVE SourceOK'
  BY TypeParts
<1> USE DEF source, mirror, pipeline, history
<1>f. Fault => faults' \in 0..MaxFaults
  BY BoundsAssumption DEF Fault, SourceOK
<1>1. CASE UNCHANGED vars
  BY <1>1 DEF vars, SourceOK
<1>2. CASE TakeSnapshot
  <2>1. taken' \in 0..MaxSnaps /\ snaps' \subseteq 1..taken'
    BY <1>2, SnapFacts DEF TakeSnapshot
  <2>2. QED
    BY <1>2, <2>1 DEF TakeSnapshot, SourceOK
<1>3. ASSUME NEW s \in Snaps, Expire(s) PROVE SourceOK'
  BY <1>3 DEF Expire, SourceOK
<1>4. ASSUME NEW f \in Formats, ChangeFormat(f) PROVE SourceOK'
  BY <1>4, <1>f DEF ChangeFormat, SourceOK
<1>5. ASSUME \/ UNCHANGED faults
             \/ Fault,
             UNCHANGED <<kind, format, source, reformatted>>
      PROVE  SourceOK'
  BY <1>5, <1>f DEF SourceOK
<1>6. CASE Sender
  BY <1>6, <1>5 DEF Sender, SendOpen, PipeCollected, SendPiece, SendEnd
<1>7. CASE Copier
  BY <1>7, <1>5 DEF Copier, CopyPiece, CopyFails, CopyEnd
<1>8. CASE Writer \/ Stop
  BY <1>8, <1>5 DEF Writer, WriterStart, WriterEnd, WriteFileFails, ReceiveFails, Stop, Leave
<1>9. CASE StartSync \/ PickSnapshot \/ Join \/ Mark \/ AllSynced \/ FinishRun
  BY <1>9, <1>5 DEF StartSync, PickSnapshot, Join, Mark, AllSynced, FinishRun, Leave
<1>10. ASSUME NEW s \in Snaps, NEW f \in Formats, PruneMark(s) \/ PruneCopy(s, f) PROVE SourceOK'
  BY <1>10, <1>5 DEF PruneMark, PruneCopy
<1>11. CASE \E s \in Snaps : PruneMark(s)
  BY <1>11, <1>5 DEF PruneMark
<1>12. QED
  BY <1>1, <1>2, <1>3, <1>4, <1>6, <1>7, <1>8, <1>9, <1>10, <1>11 DEF Next, Main

LEMMA MirrorStep == TypeOK /\ Piping /\ [Next]_vars => MirrorOK'
<1> SUFFICES ASSUME TypeOK, Piping, MirrorOK, [Next]_vars PROVE MirrorOK'
  BY TypeParts
<1> USE DEF source, mirror, pipeline, history
<1>1. store' \in [Snaps -> [Formats -> States]]
  <2>1. ASSUME NEW s \in Snaps, Writes(s) PROVE store' \in [Snaps -> [Formats -> States]]
    BY <2>1, PutOne DEF Writes
  <2>2. CASE Prunes
    BY <2>2 DEF Prunes, PruneCopy, MirrorOK, States
  <2>3. QED
    BY <2>1, <2>2, StoreChange DEF MirrorOK
<1>2. mark' = mark \/ Mark \/ \E s \in Snaps : PruneMark(s)
  BY MarkChange
<1>3. mark' \in [Snaps -> BOOLEAN]
  BY <1>2 DEF Mark, PruneMark, MirrorOK
<1>4. unflushed' \subseteq Snaps
  BY UnflushedChange, CurKnown DEF MirrorOK
<1>5. QED
  BY <1>1, <1>3, <1>4 DEF MirrorOK

LEMMA SyncStep == TypeOK /\ [Next]_vars => SyncOK'
<1> SUFFICES ASSUME TypeOK, SyncOK, [Next]_vars PROVE SyncOK'
  BY TypeParts
<1> USE DEF source, mirror, pipeline, history
<1>1. CASE UNCHANGED vars
  BY <1>1 DEF vars, SyncOK
<1>2. CASE TakeSnapshot
  <2>1. 1..taken \subseteq 1..taken'
    BY <1>2, SnapFacts DEF TakeSnapshot
  <2>2. QED
    BY <1>2, <2>1 DEF TakeSnapshot, SyncOK
<1>3. ASSUME NEW s \in Snaps, Expire(s) PROVE SyncOK'
  BY <1>3 DEF Expire, SyncOK
<1>4. ASSUME NEW f \in Formats, ChangeFormat(f) PROVE SyncOK'
  BY <1>4 DEF ChangeFormat, SyncOK
<1>5. CASE Sender
  <2>1. UNCHANGED <<pc, taken, src, cur, result>> /\ base' \in {base, 0}
    BY <1>5 DEF Sender, SendOpen, PipeCollected, SendPiece, SendEnd
  <2>2. QED
    BY <2>1, BoundsAssumption DEF SyncOK
<1>6. CASE Copier
  BY <1>6 DEF Copier, CopyPiece, CopyFails, CopyEnd, SyncOK
<1>l. ASSUME NEW res \in {"ok", "error"}, Leave(res) PROVE SyncOK'
  BY <1>l, BoundsAssumption DEF Leave, PipelineOff, SyncOK
<1>7. CASE Writer
  BY <1>7, <1>l DEF Writer, WriterStart, WriterEnd, WriteFileFails, ReceiveFails, SyncOK
<1>8. CASE Stop \/ FinishRun
  BY <1>8, <1>l DEF Stop, FinishRun
<1>9. CASE StartSync
  BY <1>9, SnapFacts DEF StartSync, SyncOK
<1>10. CASE PickSnapshot
  <2>1. PICK s : s = cur'
    OBVIOUS
  <2>2. s \in Snaps /\ s \in 0..MaxSnaps
    BY <1>10, <2>1, NextAhead, SnapFacts DEF PickSnapshot, Snaps
  <2>3. ParentOf(s) \in 0..MaxSnaps
    BY <2>2, ParentKnown
  <2>4. base' = base \/ base' = ParentOf(s)
    BY <1>10, <2>1 DEF PickSnapshot
  <2>5. QED
    BY <1>10, <2>1, <2>2, <2>3, <2>4 DEF PickSnapshot, SyncOK
<1>11. CASE Join
  <2>1. CASE Leave("error")
    BY <2>1, <1>l
  <2>2. CASE ~Leave("error")
    <3>1. pc' \in {"mark", "pick"} /\ UNCHANGED <<taken, src, cur, result>> /\ base' = 0
      BY <1>11, <2>2 DEF Join, PipelineOff
    <3>2. QED
      BY <3>1, BoundsAssumption DEF SyncOK
  <2>3. QED
    BY <2>1, <2>2
<1>12. CASE Mark \/ AllSynced
  BY <1>12 DEF Mark, AllSynced, SyncOK
<1>13. ASSUME NEW s \in Snaps, PruneMark(s) PROVE SyncOK'
  BY <1>13 DEF PruneMark, SyncOK
<1>14. ASSUME NEW s \in Snaps, NEW f \in Formats, PruneCopy(s, f) PROVE SyncOK'
  BY <1>14 DEF PruneCopy, SyncOK
<1>15. QED
  BY <1>1, <1>2, <1>3, <1>4, <1>5, <1>6, <1>7, <1>8, <1>9, <1>10, <1>11, <1>12, <1>13, <1>14
     DEF Next, Main

LEMMA PipeStep == TypeOK /\ [Next]_vars => PipeOK'
<1> SUFFICES ASSUME TypeOK, PipeOK, [Next]_vars PROVE PipeOK'
  BY TypeParts
<1> USE DEF source, mirror, pipeline, history
<1>b. Pieces \in Nat
  BY BoundsAssumption
<1>o. ASSUME PipelineOff PROVE PipeOK'
  <2>1. 0 \in 0..Pieces /\ 0 \in 0..0
    BY <1>b
  <2>2. QED
    BY <1>o, <2>1, Zenon DEF PipelineOff, PipeOK
<1>1. CASE UNCHANGED vars
  BY <1>1 DEF vars, PipeOK
<1>2. CASE TakeSnapshot
  BY <1>2 DEF TakeSnapshot, PipeOK
<1>3. ASSUME NEW s \in Snaps, Expire(s) PROVE PipeOK'
  BY <1>3 DEF Expire, PipeOK
<1>4. ASSUME NEW f \in Formats, ChangeFormat(f) PROVE PipeOK'
  BY <1>4 DEF ChangeFormat, PipeOK
<1>5. CASE SendOpen \/ PipeCollected \/ SendEnd
  BY <1>5 DEF SendOpen, PipeCollected, SendEnd, PipeOK
<1>6. CASE SendPiece
  <2>1. sent' \in 0..Pieces /\ copied \in 0..sent'
    BY <1>6, <1>b DEF SendPiece, PipeOK
  <2>2. QED
    BY <1>6, <2>1 DEF SendPiece, PipeOK
<1>7. CASE CopyPiece
  <2>1. copied' \in 0..sent
    BY <1>7, <1>b DEF CopyPiece, PipeOK
  <2>2. QED
    BY <1>7, <2>1 DEF CopyPiece, PipeOK
<1>8. CASE CopyFails \/ CopyEnd
  BY <1>8 DEF CopyFails, CopyEnd, PipeOK
<1>9. CASE Writer
  BY <1>9, <1>o DEF Writer, WriterStart, WriterEnd, WriteFileFails, ReceiveFails, Leave, PipeOK
<1>10. CASE Stop \/ FinishRun \/ Join
  BY <1>10, <1>o DEF Stop, FinishRun, Join, Leave
<1>11. CASE StartSync \/ Mark \/ AllSynced
  BY <1>11 DEF StartSync, Mark, AllSynced, PipeOK
<1>12. CASE PickSnapshot
  BY <1>12 DEF PickSnapshot, PipeOK
<1>13. ASSUME NEW s \in Snaps, PruneMark(s) PROVE PipeOK'
  BY <1>13 DEF PruneMark, PipeOK
<1>14. ASSUME NEW s \in Snaps, NEW f \in Formats, PruneCopy(s, f) PROVE PipeOK'
  BY <1>14 DEF PruneCopy, PipeOK
<1>15. QED
  BY <1>1, <1>2, <1>3, <1>4, <1>5, <1>6, <1>7, <1>8, <1>9, <1>10, <1>11, <1>12, <1>13, <1>14
     DEF Next, Main, Sender, Copier

LEMMA TypeStep == TypeOK /\ Piping /\ [Next]_vars => TypeOK'
<1> SUFFICES ASSUME TypeOK, Piping, [Next]_vars PROVE TypeOK'
  OBVIOUS
<1>1. SourceOK' /\ MirrorOK' /\ SyncOK' /\ PipeOK'
  BY SourceStep, MirrorStep, SyncStep, PipeStep
<1>2. QED
  BY <1>1, Zenon DEF TypeOK, SourceOK, MirrorOK, SyncOK, PipeOK, States

-----------------------------------------------------------------------------
\* What is taken while a sync is on stays untouched until the next.
LEMMA InitFresh == Init => Fresh
BY DEF Init, Fresh, Untouched

\* What a step leaves of the source and of the list of a sync.
LEMMA SourceChange ==
  ASSUME [Next]_vars
  PROVE  /\ (taken' = taken /\ snaps' \subseteq snaps) \/ TakeSnapshot
         /\ (src' = src /\ (pc' # "idle" => pc # "idle")) \/ StartSync
         /\ kind' = kind
<1> USE DEF source, mirror, pipeline, history
<1>1. CASE TakeSnapshot \/ (\E s \in Snaps : Expire(s)) \/ \E f \in Formats : ChangeFormat(f)
  BY <1>1 DEF TakeSnapshot, Expire, ChangeFormat
<1>2. CASE Sender \/ Copier
  BY <1>2 DEF Sender, SendOpen, PipeCollected, SendPiece, SendEnd, Copier, CopyPiece, CopyFails, CopyEnd
<1>3. CASE Writer \/ Stop
  BY <1>3 DEF Writer, WriterStart, WriterEnd, WriteFileFails, ReceiveFails, Stop, Leave
<1>4. CASE StartSync \/ PickSnapshot \/ Join \/ Mark \/ AllSynced \/ FinishRun
  BY <1>4 DEF StartSync, PickSnapshot, Join, Joined, Mark, AllSynced, FinishRun, Leave
<1>5. CASE (\E s \in Snaps : PruneMark(s)) \/ \E s \in Snaps, f \in Formats : PruneCopy(s, f)
  BY <1>5 DEF PruneMark, PruneCopy
<1>6. CASE UNCHANGED vars
  BY <1>6 DEF vars
<1>7. QED
  BY <1>1, <1>2, <1>3, <1>4, <1>5, <1>6 DEF Next, Main

\* Only what the sync's list holds is written or marked.
LEMMA StaysUntouched ==
  ASSUME TypeOK, Piping, [Next]_vars, NEW s \in Snaps, Untouched(s), s \notin src
  PROVE  Untouched(s)'
<1>1. \A f \in Formats : store'[s][f] = "absent"
  <2>1. ASSUME NEW t \in Snaps, Writes(t) PROVE \A f \in Formats : store'[s][f] = "absent"
    BY <2>1, PutOne DEF Writes, Untouched
  <2>2. CASE Prunes
    BY <2>2, TypeParts DEF Prunes, PruneCopy, MirrorOK, Untouched
  <2>3. QED
    BY <2>1, <2>2, StoreChange DEF Untouched
<1>2. ~mark'[s]
  BY MarkChange, TypeParts DEF Mark, PruneMark, Piping, MirrorOK, Untouched
<1>3. QED
  BY <1>1, <1>2 DEF Untouched

LEMMA FreshStep == TypeOK /\ Piping /\ Fresh /\ [Next]_vars => Fresh'
<1> SUFFICES ASSUME TypeOK, Piping, Fresh, [Next]_vars PROVE Fresh'
  OBVIOUS
<1>1. ASSUME NEW s \in Snaps, s > taken' PROVE Untouched(s)'
  <2>1. s > taken
    BY <1>1, SourceChange, SnapFacts DEF TakeSnapshot
  <2>2. s \notin src
    BY <2>1, SnapFacts
  <2>3. QED
    BY <2>1, <2>2, StaysUntouched DEF Fresh
<1>2. ASSUME pc' # "idle", NEW s \in snaps', s \notin src' PROVE Untouched(s)'
  <2>1. CASE StartSync
    BY <1>2, <2>1 DEF StartSync, source
  <2>2. CASE ~StartSync
    <3>1. pc # "idle" /\ s \notin src
      BY <1>2, <2>2, SourceChange
    <3>2. s \in Snaps /\ Untouched(s)
      <4>1. CASE s \in snaps
        BY <3>1, <4>1, SnapFacts DEF Fresh
      <4>2. CASE s = taken + 1 /\ TakeSnapshot
        BY <4>2, SnapFacts DEF TakeSnapshot, Fresh, Snaps
      <4>3. QED
        BY <1>2, <4>1, <4>2, SourceChange DEF TakeSnapshot
    <3>3. QED
      BY <3>1, <3>2, StaysUntouched
  <2>3. QED
    BY <2>1, <2>2
<1>3. QED
  BY <1>1, <1>2 DEF Fresh

-----------------------------------------------------------------------------
\* A good copy that the sync knows, or that exists while no sync is on, stays
\* good unless it is the one being written.
LEMMA FormatChange ==
  ASSUME [Next]_vars
  PROVE  (format' = format /\ reformatted' = reformatted) \/ reformatted' = TRUE
<1> USE DEF history
<1>1. CASE TakeSnapshot \/ (\E s \in Snaps : Expire(s)) \/ \E f \in Formats : ChangeFormat(f)
  BY <1>1 DEF TakeSnapshot, Expire, ChangeFormat
<1>2. CASE Sender \/ Copier
  BY <1>2 DEF Sender, SendOpen, PipeCollected, SendPiece, SendEnd, Copier, CopyPiece, CopyFails, CopyEnd
<1>3. CASE Writer \/ Stop
  BY <1>3 DEF Writer, WriterStart, WriterEnd, WriteFileFails, ReceiveFails, Stop, Leave
<1>4. CASE StartSync \/ PickSnapshot \/ Join \/ Mark \/ AllSynced \/ FinishRun
  BY <1>4 DEF StartSync, PickSnapshot, Join, Mark, AllSynced, FinishRun, Leave
<1>5. CASE (\E s \in Snaps : PruneMark(s)) \/ \E s \in Snaps, f \in Formats : PruneCopy(s, f)
  BY <1>5 DEF PruneMark, PruneCopy
<1>6. CASE UNCHANGED vars
  BY <1>6 DEF vars
<1>7. QED
  BY <1>1, <1>2, <1>3, <1>4, <1>5, <1>6 DEF Next, Main

\* A copy under the configured format that is not written stays as it is.
LEMMA CopyStays ==
  ASSUME TypeOK, Piping, [Next]_vars, NEW s \in Snaps, s \in src \/ pc = "idle",
         ~Writes(s), format' = format
  PROVE  Copy(s)' = Copy(s)
<1>1. format \in Formats /\ store \in [Snaps -> [Formats -> States]]
  BY TypeParts DEF SourceOK, MirrorOK
<1>2. ASSUME NEW t \in Snaps, Writes(t) PROVE Copy(s)' = Copy(s)
  BY <1>1, <1>2, PutOne DEF Writes, Copy
<1>3. ASSUME NEW t \in Snaps, NEW f \in Formats, PruneCopy(t, f) PROVE Copy(s)' = Copy(s)
  <2>1. s \in src /\ (t \notin src \/ f # format)
    BY <1>3 DEF PruneCopy, Superfluous
  <2>2. t # s \/ f # format
    BY <2>1
  <2>3. store' = [store EXCEPT ![t][f] = "absent"]
    BY <1>3 DEF PruneCopy
  <2>4. QED
    BY <1>1, <2>2, <2>3 DEF Copy
<1>4. QED
  BY <1>2, <1>3, StoreChange DEF Prunes, Copy

LEMMA GoodStays ==
  ASSUME TypeOK, Piping, [Next]_vars, NEW s \in Snaps, s \in src \/ pc = "idle",
         ~Writes(s), Good(s)
  PROVE  Good(s)'
<1>1. unflushed \subseteq unflushed'
  BY UnflushedChange
<1>2. CASE reformatted' = TRUE
  BY <1>2 DEF Good
<1>3. CASE format' = format /\ reformatted' = reformatted
  BY <1>1, <1>3, CopyStays DEF Good
<1>4. QED
  BY <1>2, <1>3, FormatChange

-----------------------------------------------------------------------------
\* The goroutines' knowledge of each other.
LEMMA InitPiping == Init => Piping
BY DEF Init, Piping

\* Without an error the copier and the writer end only when the stream arrived.
LEMMA NoErrorArrived ==
  ASSUME TypeOK, Piping, ~failing, copier = "done" \/ (copied = sent /\ sender = "closed")
  PROVE  Arrived = "whole"
BY DEF Piping, Arrived

\* Steps that are not the pipeline's, and those that end it.
LEMMA PipingOff ==
  ASSUME PipelineOff, pc' \notin {"pipe", "mark"}
  PROVE  Piping'
BY DEF PipelineOff, Piping

LEMMA PipingIdle ==
  ASSUME Piping, pc # "pipe", UNCHANGED pipeline, pc' \notin {"pipe", "mark"}
  PROVE  Piping'
BY DEF Piping, pipeline

LEMMA PipingFrame ==
  ASSUME Piping, UNCHANGED <<kind, format, mirror, pc, src, cur, pipeline, history>>
  PROVE  Piping'
<1>1. (IsFile' <=> IsFile) /\ (Remote' <=> Remote) /\ Copy(cur)' = Copy(cur) /\ (Good(cur)' <=> Good(cur))
  BY DEF IsFile, Remote, Copy, Good, mirror, history
<1>2. QED
  BY <1>1 DEF Piping, mirror, pipeline

LEMMA PipingSender ==
  ASSUME TypeOK, Piping, Sender
  PROVE  Piping'
<1> USE DEF source, mirror, history
<1>1. UNCHANGED <<kind, format, store, mark, pc, src, cur, copier, copied, writer, unflushed, reformatted>>
      /\ pc = "pipe"
  BY DEF Sender, SendOpen, PipeCollected, SendPiece, SendEnd, Piping
<1>2. (IsFile' <=> IsFile) /\ (Remote' <=> Remote) /\ Copy(cur)' = Copy(cur) /\ (Good(cur)' <=> Good(cur))
  BY <1>1 DEF IsFile, Remote, Copy, Good
<1>3. sender \in {"open", "send", "leaked"} /\ sender' # "off" /\ (failing => failing')
  BY DEF Sender, SendOpen, PipeCollected, SendPiece, SendEnd
<1>4. copier = "done" => failing
  BY <1>3 DEF Piping
<1>5. /\ sender' = "leaked" => failing'
      /\ sender' = "closed" /\ ~failing' => sent' = Pieces
  BY DEF Sender, SendOpen, PipeCollected, SendPiece, SendEnd, Piping
<1>6. QED
  BY <1>1, <1>2, <1>3, <1>4, <1>5 DEF Piping

LEMMA PipingCopier ==
  ASSUME TypeOK, Piping, Copier
  PROVE  Piping'
<1> USE DEF source, mirror, history
<1>1. UNCHANGED <<kind, format, mark, pc, src, cur, sender, sent, writer, reformatted>> /\ pc = "pipe"
      /\ copier = "copy"
  BY DEF Copier, CopyPiece, CopyFails, CopyEnd, Piping
<1>2. (IsFile' <=> IsFile) /\ (Remote' <=> Remote)
  BY <1>1 DEF IsFile, Remote
<1>3. CASE CopyPiece \/ CopyFails
  <2>1. Copy(cur)' = Copy(cur) /\ (Good(cur)' <=> Good(cur))
    BY <1>1, <1>3 DEF CopyPiece, CopyFails, Copy, Good
  <2>2. (copier' = "done" => failing') /\ copier' # "off" /\ (failing => failing')
    BY <1>1, <1>3 DEF CopyPiece, CopyFails
  <2>3. QED
    BY <1>1, <1>2, <2>1, <2>2 DEF Piping
<1>4. CASE CopyEnd
  <2>1. copier' = "done" /\ copied' = copied /\ copied = sent /\ sender = "closed" /\ failing' = failing
    BY <1>4 DEF CopyEnd
  <2>2. kind # "file" => Copy(cur)' = Copy(cur) /\ (Good(cur)' <=> Good(cur))
    BY <1>1, <1>4 DEF CopyEnd, Copy, Good
  <2>3. kind = "file" /\ ~failing => Good(cur)'
    <3> SUFFICES ASSUME kind = "file", ~failing PROVE Good(cur)'
      OBVIOUS
    <3>1. Arrived = "whole" /\ cur \in Snaps /\ format' = format
      BY <1>1, <2>1, NoErrorArrived, CurKnown
    <3>2. CASE Put(cur, Arrived)
      BY <1>1, <3>1, <3>2, PutOne DEF Good, Copy, States
    <3>3. CASE unflushed' = unflushed \cup {cur}
      BY <1>1, <3>3 DEF Good
    <3>4. QED
      BY <1>4, <3>2, <3>3 DEF CopyEnd
  <2>4. kind = "file" => ~Remote
    BY DEF Remote
  <2>5. QED
    BY <1>1, <1>2, <2>1, <2>2, <2>3, <2>4 DEF Piping
<1>5. QED
  BY <1>3, <1>4 DEF Copier

LEMMA PipingWriter ==
  ASSUME TypeOK, Piping, WriterStart \/ WriterEnd \/ WriteFileFails
  PROVE  Piping'
<1> USE DEF source, mirror, history
<1>1. UNCHANGED <<kind, format, mark, pc, src, cur, sender, sent, copier, copied, unflushed, reformatted>>
      /\ pc = "pipe" /\ Remote /\ cur \in Snaps /\ writer' # "off"
  BY CurKnown DEF WriterStart, WriterEnd, WriterHasAll, WriteFileFails, Piping
<1>2. (IsFile' <=> IsFile) /\ Remote' /\ kind # "file"
  BY <1>1 DEF IsFile, Remote
<1>3. kind \in {"file", "sshfile", "sshsubvol"}
  BY TypeParts, KindsAssumption DEF SourceOK
<1>4. CASE WriterStart
  <2>1. Copy(cur)' = "part" /\ writer' = "run" /\ failing' = failing
    BY <1>1, <1>4, PutOne DEF WriterStart, Copy, States
  <2>2. QED
    BY <1>1, <1>2, <2>1 DEF Piping
<1>5. CASE WriterEnd
  <2>1. writer' = "done" /\ failing' = failing
    BY <1>5 DEF WriterEnd
  <2>2. ~failing => Arrived = "whole"
    BY <1>2, <1>3, <1>5, NoErrorArrived DEF WriterEnd, WriterHasAll, Arrived
  <2>3. ~failing => Good(cur)'
    BY <1>1, <1>5, <2>2, PutOne DEF WriterEnd, Good, Copy, States
  <2>4. QED
    BY <1>1, <1>2, <2>1, <2>3 DEF Piping
<1>6. CASE WriteFileFails
  <2>1. failing' /\ kind # "sshsubvol"
    BY <1>6 DEF WriteFileFails
  <2>2. QED
    BY <1>1, <1>2, <2>1 DEF Piping
<1>7. QED
  BY <1>4, <1>5, <1>6

LEMMA PipingPick ==
  ASSUME TypeOK, Piping, PickSnapshot
  PROVE  Piping'
<1> USE DEF source
<1>1. PICK s : s = cur'
  OBVIOUS
<1>2. s \in src /\ s \in Snaps /\ UNCHANGED <<kind, format, mark, src>> /\ pc = "pick"
  BY <1>1, NextAhead, SnapFacts DEF PickSnapshot
<1>3. (IsFile' <=> IsFile) /\ (Remote' <=> Remote)
  BY <1>2 DEF IsFile, Remote
<1>4. CASE Synced(s)
  <2>1. pc' = "pick" /\ UNCHANGED pipeline
    BY <1>1, <1>4 DEF PickSnapshot
  <2>2. QED
    BY <1>2, <2>1, PipingIdle
<1>5. CASE ~Synced(s)
  <2>0. ~failing
    BY <1>2 DEF Piping
  <2>a. ~Synced(cur')
    BY <1>1, <1>5
  <2>b. pc' = "pipe" /\ sender' = "open" /\ copier' = "copy" /\ failing' = failing
    BY ONLY <2>a, PickSnapshot, Zenon DEF PickSnapshot
  <2>c. writer' = IF Remote THEN "start" ELSE "off"
    BY ONLY <2>a, PickSnapshot, Zenon DEF PickSnapshot
  <2>1. /\ pc' = "pipe" /\ sender' = "open" /\ copier' = "copy" /\ ~failing'
        /\ writer' = IF Remote THEN "start" ELSE "off"
    BY <2>0, <2>b, <2>c
  <2>2. kind = "sshsubvol" => store'[s][format] # "whole"
    BY <1>1, <1>2, <1>5, PutOne DEF PickSnapshot, States
  <2>3. kind = "sshsubvol" => Copy(cur)' # "whole"
    BY <1>1, <1>2, <2>2 DEF Copy
  <2>4. IsFile => ~mark[s]
    BY <1>5 DEF Synced
  <2>5. QED
    BY <1>1, <1>2, <1>3, <2>1, <2>3, <2>4 DEF Piping
<1>6. QED
  BY <1>4, <1>5

LEMMA PipingJoin ==
  ASSUME TypeOK, Piping, Join
  PROVE  Piping' /\ (~failing => Good(cur)')
<1> USE DEF source, mirror, history
<1>1. CASE Leave("error")
  BY <1>1, PipingOff DEF Leave, Join, Good, Copy, Piping
<1>2. CASE ~Leave("error")
  <2>1. /\ ~failing /\ PipelineOff /\ pc' = IF IsFile THEN "mark" ELSE "pick"
        /\ UNCHANGED <<kind, format, store, mark, src, cur, unflushed, reformatted>>
        /\ pc = "pipe" /\ cur \in src /\ copier = "done" /\ writer \in {"off", "done", "failed"}
    BY <1>2 DEF Join, Joined, Piping
  <2>2. Good(cur)
    BY <2>1 DEF Piping, Remote
  <2>3. Good(cur)' /\ (IsFile' <=> IsFile)
    BY <2>1, <2>2 DEF Good, Copy, IsFile
  <2>4. QED
    BY <2>1, <2>3 DEF Piping, PipelineOff
<1>3. QED
  BY <1>1, <1>2 DEF Join, Leave, Good, Copy

LEMMA PipingStep == TypeOK /\ Piping /\ [Next]_vars => Piping'
<1> SUFFICES ASSUME TypeOK, Piping, [Next]_vars PROVE Piping'
  OBVIOUS
<1>1. CASE UNCHANGED vars
  BY <1>1, PipingFrame DEF vars
<1>2. CASE TakeSnapshot \/ \E s \in Snaps : Expire(s)
  BY <1>2, PipingFrame DEF TakeSnapshot, Expire
<1>3. CASE \E f \in Formats : ChangeFormat(f)
  BY <1>3, PipingIdle DEF ChangeFormat
<1>4. CASE ReceiveFails \/ Stop \/ FinishRun
  BY <1>4, PipingOff DEF ReceiveFails, Stop, FinishRun, Leave
<1>5. CASE StartSync \/ Mark \/ AllSynced
  BY <1>5, PipingIdle DEF StartSync, Mark, AllSynced
<1>6. CASE (\E s \in Snaps : PruneMark(s)) \/ \E s \in Snaps, f \in Formats : PruneCopy(s, f)
  BY <1>6, PipingIdle DEF PruneMark, PruneCopy
<1>7. QED
  BY <1>1, <1>2, <1>3, <1>4, <1>5, <1>6, PipingSender, PipingCopier, PipingWriter, PipingPick, PipingJoin
     DEF Next, Writer, Main

-----------------------------------------------------------------------------
\* A completion file stands beside a good copy.
LEMMA InitMarked == Init => Marked
BY DEF Init, Marked

LEMMA MarkedStep == TypeOK /\ Piping /\ Fresh /\ Marked /\ [Next]_vars => Marked'
<1> SUFFICES ASSUME TypeOK, Piping, Fresh, Marked, [Next]_vars PROVE Marked'
  OBVIOUS
<1>k. (IsFile' <=> IsFile) /\ mark \in [Snaps -> BOOLEAN]
  BY SourceChange, TypeParts DEF IsFile, MirrorOK
<1>m. \A s \in Snaps : mark'[s] => mark[s] \/ (Mark /\ s = cur)
  BY <1>k, MarkChange DEF Mark, PruneMark
<1>1. ASSUME NEW s \in snaps' \cup src', mark'[s] PROVE Good(s)'
  <2>0. s \in Snaps /\ (s \in snaps \cup src \/ (TakeSnapshot /\ s = taken + 1))
    <3>1. s \in snaps \cup src \/ (TakeSnapshot /\ s = taken + 1)
      BY <1>1, SourceChange DEF TakeSnapshot, StartSync, source
    <3>2. QED
      BY <3>1, SnapFacts DEF TakeSnapshot, Snaps
  <2>1. CASE Mark /\ s = cur
    BY <2>1 DEF Mark, Piping, Good, Copy, history
  <2>2. CASE mark[s]
    <3>1. s \in snaps \cup src
      BY <2>0, <2>2, SnapFacts DEF Fresh, Untouched
    <3>2. s \in src \/ pc = "idle"
      BY <3>1, <2>2 DEF Fresh, Untouched
    <3>3. ~Writes(s)
      BY <2>0, <2>2 DEF Writes, Marked
    <3>4. QED
      BY <2>0, <2>2, <3>1, <3>2, <3>3, GoodStays DEF Marked
  <2>3. QED
    BY <1>1, <1>m, <2>0, <2>1, <2>2
<1>2. ASSUME ~IsFile', NEW s \in Snaps PROVE ~mark'[s]
  BY <1>2, <1>k, <1>m DEF Marked, Mark, Piping
<1>3. QED
  BY <1>1, <1>2 DEF Marked

-----------------------------------------------------------------------------
\* What a sync has behind it is good.
LEMMA InitBehind == Init => (\A s \in Behind : Good(s)) /\ OkMeansStored
BY DEF Init, Behind, OkMeansStored

\* The snapshot being written is not one of those.
LEMMA NotBehind ==
  ASSUME TypeOK, NEW s \in Snaps, Writes(s)
  PROVE  s \notin Behind
<1>1. CASE pc = "pick" /\ Ahead # {} /\ s = Min(Ahead)
  BY <1>1, NextAhead, SnapFacts DEF Behind
<1>2. CASE pc = "pipe" /\ s = cur
  BY <1>2, SnapFacts DEF Behind
<1>3. QED
  BY <1>1, <1>2 DEF Writes

\* How what is behind grows: with the snapshot at hand, which is then good.
LEMMA BehindGrows ==
  ASSUME TypeOK, Piping, Marked, [Next]_vars, NEW s \in Behind'
  PROVE  s \in Behind \/ (s \in Snaps /\ Good(s)')
<1> USE DEF source, mirror, pipeline, history
<1>1. ASSUME UNCHANGED <<pc, cur, src, result>> PROVE s \in Behind
  BY <1>1 DEF Behind
<1>2. ASSUME NEW res, Leave(res), res = "error" PROVE FALSE
  BY <1>2 DEF Leave, Behind
<1>3. CASE PickSnapshot
  <2>1. PICK c : c = cur'
    OBVIOUS
  <2>2. c = Min(Ahead) /\ Ahead # {} /\ c \in src /\ c \in Snaps /\ src' = src /\ pc = "pick"
        /\ pc' \in {"pick", "pipe"} /\ \A t \in src : t < c => t <= cur
    BY <1>3, <2>1, NextAhead, SnapFacts DEF PickSnapshot
  <2>3. s \in src /\ (s < c \/ (s = c /\ pc' = "pick"))
    BY <2>1, <2>2, SnapFacts DEF Behind
  <2>4. CASE s < c
    BY <2>2, <2>3, <2>4 DEF Behind
  <2>5. CASE s = c /\ pc' = "pick"
    <3>1. Synced(c) /\ store' = store
      BY <1>3, <2>1, <2>5 DEF PickSnapshot
    <3>2. Good(c)
      BY <2>2, <3>1 DEF Synced, Good, Marked
    <3>3. QED
      BY <1>3, <2>2, <2>5, <3>1, <3>2 DEF PickSnapshot, Good, Copy
  <2>6. QED
    BY <2>3, <2>4, <2>5
<1>4. CASE Join
  <2>1. CASE Leave("error")
    BY <2>1, <1>2
  <2>2. CASE ~Leave("error")
    <3>1. pc = "pipe" /\ ~failing /\ pc' \in {"mark", "pick"} /\ UNCHANGED <<cur, src>> /\ Good(cur)'
      BY <1>4, <2>2, PipingJoin DEF Join, Joined
    <3>2. s \in src /\ (s < cur \/ s = cur)
      BY <3>1, SnapFacts DEF Behind
    <3>3. QED
      BY <3>1, <3>2, CurKnown DEF Behind
  <2>3. QED
    BY <2>1, <2>2
<1>5. CASE Mark
  <2>1. pc = "mark" /\ pc' = "pick" /\ UNCHANGED <<cur, src>> /\ cur \in src /\ cur \in Snaps /\ Good(cur)'
    BY <1>5, SnapFacts DEF Mark, Piping, Good, Copy
  <2>2. s \in src /\ (s < cur \/ s = cur)
    BY <2>1, SnapFacts DEF Behind
  <2>3. QED
    BY <2>1, <2>2 DEF Behind
<1>6. CASE AllSynced
  BY <1>6, SnapFacts DEF AllSynced, Behind, Ahead
<1>7. CASE FinishRun
  BY <1>7 DEF FinishRun, Leave, Behind
<1>8. CASE StartSync
  BY <1>8, SnapFacts DEF StartSync, Behind, Snaps
<1>9. CASE ReceiveFails \/ Stop
  BY <1>9, <1>2 DEF ReceiveFails, Stop
<1>10. CASE UNCHANGED <<pc, cur, src, result>>
  BY <1>10, <1>1
<1>11. CASE TakeSnapshot \/ (\E t \in Snaps : Expire(t)) \/ \E f \in Formats : ChangeFormat(f)
  BY <1>11, <1>1 DEF TakeSnapshot, Expire, ChangeFormat
<1>12. CASE Sender \/ Copier \/ WriterStart \/ WriterEnd \/ WriteFileFails
  BY <1>12, <1>1 DEF Sender, SendOpen, PipeCollected, SendPiece, SendEnd, Copier, CopyPiece, CopyFails, CopyEnd,
     WriterStart, WriterEnd, WriteFileFails
<1>13. CASE (\E t \in Snaps : PruneMark(t)) \/ \E t \in Snaps, f \in Formats : PruneCopy(t, f)
  BY <1>13, <1>1 DEF PruneMark, PruneCopy
<1>14. QED
  BY <1>3, <1>4, <1>5, <1>6, <1>7, <1>8, <1>9, <1>10, <1>11, <1>12, <1>13 DEF Next, Writer, Main, vars

LEMMA BehindStep ==
  ASSUME TypeOK, Piping, Marked, [Next]_vars, \A s \in Behind : Good(s)
  PROVE  \A s \in Behind' : Good(s)'
<1> SUFFICES ASSUME NEW s \in Behind' PROVE Good(s)'
  OBVIOUS
<1>1. CASE s \in Behind
  <2>1. s \in src /\ s \in Snaps
    BY <1>1, SnapFacts DEF Behind
  <2>2. QED
    BY <1>1, <2>1, NotBehind, GoodStays
<1>2. QED
  BY <1>1, BehindGrows

-----------------------------------------------------------------------------
\* What a successful run leaves.
LEMMA OkStep ==
  ASSUME TypeOK, Piping, Marked, OkMeansStored, \A s \in Behind : Good(s), [Next]_vars
  PROVE  OkMeansStored'
<1> USE DEF source, mirror, history
<1> SUFFICES ASSUME pc' = "idle", result' = "ok", ~reformatted'
             PROVE  /\ \A s \in src' \ unflushed' : Copy(s)' = "whole"
                    /\ \A s \in Snaps \ src' : Copy(s)' = "absent" \/ (~IsFile' /\ Copy(s)' = "part")
  BY DEF OkMeansStored
<1>1. \A s \in src' \ unflushed' : Copy(s)' = "whole"
  BY BehindStep DEF Behind, Good
<1>f. format' = format /\ kind' = kind /\ ~reformatted /\ format \in Formats
      /\ store \in [Snaps -> [Formats -> States]]
  BY FormatChange, SourceChange, TypeParts DEF SourceOK, MirrorOK
<1>2. CASE FinishRun
  <2>1. store' = store /\ src' = src /\ CopiesPruned
    BY <1>2 DEF FinishRun, Leave
  <2>2. ASSUME NEW s \in Snaps \ src PROVE Copy(s) = "absent" \/ (~IsFile /\ Copy(s) = "part")
    <3>1. ~Superfluous(s, format) /\ Copy(s) \in States
      BY <1>f, <2>1 DEF CopiesPruned, Copy
    <3>2. QED
      BY <3>1, <2>2 DEF Superfluous, Copy, States
  <2>3. QED
    BY <1>1, <1>f, <2>1, <2>2 DEF Copy, IsFile
<1>3. CASE pc = "idle" /\ result = "ok" /\ UNCHANGED <<store, src>>
  BY <1>1, <1>3, <1>f DEF OkMeansStored, Copy, IsFile
<1>4. FinishRun \/ (pc = "idle" /\ result = "ok" /\ UNCHANGED <<store, src>>)
  <2>1. CASE TakeSnapshot \/ (\E t \in Snaps : Expire(t)) \/ \E f \in Formats : ChangeFormat(f)
    BY <2>1 DEF TakeSnapshot, Expire, ChangeFormat
  <2>2. CASE Sender \/ Copier \/ WriterStart \/ WriterEnd \/ WriteFileFails
    <3>1. pc = "pipe" /\ pc' = pc
      BY <2>2 DEF Sender, SendOpen, PipeCollected, SendPiece, SendEnd, Copier, CopyPiece, CopyFails, CopyEnd,
         WriterStart, WriterEnd, WriterHasAll, WriteFileFails, Piping
    <3>2. QED
      BY <3>1
  <2>3. CASE ReceiveFails \/ Stop \/ Join
    BY <2>3 DEF ReceiveFails, Stop, Join, Leave
  <2>4. CASE StartSync \/ PickSnapshot \/ Mark \/ AllSynced
    BY <2>4 DEF StartSync, PickSnapshot, Mark, AllSynced
  <2>5. CASE (\E t \in Snaps : PruneMark(t)) \/ \E t \in Snaps, f \in Formats : PruneCopy(t, f)
    BY <2>5 DEF PruneMark, PruneCopy
  <2>6. CASE UNCHANGED vars
    BY <2>6 DEF vars
  <2>7. QED
    BY <2>1, <2>2, <2>3, <2>4, <2>5, <2>6 DEF Next, Writer, Main
<1>5. QED
  BY <1>2, <1>3, <1>4

-----------------------------------------------------------------------------
\* The invariant of every behaviour.
LEMMA Invariance == Spec => []IInv
<1>1. Init => IInv
  BY InitTypeOK, InitFresh, InitMarked, InitPiping, InitBehind DEF IInv
<1>2. IInv /\ [Next]_vars => IInv'
  BY TypeStep, FreshStep, MarkedStep, PipingStep, BehindStep, OkStep DEF IInv
<1>3. QED
  BY <1>1, <1>2, PTL DEF Spec

\* The mirror and the goroutines of the pipeline stay within their types, for
\* streams of any length.
THEOREM TypeCorrect == Spec => []TypeOK
<1>1. IInv => TypeOK
  BY DEF IInv
<1>2. QED
  BY <1>1, Invariance, PTL

\* A completion file is written by syncSnapshot only beside a complete copy, or
\* one whose encoder failed to close without a word: what a later Sync skips
\* is whole, whatever failed, crashed or was deleted before.
THEOREM SkippedSnapshotsAreWhole == Spec => []SkippedIsWhole
<1>1. IInv => SkippedIsWhole
  BY DEF IInv, Marked, Good, SkippedIsWhole
<1>2. QED
  BY <1>1, Invariance, PTL

\* When Sync and Prune report success the mirror holds a complete copy of each
\* snapshot of the run's list and nothing of others.
THEOREM OkIsStored == Spec => []OkMeansStored
<1>1. IInv => OkMeansStored
  BY DEF IInv
<1>2. QED
  BY <1>1, Invariance, PTL

\* No step of Sync, of its goroutines or of Prune truncates, overwrites or
\* removes the complete copy of a snapshot that still exists and that the next
\* Sync will skip.
THEOREM SyncedCopiesStay == Spec => SyncedStay
<1> DEFINE Stay == \A s \in snaps \cap snaps' :
                      Copy(s) = "whole" /\ Synced(s) /\ ~reformatted' => Copy(s)' = "whole"
<1>1. IInv /\ [Next]_vars => [Stay]_vars
  <2> SUFFICES ASSUME IInv, [Next]_vars, NEW s \in snaps, Copy(s) = "whole", Synced(s), ~reformatted'
               PROVE  Copy(s)' = "whole"
    OBVIOUS
  <2>1. TypeOK /\ Piping /\ s \in Snaps /\ format' = format /\ format \in Formats
    BY SnapFacts, FormatChange, TypeParts DEF IInv, SourceOK
  <2>2. s \in src \/ pc = "idle"
    BY <2>1 DEF IInv, Fresh, Untouched, Copy
  <2>3. CASE Writes(s)
    BY <2>3 DEF Writes, Synced
  <2>4. CASE ~Writes(s)
    BY <2>1, <2>2, <2>4, CopyStays
  <2>5. QED
    BY <2>3, <2>4
<1>2. QED
  BY <1>1, Invariance, PTL DEF Spec, SyncedStay
=============================================================================
