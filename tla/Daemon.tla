-------------------------------- MODULE Daemon --------------------------------
(***************************************************************************)
(* `btrsync run`, as a daemon or started again and again, and              *)
(* `btrsync prune` beside it: pkg/cmd/run.go and pkg/cmd/prune.go.         *)
(*                                                                         *)
(* A run pushes one function for each subvolume that takes and expires its *)
(* snapshots, waits, pushes one function for each mirror of each           *)
(* subvolume, and waits again.  What the queue promises is TaskPool's      *)
(* promise; what the functions do is, in short, what SnapManager and the   *)
(* mirror modules show them to do.  Here they meet: over the names of the  *)
(* configuration, over what each has looked up before, and over a Wait     *)
(* that returns while functions are still at work.                         *)
(***************************************************************************)
EXTENDS Configuration, FiniteSets, FiniteSetsExt

CONSTANTS Configs,    (* a sequence of configurations to start from, with  *)
                      (* how btrsync is called                             *)
          MaxSnaps    (* bound: snapshots taken of a subvolume             *)

ASSUME MaxSnapsAssumption == MaxSnaps \in Nat

\* Each configuration has two bounds of its own: how often something breaks,
\* and how often the races of the queue lose a function or an error (see
\* ConcurrentQueue).
ASSUME ConfigsAssumption ==
    \A n \in DOMAIN Configs : LET s == Configs[n] IN
                       /\ IsConfig(s.conf) /\ Validate(s.conf)
                       /\ {s.daemon, s.byHand} \subseteq BOOLEAN
                       /\ {s.faults, s.races} \subseteq Nat

VARIABLES
  chosen,   (* the configuration, whether --daemon is given, and whether    *)
            (* someone calls `btrsync prune`                                *)
  main,     (* run(): between runs, or which Wait it is in                  *)
  round,    (* which of two runs that may overlap is the present one        *)
  tasks,    (* the functions pushed and not finished                        *)
  overlap,  (* history: functions of the run before were left at work       *)
  taken,    (* how many snapshots have been taken of each subvolume         *)
  local,    (* those that are there                                         *)
  mirrored, (* what the mirrors hold: [mirror, dir, sub, snap]              *)
  made,     (* the directories that exist on mirrors: [mirror, dir]         *)
  lost,     (* the subvolumes that cannot be looked up at present           *)
  down,     (* the mirrors that cannot be reached at present                *)
  faults, races,
  cmd       (* `btrsync prune`: what is left to do, and what it looked up   *)

store == <<taken, local, mirrored, made>>
env   == <<chosen, lost, down, faults>>
vars  == <<chosen, main, round, tasks, overlap, taken, local, mirrored, made,
           lost, down, faults, races, cmd>>

setting == Configs[chosen]
conf    == setting.conf

-----------------------------------------------------------------------------
(* Subvolumes and the work there is for them.                              *)

Indices == {<<i, j>> : i \in 1..2, j \in 1..2}

\* What run.go and prune.go resolve from a configuration.  It does not change
\* while btrsync runs.
Resolved(c) ==
    LET vol(x) == c.volumes[x[1]]
        sub(x) == vol(x).subvolumes[x[2]]
        names(x) == ResolveMirrors(c, vol(x), sub(x))
        subs == {x \in Indices : x[1] \in DOMAIN c.volumes /\ x[2] \in DOMAIN vol(x).subvolumes}
    IN  [subs    |-> {x \in subs : ~vol(x).disabled},
         enabled |-> {x \in subs : ~vol(x).disabled /\ ~sub(x).disabled},
         mirrors |-> [x \in subs |-> [k \in DOMAIN names(x) |-> GetMirror(c, names(x)[k])]],
         dir     |-> [x \in subs |-> SnapshotName(vol(x), sub(x))],
         bare    |-> [x \in subs |-> SubvolumeName(sub(x))],
         documented |-> \A x \in subs :
            /\ "." \notin ToSet(VolumeName(vol(x)) \o SubvolumeName(sub(x)))
            /\ sub(x).snapshotName = Unset
            /\ IsUnique(vol(x).mirrors \o sub(x).mirrors)]

Plans == [n \in DOMAIN Configs |-> Resolved(Configs[n].conf)]
plan  == Plans[chosen]

MirrorsOf(x) == plan.mirrors[x]
Mirror(x, k) == plan.mirrors[x][k]

\* The functions that handleSnapshots and handleSync push; those of the
\* disabled are pushed by the former, and do nothing.
Task(x, k) == [round |-> round', sub |-> x, mirror |-> k, at |-> "waiting", view |-> {}]
SnapshotTasks == {Task(x, 0) : x \in plan.subs}
SyncTasks     == UNION {{Task(x, k) : k \in DOMAIN MirrorsOf(x)} : x \in plan.enabled}

InSnapshots(t) == t.mirror = 0
SameBatch(t)   == {u \in tasks : u.round = t.round /\ InSnapshots(u) = InSnapshots(t)}
Busy(t)        == {u \in SameBatch(t) : u.at \notin {"waiting", "failed"}}

\* The batch that run() waits for.
Batch == IF main = "idle" THEN {}
         ELSE {t \in tasks : t.round = round /\ InSnapshots(t) = (main = "snapshots")}

Become(t, u) == tasks' = (tasks \ {t}) \cup {u}
Finish(t)    == tasks' = tasks \ {t}
\* Seeded fault: kept although nobody waits any more.
FailLoud(t)  == Become(t, [t EXCEPT !.at = "failed", !.view = {}])

\* Nobody hears of an error that comes after Wait has returned.
Fail(t)      == IF t \in Batch THEN Become(t, [t EXCEPT !.at = "failed", !.view = {}])
                ELSE Finish(t)

-----------------------------------------------------------------------------
Init == /\ chosen \in DOMAIN Configs
        /\ main = "idle" /\ round = 0 /\ tasks = {} /\ overlap = FALSE
        /\ taken = [x \in Indices |-> 0] /\ local = [x \in Indices |-> {}]
        /\ mirrored = {} /\ made = {}
        /\ lost = {} /\ down = {} /\ faults = setting.faults /\ races = setting.races
        /\ cmd = [left |-> {}, at |-> "next", view |-> {}]

\* daemon: the ticker starts a run, whatever became of the one before.  Bound:
\* no more than two runs overlap.
Begin == /\ main = "idle"
         /\ \A t \in tasks : t.round = round
         /\ main' = "snapshots"
         /\ round' = IF \E t \in tasks : t.round = 0 THEN 1 ELSE 0
         /\ tasks' = tasks \cup SnapshotTasks
         /\ overlap' = (tasks # {})
         /\ UNCHANGED <<env, store, races, cmd>>

\* Seeded fault: an error cancels what is left.
AnswerErrorAndCancel ==
    /\ \E t \in Batch : t.at = "failed"
    /\ main' = "idle"
    /\ tasks' = tasks \ Batch
    /\ UNCHANGED <<env, store, round, overlap, races, cmd>>

\* Wait returns an error as soon as it meets one.  A daemon goes on to its next
\* run beside what is still queued or running; otherwise the process ends.
AnswerError == /\ \E t \in Batch : t.at = "failed"
               /\ main' = "idle"
               /\ tasks' = IF setting.daemon THEN {t \in tasks : t.at # "failed"} ELSE {}
               /\ UNCHANGED <<env, store, round, overlap, races, cmd>>

\* Seeded fault: nil whenever nothing is running.
NoneRuns == \A t \in Batch : t.at \in {"waiting", "failed"}

\* What a nil of Wait should mean.
AllDone == Batch = {}

\* ... and what it may mean when its races strike: functions that never
\* started, or an error that was dropped.
AllQuiet == races > 0 /\ Batch # {} /\ NoneRuns

\* Wait returns nil: the snapshots are followed by the syncs.
AnswerNil == /\ main # "idle"
             /\ \/ AllDone /\ UNCHANGED races
                \/ AllQuiet /\ races' = races - 1
             /\ UNCHANGED round
             /\ \/ /\ main = "snapshots"
                   /\ main' = "sync"
                   /\ tasks' = (tasks \ Batch) \cup SyncTasks
                \/ /\ main = "sync"
                   /\ main' = "idle"
                   /\ tasks' = tasks \ Batch
             /\ UNCHANGED <<env, store, overlap, cmd>>

-----------------------------------------------------------------------------
(* The functions.                                                          *)

Disabled(t) == IF InSnapshots(t) THEN t.sub \notin plan.enabled ELSE Mirror(t.sub, t.mirror).disabled

\* snapmanager.New and syncmanager.New look up the subvolume and its snapshots.
Start(t) == /\ t.at = "waiting"
            /\ conf.concurrency = -1 \/ Cardinality(Busy(t)) < conf.concurrency
            /\ CASE Disabled(t)       -> Finish(t)
                 [] ~Disabled(t) /\ t.sub \in lost -> Fail(t)
                 [] OTHER -> Become(t, [t EXCEPT !.at = IF InSnapshots(t) THEN "ensure" ELSE "sync",
                                                 !.view = local[t.sub]])
            /\ UNCHANGED <<env, store, main, round, overlap, races, cmd>>

\* EnsureMostRecentSnapshot: whether one is due is up to the clock (and to the
\* bound); the first is.
Ensure(t) == /\ t.at = "ensure"
             /\ Become(t, [t EXCEPT !.at = "expire"])
             /\ \/ /\ t.view # {} \/ taken[t.sub] = MaxSnaps
                   /\ UNCHANGED <<taken, local>>
                \/ /\ taken[t.sub] < MaxSnaps
                   /\ taken' = [taken EXCEPT ![t.sub] = @ + 1]
                   /\ local' = [local EXCEPT ![t.sub] = @ \cup {taken[t.sub] + 1}]
             /\ UNCHANGED <<env, main, round, overlap, mirrored, made, races, cmd>>

\* PruneSnapshots: which of those it knows are to go is up to the clock and to
\* the intervals; the newest is never among them.
Expirable(x, view) == SUBSET (view \ {taken[x]})

\* Deleting what someone else has deleted is an error.
Expire(t) == /\ t.at = "expire"
             /\ \E gone \in Expirable(t.sub, t.view) :
                   /\ local' = [local EXCEPT ![t.sub] = @ \ gone]
                   /\ IF gone \subseteq local[t.sub] THEN Finish(t) ELSE Fail(t)
             /\ UNCHANGED <<env, main, round, overlap, taken, mirrored, made, races, cmd>>

\* Where a sync puts the snapshots: a directory of the mirror that is named
\* after them.
Place(x, k)     == [mirror |-> Mirror(x, k).name, dir |-> plan.dir[x]]
Entry(p, x, n)  == [mirror |-> p.mirror, dir |-> p.dir, sub |-> x, snap |-> n]
At(p)           == {e \in mirrored : e.mirror = p.mirror /\ e.dir = p.dir}
Stored(p, x)    == {e.snap : e \in {f \in At(p) : f.sub = x}}

\* Sync, one snapshot at a time.  The mirror fails, or the snapshot has gone
\* since it was looked up, or it is stored.
Sync(t) == /\ t.at = "sync"
           /\ LET p == Place(t.sub, t.mirror)
                  missing == t.view \ Stored(p, t.sub)
              IN IF \/ p.mirror \in down
                    \/ Manager(Mirror(t.sub, t.mirror)) = "unsupported"
                    \/ missing # {} /\ Min(missing) \notin local[t.sub]
                 THEN /\ Fail(t)
                      /\ UNCHANGED <<mirrored, made>>
                 ELSE /\ mirrored' = mirrored \cup
                             (IF missing = {} THEN {} ELSE {Entry(p, t.sub, Min(missing))})
                      /\ made' = IF Manager(Mirror(t.sub, t.mirror)) = "directory" /\ t.view = {}
                                 THEN made ELSE made \cup {p}
                      /\ Become(t, [t EXCEPT !.at = IF missing = {} THEN "prune" ELSE "sync"])
           /\ UNCHANGED <<env, main, round, overlap, taken, local, races, cmd>>

-----------------------------------------------------------------------------
\* The managers' Prune.  A subvolume mirror takes all it lists for this
\* directory's: on this host what has a path that begins with the name, on
\* another one every snapshot of the mirror, since `btrfs subvol list -o` of a
\* directory lists the subvolume it is in.  What is in another directory cannot
\* be deleted in this one, and ends the prune with an error.
Subvolumes(m) == Manager(m) = "subvolume"
Listed(m, p)  == {q \in made \cup {p} :
                    /\ q.mirror = p.mirror
                    /\ CASE ~Subvolumes(m)            -> q = p
                         [] Subvolumes(m) /\ m.remote -> TRUE
                         [] OTHER                     -> m.isRoot /\ IsPrefix(p.dir, q.dir)}
Foreign(m, p) == UNION {At(q) : q \in Listed(m, p) \ {p}}

\* Seeded fault: whatever has the path it was listed by.
StaleByPath(m, p, x, view) == {e \in mirrored : /\ [mirror |-> e.mirror, dir |-> e.dir] \in Listed(m, p)
                                                /\ e.sub # x \/ e.snap \notin view}

Stale(m, p, x, view) == IF p \in Listed(m, p)
                        THEN {e \in At(p) : e.sub # x \/ e.snap \notin view} ELSE {}

\* A mirror that cannot be reached, a directory that is not there (the others
\* read it, the local subvolume mirror goes through a tree), a snapshot of
\* another name.
PruneFails(m, p) == \/ p.mirror \in down
                    \/ p \notin made /\ (m.remote \/ ~Subvolumes(m))
                    \/ Foreign(m, p) # {}

\* What is stale goes; when something fails, what came before it has gone.
Pruned(m, p, x, view) == ~PruneFails(m, p) /\ mirrored' = mirrored \ Stale(m, p, x, view)
PrunedPartly(m, p, x, view) ==
    /\ PruneFails(m, p)
    /\ \E some \in SUBSET (IF p.mirror \in down THEN {} ELSE Stale(m, p, x, view)) :
          mirrored' = mirrored \ some

Prune(t) == /\ t.at = "prune"
            /\ LET p == Place(t.sub, t.mirror)
                   m == Mirror(t.sub, t.mirror)
               IN \/ Pruned(m, p, t.sub, t.view) /\ Finish(t)
                  \/ PrunedPartly(m, p, t.sub, t.view) /\ Fail(t)
            /\ UNCHANGED <<env, main, round, overlap, taken, local, made, races, cmd>>

-----------------------------------------------------------------------------
(* prune.go: everything in order, until the first error.                   *)

\* <<x, 0>> for the snapshots of x, <<x, k>> for its mirror k; the snapshots of all
\* come before the first mirror.
Steps == {<<x, 0>> : x \in plan.enabled} \cup
         UNION {{<<x, k>> : k \in DOMAIN MirrorsOf(x)} : x \in plan.enabled}
Before(a, b) ==
    LET rank(x) == 2 * x[1] + x[2] IN
    \/ a[2] = 0 /\ b[2] # 0
    \/ (a[2] = 0 <=> b[2] = 0) /\ rank(a[1]) < rank(b[1])
    \/ a[1] = b[1] /\ 0 < a[2] /\ a[2] < b[2]
IsNext(x, k) == <<x, k>> \in cmd.left /\ \A s \in cmd.left \ {<<x, k>>} : Before(<<x, k>>, s)

Work(left, at, view) == cmd' = [left |-> left, at |-> at, view |-> view]
Step(x, k) == Work(cmd.left \ {<<x, k>>}, "next", {})
Stop       == Work({}, "next", {})

CmdBegin == /\ setting.byHand /\ cmd.left = {}
            /\ Work(Steps, "next", {})
            /\ UNCHANGED <<env, store, main, round, tasks, overlap, races>>

\* The lookup by New.
CmdNew(x, k) == /\ cmd.at = "next" /\ IsNext(x, k)
                /\ IF k # 0 /\ Mirror(x, k).disabled THEN Step(x, k)
                   ELSE IF x \in lost THEN Stop
                   ELSE Work(cmd.left, "prune", local[x])
                /\ UNCHANGED <<env, store, main, round, tasks, overlap, races>>

CmdLocal(x, k) == /\ cmd.at = "prune" /\ k = 0 /\ IsNext(x, k)
                  /\ \E gone \in Expirable(x, cmd.view) :
                        /\ local' = [local EXCEPT ![x] = @ \ gone]
                        /\ IF gone \subseteq local[x] THEN Step(x, k) ELSE Stop
                  /\ UNCHANGED <<env, main, round, tasks, overlap, taken, mirrored, made, races>>

\* Not the name that run gives to the manager, but the subvolume's.
CmdPlace(x, k) == [mirror |-> Mirror(x, k).name, dir |-> plan.bare[x]]

CmdMirror(x, k) == /\ cmd.at = "prune" /\ k # 0 /\ IsNext(x, k)
                   /\ LET p == CmdPlace(x, k)
                          m == Mirror(x, k)
                      IN \/ Pruned(m, p, x, cmd.view) /\ Step(x, k)
                         \/ PrunedPartly(m, p, x, cmd.view) /\ Stop
                   /\ UNCHANGED <<env, main, round, tasks, overlap, taken, local, made, races>>

-----------------------------------------------------------------------------
\* A subvolume cannot be looked up, a mirror cannot be reached; or can again.
MirrorNames == UNION {{Mirror(x, k).name : k \in DOMAIN MirrorsOf(x)} : x \in plan.enabled}
Break == /\ faults > 0
         /\ faults' = faults - 1
         /\ \/ /\ \E x \in plan.enabled \ lost : lost' = lost \cup {x}
               /\ UNCHANGED down
            \/ /\ \E m \in MirrorNames \ down : down' = down \cup {m}
               /\ UNCHANGED lost
         /\ UNCHANGED <<chosen, store, main, round, tasks, overlap, races, cmd>>
Mend  == /\ \/ /\ \E x \in lost : lost' = lost \ {x}
               /\ UNCHANGED down
            \/ /\ \E m \in down : down' = down \ {m}
               /\ UNCHANGED lost
         /\ UNCHANGED <<chosen, store, main, round, tasks, overlap, faults, races, cmd>>

Do(t)  == Start(t) \/ Ensure(t) \/ Expire(t) \/ Sync(t) \/ Prune(t)
CmdStep(x, k) == CmdNew(x, k) \/ CmdLocal(x, k) \/ CmdMirror(x, k)
Cmd    == CmdBegin \/ \E s \in cmd.left : CmdStep(s[1], s[2])
Next == \/ Begin \/ AnswerError \/ AnswerNil \/ (\E t \in tasks : Do(t))
        \/ Cmd \/ Break \/ Mend
Spec == Init /\ [][Next]_vars

\* The ticker (or the timer that calls `btrsync run`), the goroutines and Wait
\* go on.  Nobody has to mend anything, take a snapshot or prune by hand.
FairSpec == /\ Spec
            /\ WF_vars(Begin)
            /\ WF_vars(AnswerError \/ AnswerNil)
            /\ WF_vars(\E t \in tasks : Do(t))

-----------------------------------------------------------------------------
\* Type correctness; only the run that is waited for keeps its errors, and
\* only directories that exist hold snapshots.
TypeOK == /\ chosen \in DOMAIN Configs
          /\ main \in {"idle", "snapshots", "sync"}
          /\ round \in {0, 1} /\ overlap \in BOOLEAN
          /\ \A t \in tasks : /\ t.round \in {0, 1} /\ t.sub \in plan.subs /\ t.mirror \in 0..Len(MirrorsOf(t.sub))
                              /\ t.at \in {"waiting", "failed", "ensure", "expire", "sync", "prune"}
                              /\ t.at = "failed" => t \in Batch
          /\ taken \in [Indices -> 0..MaxSnaps]
          /\ \A x \in Indices : local[x] \subseteq 1..taken[x]
          /\ \A e \in mirrored : /\ [mirror |-> e.mirror, dir |-> e.dir] \in made
                                 /\ e.sub \in plan.subs /\ e.snap \in 1..taken[e.sub]
          /\ lost \subseteq plan.subs /\ down \subseteq MirrorNames
          /\ faults \in 0..setting.faults /\ races \in 0..setting.races
          /\ cmd.at \in {"next", "prune"} /\ cmd.view \subseteq 1..MaxSnaps

\* A configuration as the documentation has it: names without dots, snapshots
\* named by default, no mirror named twice for a subvolume.
WellNamed == plan.documented

\* What the mirror modules take for granted: one sync at a time is at work in a
\* directory of a mirror.  It is so as long as no run was left behind at work.
Writing(t) == t.at \in {"sync", "prune"}
OneWriter == WellNamed /\ ~overlap =>
    \A t, u \in {v \in tasks : Writing(v)} :
        Place(t.sub, t.mirror) = Place(u.sub, u.mirror) => t = u

\* Nothing leaves a mirror that is still at its source: neither by a prune
\* that began before the snapshot was taken, nor by that of another subvolume
\* or of `btrsync prune`.
PrunedAreGone ==
    [][WellNamed /\ ~overlap =>
          \A e \in mirrored \ mirrored' : e.snap \notin local[e.sub]]_vars

Served(x, k) == x \in plan.enabled /\ k \in DOMAIN MirrorsOf(x) /\ ~Mirror(x, k).disabled

\* A run without an error has brought the newest snapshot of every subvolume to
\* every one of its mirrors, when the queue lost nothing and no other run was
\* at work.
Newest(x, k) == local[x] = {} \/ Max(local[x]) \in Stored(Place(x, k), x)
NilMeansMirrored ==
    [][(/\ main = "sync" /\ main' = "idle"
        /\ \A t \in Batch : t.at # "failed"
        /\ races' = setting.races /\ WellNamed /\ ~overlap)
       => \A x \in Indices, k \in 1..2 : Served(x, k) => Newest(x, k)]_vars

\* The mirrors of a plan where a prune lists nothing of another directory: no
\* other name begins with this one's, and a subvolume mirror of another host
\* serves this subvolume only.
Sharing(pl, x, m) == {y \in pl.enabled \ {x} : \E l \in DOMAIN pl.mirrors[y] : pl.mirrors[y][l] = m}
ClearMirror(pl, x, m) ==
    CASE ~Subvolumes(m)            -> TRUE
      [] Subvolumes(m) /\ m.remote -> Sharing(pl, x, m) = {}
      [] OTHER -> m.isRoot /\ \A y \in Sharing(pl, x, m) : ~IsPrefix(pl.dir[x], pl.dir[y])
ClearIn(pl) == UNION {{<<x, k>> : k \in {l \in DOMAIN pl.mirrors[x] : ClearMirror(pl, x, pl.mirrors[x][l])}} : x \in pl.enabled}
Clears == [n \in DOMAIN Configs |-> ClearIn(Plans[n])]
Clear(x, k) == <<x, k>> \in Clears[chosen]

\* What it takes for a mirror to be served for ever: every subvolume can be
\* looked up, since one that cannot ends every run before the syncs.  Of the
\* mirrors, a daemon asks this one only; outside a daemon the first error ends
\* the process and every other sync with it.
Works(x, k) == /\ lost = {} /\ Served(x, k) /\ WellNamed
               /\ IF setting.daemon THEN Mirror(x, k).name \notin down
                  ELSE /\ down = {}
                       /\ \A y \in plan.enabled : \A l \in DOMAIN MirrorsOf(y) : Clear(y, l)
InSync(x, k) == IF Clear(x, k) THEN Stored(Place(x, k), x) = local[x] ELSE Newest(x, k)

\* A mirror that works is, again and again, in accord with its source, also
\* after functions were lost, runs overlapped, and while other mirrors are down.
Converges == \A x \in Indices, k \in 1..2 : <>[]Works(x, k) => []<>(Works(x, k) => InSync(x, k))
=============================================================================
