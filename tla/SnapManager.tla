----------------------------- MODULE SnapManager -----------------------------
(***************************************************************************)
(* Snapshots of one subvolume: SnapManager of                              *)
(* pkg/cmd/snapmanager/snapmanager.go, as `btrsync run` (handleSnapshots   *)
(* of pkg/cmd/run.go) and `btrsync prune` (pruneLocalSnapshots of          *)
(* pkg/cmd/prune.go) drive it.                                             *)
(*                                                                         *)
(* A run looks the snapshots up once, takes a new one when the newest is   *)
(* old enough, and deletes those that are too old or too close to one it   *)
(* keeps.  Nothing locks the snapshot directory: other runs, and time, go  *)
(* on between any two of its steps.  A snapshot is identified by the time  *)
(* it was taken, which is in its name.                                     *)
(***************************************************************************)
EXTENDS Integers, FiniteSets, FiniteSetsExt

CONSTANTS Settings,           (* what may be configured, see IsSettings    *)
          Procs,              (* the processes (or overlapping runs)       *)
          Runners,            (* those that take snapshots: `btrsync run`  *)
          MaxTime             (* bound: when the clock stops               *)

\* The four durations of a subvolume; the processes there are, and the bound on
\* crashes and suspensions.
IsSettings(c) ==
    /\ {c.interval, c.minRetention, c.retention, c.retentionInterval, c.faults} \subseteq Nat
    /\ c.procs \subseteq Procs

\* What ValidateSubvolume (pkg/cmd/config/config.go) lets through.
Validated(c) == /\ c.interval < c.minRetention
                /\ c.retention > c.minRetention
                /\ c.retentionInterval < c.retention

ASSUME SettingsAssumption == \A c \in Settings : IsSettings(c) /\ Validated(c)

ASSUME ProcsAssumption == IsFiniteSet(Procs) /\ Runners \subseteq Procs /\ MaxTime \in Nat

VARIABLES
  settings, (* the configuration                                             *)
  now,     (* the clock                                                    *)
  taken,   (* history: every snapshot ever taken                           *)
  snaps,   (* the snapshots on disk                                        *)
  half,    (* those whose contents have begun to go                        *)
  faults,  (* crashes and suspensions left                                 *)
  pc,      (* where each process is                                        *)
  view,    (* rootInfo.Snapshots, as looked up when the run began          *)
  todo,    (* what the loop it is in has left to consider                  *)
  picked,  (* what that loop has collected: remaining, snapshots, toDel    *)
  victim   (* the snapshot being deleted                                   *)

Interval          == settings.interval
MinRetention      == settings.minRetention
Retention         == settings.retention
RetentionInterval == settings.retentionInterval

disk == <<settings, taken, snaps, half>>
vars == <<now, disk, faults, pc, view, todo, picked, victim>>

Times == 0..MaxTime
Old(s, age) == now - s > age

Goto(p, label) == pc' = [pc EXCEPT ![p] = label]

\* The run ends, well or with an error, and its variables with it.
Return(p) == /\ Goto(p, "idle")
             /\ view' = [view EXCEPT ![p] = {}]
             /\ todo' = [todo EXCEPT ![p] = {}]
             /\ picked' = [picked EXCEPT ![p] = {}]
             /\ victim' = [victim EXCEPT ![p] = 0]

Init == /\ settings \in Settings
        /\ now = 0 /\ faults = settings.faults
        /\ taken = {} /\ snaps = {} /\ half = {}
        /\ pc = [p \in Procs |-> "idle"]
        /\ view = [p \in Procs |-> {}]
        /\ todo = [p \in Procs |-> {}]
        /\ picked = [p \in Procs |-> {}]
        /\ victim = [p \in Procs |-> 0]

\* Time passes anywhere; but the loop that filters does nothing else than
\* read the clock, and only a suspended machine makes it notice.
Tick == /\ now < MaxTime
        /\ now' = now + 1
        /\ \/ /\ \A p \in Procs : pc[p] # "filter"
              /\ UNCHANGED faults
           \/ /\ faults > 0
              /\ faults' = faults - 1
        /\ UNCHANGED <<disk, pc, view, todo, picked, victim>>

\* New: ResolveSubvolumeDetails reads what is there, half-deleted or not.
New(p) == /\ pc[p] = "idle" /\ p \in settings.procs
          /\ view' = [view EXCEPT ![p] = snaps]
          /\ todo' = [todo EXCEPT ![p] = snaps]
          /\ picked' = [picked EXCEPT ![p] = {}]
          /\ Goto(p, IF p \in Runners THEN "ensure" ELSE "expire")
          /\ UNCHANGED <<now, disk, faults, victim>>

-----------------------------------------------------------------------------
(* EnsureMostRecentSnapshot.                                               *)

\* Seeded faults: measured from the oldest, or one instant late.
DueFromOldest(p) == view[p] = {} \/ now - Min(view[p]) >= Interval
DueLate(p)       == view[p] = {} \/ now - Max(view[p]) > Interval

\* The newest snapshot known is recent enough, or one is due.
Due(p) == view[p] = {} \/ now - Max(view[p]) >= Interval

Ensure(p) == /\ pc[p] = "ensure"
             /\ Goto(p, IF Due(p) THEN "create" ELSE "expire")
             /\ UNCHANGED <<now, disk, faults, view, todo, picked, victim>>

\* The new snapshot is not added to the view.
Create(p) == /\ pc[p] = "create"
             /\ now \notin snaps
             /\ taken' = taken \cup {now}
             /\ snaps' = snaps \cup {now}
             /\ Goto(p, "expire")
             /\ UNCHANGED <<now, settings, half, faults, view, todo, picked, victim>>

\* The name is taken: the error ends the run.
CreateExists(p) == /\ pc[p] = "create"
                   /\ now \in snaps
                   /\ Return(p)
                   /\ UNCHANGED <<now, disk, faults>>

-----------------------------------------------------------------------------
(* PruneSnapshots.                                                         *)

Oldest(p)  == Min(todo[p])
Expired(s) == Old(s, Retention)

\* First loop: delete what is past the retention period, remember the rest.
\* The list is in the order of the subvolumes' ids, oldest first.
Expire(p) == /\ pc[p] = "expire"
             /\ todo[p] # {}
             /\ todo' = [todo EXCEPT ![p] = @ \ {Oldest(p)}]
             /\ \/ /\ Expired(Oldest(p))
                   /\ victim' = [victim EXCEPT ![p] = Oldest(p)]
                   /\ Goto(p, "expiring")
                   /\ UNCHANGED picked
                \/ /\ ~Expired(Oldest(p))
                   /\ picked' = [picked EXCEPT ![p] = @ \cup {Oldest(p)}]
                   /\ UNCHANGED <<pc, victim>>
             /\ UNCHANGED <<now, disk, faults, view>>

\* Without a retention interval the rest is left alone.
ExpireDone(p) == /\ pc[p] = "expire"
                 /\ todo[p] = {}
                 /\ view' = [view EXCEPT ![p] = picked[p]]
                 /\ todo' = [todo EXCEPT ![p] = IF RetentionInterval = 0 THEN {} ELSE picked[p]]
                 /\ picked' = [picked EXCEPT ![p] = {}]
                 /\ Goto(p, IF RetentionInterval = 0 THEN "thin" ELSE "filter")
                 /\ UNCHANGED <<now, disk, faults, victim>>

\* Seeded fault: no minimum retention.
WithinMaximum(s) == now - s < Retention
LongTerm(s)      == now - s < Retention /\ Old(s, MinRetention)

\* Second loop: those between the minimum and the maximum retention.  The
\* clock is read anew for each.
Filter(p) == /\ pc[p] = "filter"
             /\ todo[p] # {}
             /\ todo' = [todo EXCEPT ![p] = @ \ {Oldest(p)}]
             /\ picked' = [picked EXCEPT ![p] =
                   IF LongTerm(Oldest(p)) THEN @ \cup {Oldest(p)} ELSE @]
             /\ UNCHANGED <<now, disk, faults, pc, view, victim>>

\* Seeded fault: a chunk measured from the snapshot before.
ChunkHeadsDrift(S) == {s \in S : \A t \in S : t < s => s - t > RetentionInterval}

\* toTimedChunks, the snapshots in ascending order: a chunk begins with each that is
\* further than the interval from where the last chunk, and so every one, began.
ChunkHeads(S) ==
    LET begins[s \in Times] ==
          s \in S /\ \A t \in S : t < s /\ begins[t] => s - t > RetentionInterval
    IN {s \in S : begins[s]}

FilterDone(p) == /\ pc[p] = "filter"
                 /\ todo[p] = {}
                 /\ todo' = [todo EXCEPT ![p] = picked[p] \ ChunkHeads(picked[p])]
                 /\ picked' = [picked EXCEPT ![p] = {}]
                 /\ Goto(p, "thin")
                 /\ UNCHANGED <<now, disk, faults, view, victim>>

\* Third loop: all but the first snapshot of each chunk are deleted.
Thin(p) == /\ pc[p] = "thin"
           /\ todo[p] # {}
           /\ victim' = [victim EXCEPT ![p] = Oldest(p)]
           /\ todo' = [todo EXCEPT ![p] = @ \ {Oldest(p)}]
           /\ Goto(p, "thinning")
           /\ UNCHANGED <<now, disk, faults, view, picked>>

ThinDone(p) == /\ pc[p] = "thin"
               /\ todo[p] = {}
               /\ Return(p)
               /\ UNCHANGED <<now, disk, faults>>

-----------------------------------------------------------------------------
(* btrfs.DeleteSubvolume (pkg/btrfs/subvolume.go): open it, make it        *)
(* writable, remove its contents and then the snapshot.                    *)

\* Another process has deleted it: the error ends the run.
DeleteMissing(p) == /\ pc[p] \in {"expiring", "thinning"}
                    /\ victim[p] \notin snaps
                    /\ Return(p)
                    /\ UNCHANGED <<now, disk, faults>>

\* Seeded faults: the error of the open ignored; a read-only snapshot left alone.
DeleteUnopened(p) == /\ pc[p] \in {"expiring", "thinning"}
                     /\ half' = half \cup {victim[p]}
                     /\ Goto(p, IF pc[p] = "expiring" THEN "expiring2" ELSE "thinning2")
                     /\ UNCHANGED <<now, settings, taken, snaps, faults, view, todo, picked, victim>>

DeleteUnforced(p) == /\ pc[p] \in {"expiring", "thinning"}
                     /\ victim[p] \in snaps
                     /\ Return(p)
                     /\ UNCHANGED <<now, disk, faults>>

DeleteBegin(p) == /\ pc[p] \in {"expiring", "thinning"}
                  /\ victim[p] \in snaps
                  /\ half' = half \cup {victim[p]}
                  /\ Goto(p, IF pc[p] = "expiring" THEN "expiring2" ELSE "thinning2")
                  /\ UNCHANGED <<now, settings, taken, snaps, faults, view, todo, picked, victim>>

\* os.RemoveAll succeeds as well when someone else was quicker.
DeleteEnd(p) == /\ pc[p] \in {"expiring2", "thinning2"}
                /\ snaps' = snaps \ {victim[p]}
                /\ half' = half \ {victim[p]}
                /\ Goto(p, IF pc[p] = "expiring2" THEN "expire" ELSE "thin")
                /\ UNCHANGED <<now, settings, taken, faults, view, todo, picked, victim>>

Crash(p) == /\ faults > 0
            /\ pc[p] # "idle"
            /\ faults' = faults - 1
            /\ Return(p)
            /\ UNCHANGED <<now, disk>>

-----------------------------------------------------------------------------
Work(p) == \/ Ensure(p) \/ Create(p) \/ CreateExists(p)
           \/ Expire(p) \/ ExpireDone(p) \/ Filter(p) \/ FilterDone(p)
           \/ Thin(p) \/ ThinDone(p)
           \/ DeleteMissing(p) \/ DeleteBegin(p) \/ DeleteEnd(p)

Next == Tick \/ \E p \in Procs : New(p) \/ Work(p) \/ Crash(p)

Spec == Init /\ [][Next]_vars

\* The daemon starts a run on every tick of its ticker and every run goes on;
\* nothing makes anyone prune by hand.
FairSpec == /\ Spec
            /\ \A p \in Procs : WF_vars(Work(p))
            /\ \A p \in Runners : WF_vars(New(p))
-----------------------------------------------------------------------------
\* Type correctness of the disk and of every run's variables.
TypeOK == /\ settings \in Settings
          /\ now \in Times /\ faults \in 0..settings.faults
          /\ taken \subseteq 0..now /\ snaps \subseteq taken /\ half \subseteq snaps
          /\ pc \in [Procs -> {"idle", "ensure", "create", "expire", "expiring", "expiring2",
                               "filter", "thin", "thinning", "thinning2"}]
          /\ view \in [Procs -> SUBSET taken]
          /\ todo \in [Procs -> SUBSET taken]
          /\ picked \in [Procs -> SUBSET taken]
          /\ victim \in [Procs -> Times]

\* "Keep all snapshots at least a day" (config.go): nothing, however stale the
\* lists of the runs are, touches a snapshot younger than the minimum retention.
YoungStay == [][\A s \in taken : now - s <= MinRetention =>
                   /\ s \in snaps => s \in snaps'
                   /\ s \in half' => s \in half]_vars

\* As long as a snapshot's interval lies within the retention period, the
\* state it recorded can be recovered to within one retention interval before
\* it.
Retained(t) == now - t <= Retention - RetentionInterval =>
                   \E s \in snaps \ half : s <= t /\ t - s <= RetentionInterval

\* "One snapshot retained per day" (config.go): every snapshot ever taken is
\* covered in that way, as long as no crash cut a deletion short, the filter
\* saw one time for all snapshots, and no other run was at work: two that thin
\* out lists they read at different times delete each other's choices.
OnePerInterval == faults = settings.faults /\ Cardinality(settings.procs) = 1 =>
                      \A t \in taken : Retained(t)

\* "Hourly snapshots" (config.go): within any interval each process takes one
\* at most, although it decides on a list it looked up earlier, while others
\* take and delete snapshots.
Spaced == \A t \in Times : Cardinality({s \in taken : t <= s /\ s - t < Interval}) <= Cardinality(Runners \cap settings.procs)

\* When a run goes on from EnsureMostRecentSnapshot to pruning, a complete
\* snapshot within the interval is on disk, whatever has been deleted since
\* the run looked.
EnsuresRecent ==
    [][\A p \in Procs :
          pc[p] \in {"ensure", "create"} /\ pc'[p] = "expire" =>
              \E s \in snaps' \ half' : s = now \/ now - s < Interval]_vars

\* A snapshot past the retention period is deleted in the end, also when the
\* processes get in each other's way.
ExpiredGoes == \A s \in {t \in Times : \E c \in Settings : MaxTime - t > c.retention} :
                   (s \in snaps /\ now - s > Retention) ~> s \notin snaps

-----------------------------------------------------------------------------
(* What the documentation says without exceptions.                         *)

\* btrsync.example.toml: "Retain 1 snapshot per day".
AlwaysOnePerInterval == \A t \in taken : Retained(t)
=============================================================================
