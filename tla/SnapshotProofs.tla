--------------------------- MODULE SnapshotProofs ---------------------------
(***************************************************************************)
(* Theorems about the snapshots: SnapManager, which takes, expires and     *)
(* thins them, for every configuration that validates, every set of        *)
(* processes and every bound on the clock; and SubvolumeTree, by which     *)
(* they are found, for every filesystem to begin with, every number of     *)
(* roots, every size of batch and any number of tries and changes.         *)
(***************************************************************************)
EXTENDS SnapManager, SubvolumeTree, FiniteSetTheorems, WellFoundedInduction, TLAPS

Young(s) == now - s <= MinRetention

Deleting(p) == pc[p] \in {"expiring", "expiring2", "thinning", "thinning2"}
Thinning(p) == pc[p] \in {"thin", "thinning", "thinning2"}

\* What is deleted, and what the loops have chosen to delete, is past the
\* minimum retention; so what is younger is still there, whole.
Aged == /\ \A p \in Procs : /\ Deleting(p) => ~Young(victim[p])
                            /\ pc[p] = "filter" => \A s \in picked[p] : ~Young(s)
                            /\ Thinning(p) => \A s \in todo[p] : ~Young(s)
        /\ \A s \in half : ~Young(s)
        /\ \A s \in taken : Young(s) => s \in snaps

Takers == Runners \cap settings.procs

\* Who took which snapshot: those of one process are an interval apart, and a
\* process about to take another knows its own, or they are old enough.
Owns(owner) ==
    /\ \A s, t \in taken : s < t /\ owner[s] = owner[t] => t - s >= Interval
    /\ \A p \in Procs :
          /\ pc[p] = "ensure" =>
                \A s \in taken : owner[s] = p => s \in view[p] \/ now - s >= Interval
          /\ pc[p] = "create" =>
                \A s \in taken : owner[s] = p => now - s >= Interval

Owned == /\ \A p \in Procs : pc[p] \in {"ensure", "create"} => p \in Takers
         /\ \E owner \in [taken -> Takers] : Owns(owner)

\* The rest is about one run that nothing disturbs.
Undisturbed == faults = settings.faults /\ Cardinality(settings.procs) = 1

\* What the run is deleting, or has chosen to delete; what will stay.
Doomed(p) == (IF Thinning(p) THEN todo[p] ELSE {}) \cup (IF Deleting(p) THEN {victim[p]} ELSE {})
Staying   == (snaps \ half) \ UNION {Doomed(p) : p \in Procs}

\* What the run knows of the disk: what it deletes is there, and in the first loop
\* expired; what is not on the list it works from is newer than all of it; the filter
\* sees one time.
Listed(p) == todo[p] \cup picked[p]
Knows(p) ==
    /\ half = IF pc[p] \in {"expiring2", "thinning2"} THEN {victim[p]} ELSE {}
    /\ todo[p] \cap picked[p] = {}
    /\ Deleting(p) => victim[p] \in snaps /\ victim[p] \notin Listed(p)
    /\ pc[p] \in {"expiring", "expiring2"} => Expired(victim[p])
    /\ pc[p] # "idle" => Listed(p) \subseteq snaps
    /\ pc[p] \in {"ensure", "create", "expire", "expiring", "expiring2"} =>
          \A s \in snaps \ Listed(p), l \in Listed(p) : l < s \/ (Deleting(p) /\ s = victim[p])
    /\ pc[p] = "filter" =>
          /\ view[p] \subseteq snaps /\ todo[p] \subseteq view[p]
          /\ \A s \in snaps \ view[p], l \in view[p] : l < s
          /\ picked[p] = {s \in view[p] \ todo[p] : LongTerm(s)}

\* A snapshot that the filter will find to begin a chunk, whenever it runs.
Leads(h) == \A s \in Staying : s < h /\ now - s < Retention => h - s > RetentionInterval

\* Whatever is gone was within the interval behind one that stays for as long.
Covered(t) == \E h \in Staying : h <= t /\ t - h <= RetentionInterval /\ (h = t \/ Leads(h))

Thinned == /\ \A p \in Procs \ settings.procs : pc[p] = "idle"
           /\ Undisturbed =>
                 /\ \A p \in settings.procs : Knows(p)
                 /\ \A t \in taken : now - t <= Retention - RetentionInterval => Covered(t)

\* The inductive invariant.
IInv == TypeOK /\ Aged /\ Owned /\ Thinned

-----------------------------------------------------------------------------
\* The durations are naturals in the order that ValidateSubvolume demands.
LEMMA Durations ==
  ASSUME settings \in Settings
  PROVE  /\ Interval \in Nat /\ MinRetention \in Nat
         /\ Retention \in Nat /\ RetentionInterval \in Nat
         /\ Interval < MinRetention /\ MinRetention < Retention
         /\ settings.faults \in Nat
BY SettingsAssumption
   DEF IsSettings, Validated, Interval, MinRetention, Retention, RetentionInterval

\* Snapshots are numbered by the time they were taken, none later than now.
LEMMA Timed ==
  ASSUME TypeOK
  PROVE  /\ now \in Nat /\ taken \subseteq 0..now /\ snaps \subseteq taken /\ half \subseteq taken
         /\ \A p \in Procs : /\ view[p] \subseteq taken /\ todo[p] \subseteq taken
                             /\ picked[p] \subseteq taken /\ victim[p] \in Nat
BY ProcsAssumption DEF TypeOK, Times

\* A set of numbers that is not empty has a least.
LEMMA LeastIs ==
  ASSUME NEW S \in SUBSET Nat, S # {}
  PROVE  \E m \in S : \A k \in S : m <= k
<1>1. PICK m \in S : \A y \in S : ~(<<y, m>> \in OpToRel(<, Nat))
  BY WFMin, NatLessThanWellFounded, Zenon
<1>2. \A y \in S : ~(y < m)
  BY <1>1 DEF OpToRel
<1>3. QED
  BY <1>2

\* A list of snapshots that is not empty has an oldest and a newest.
LEMMA Ends ==
  ASSUME NEW n \in Nat, NEW S \in SUBSET (0..n), S # {}
  PROVE  /\ Min(S) \in S /\ \A y \in S : Min(S) <= y
         /\ Max(S) \in S /\ \A y \in S : Max(S) >= y
<1>1. \A T \in SUBSET Nat : T # {} => \E x \in T : \A y \in T : x <= y
  BY LeastIs, Zenon
<1>2. PICK x \in S : \A y \in S : x <= y
  BY <1>1
<1> DEFINE T == {n - s : s \in S}
<1>3. T \in SUBSET Nat /\ T # {}
  OBVIOUS
<1>4. PICK t \in T : \A u \in T : t <= u
  BY <1>1, <1>3
<1>5. PICK z \in S : t = n - z
  OBVIOUS
<1>6. \A y \in S : z >= y
  BY <1>4, <1>5
<1>7. QED
  BY <1>2, <1>6 DEF Min, Max

\* The snapshot a loop takes next is one of those left to it.
LEMMA OldestIn ==
  ASSUME TypeOK, NEW p \in Procs, todo[p] # {}
  PROVE  Oldest(p) \in todo[p]
<1>1. todo[p] \in SUBSET (0..now) /\ now \in Nat
  BY Timed
<1>2. QED
  BY <1>1, Ends DEF Oldest

\* The newest snapshot a run knows is one of those it knows, none is newer.
LEMMA NewestIn ==
  ASSUME TypeOK, NEW p \in Procs, view[p] # {}
  PROVE  Max(view[p]) \in view[p] /\ \A s \in view[p] : s <= Max(view[p])
<1>1. view[p] \in SUBSET (0..now) /\ now \in Nat
  BY Timed
<1>2. Max(view[p]) \in view[p] /\ \A s \in view[p] : Max(view[p]) >= s
  BY <1>1, Ends
<1>3. QED
  BY <1>1, <1>2

\* What holds of 0 and of n+1 when it holds of n holds of every natural: the
\* induction that a set of counterexamples without a least element gives.
LEMMA NatSetInduction ==
  ASSUME NEW P \in SUBSET Nat, 0 \in P, \A n \in P : n + 1 \in P
  PROVE  P = Nat
<1> SUFFICES ASSUME Nat \ P # {} PROVE FALSE
  OBVIOUS
<1>1. PICK m \in Nat \ P : \A y \in Nat \ P : ~(<<y, m>> \in OpToRel(<, Nat))
  BY WFMin, NatLessThanWellFounded, Zenon
<1>2. \A y \in Nat \ P : ~(y < m)
  BY <1>1 DEF OpToRel
<1>3. m - 1 \in P
  BY <1>2
<1>4. QED
  BY <1>3

-----------------------------------------------------------------------------
(* The beginnings of chunks.                                               *)

\* Where toTimedChunks has got to at time n.
Beginnings(S, f, n) ==
    f = [s \in 0..n |-> s \in S /\ \A t \in S : t < s /\ f[t] => s - t > RetentionInterval]

\* The recursive function of ChunkHeads exists.
LEMMA BeginsDefined ==
  ASSUME NEW S \in SUBSET Nat
  PROVE  \A n \in Nat : \E f : Beginnings(S, f, n)
<1> DEFINE P == {n \in Nat : \E f : Beginnings(S, f, n)}
<1>1. 0 \in P
  <2> DEFINE f == [s \in 0..0 |-> s \in S]
  <2>1. f = [s \in 0..0 |-> s \in S /\ \A t \in S : t < s /\ f[t] => s - t > RetentionInterval]
    OBVIOUS
  <2> HIDE DEF f
  <2>2. Beginnings(S, f, 0)
    BY <2>1 DEF Beginnings
  <2>3. QED
    BY <2>2
<1>2. ASSUME NEW n \in P PROVE n + 1 \in P
  <2>1. PICK f : Beginnings(S, f, n)
    OBVIOUS
  <2>2. n \in Nat
    OBVIOUS
  <2> DEFINE Far(g, s) == s \in S /\ \A t \in S : t < s /\ g[t] => s - t > RetentionInterval
             g == [s \in 0..(n + 1) |-> IF s <= n THEN f[s] ELSE Far(f, s)]
  <2>3. \A s \in 0..n : f[s] = Far(f, s)
    BY <2>1 DEF Beginnings
  <2>4. \A s \in 0..n : g[s] = f[s]
    BY <2>2
  <2>5. \A s \in 0..(n + 1), t \in S : t < s => t \in 0..n
    BY <2>2
  <2>6. \A s \in 0..(n + 1) : Far(g, s) = Far(f, s)
    <3>1. \A s \in 0..(n + 1), t \in S : t < s => g[t] = f[t]
      BY <2>4, <2>5
    <3> HIDE DEF g
    <3>2. QED
      BY <3>1
  <2>7. \A s \in 0..(n + 1) : g[s] = Far(f, s)
    BY <2>2, <2>3
  <2>8. g = [s \in 0..(n + 1) |-> Far(f, s)]
    BY <2>7
  <2> HIDE DEF g
  <2>9. g = [s \in 0..(n + 1) |-> Far(g, s)]
    BY <2>6, <2>8
  <2>10. Beginnings(S, g, n + 1)
    BY <2>9 DEF Beginnings
  <2>11. QED
    BY <2>2, <2>10
<1>3. P = Nat
  BY <1>1, <1>2, NatSetInduction
<1>4. QED
  BY <1>3

\* A snapshot begins a chunk if and only if it is further than the interval from
\* each beginning before it.
LEMMA ChunkHeadsAre ==
  ASSUME NEW S \in SUBSET Times, NEW s \in S
  PROVE  s \in ChunkHeads(S) <=>
            \A t \in ChunkHeads(S) : t < s => s - t > RetentionInterval
<1>1. MaxTime \in Nat /\ Times = 0..MaxTime /\ S \in SUBSET Nat
  BY ProcsAssumption DEF Times
<1>2. PICK f : Beginnings(S, f, MaxTime) /\ ChunkHeads(S) = {u \in S : f[u]}
  <2>1. ChunkHeads(S) = {u \in S : (CHOOSE f : Beginnings(S, f, MaxTime))[u]}
    BY <1>1 DEF ChunkHeads, Beginnings
  <2>2. QED
    BY <1>1, <2>1, BeginsDefined
<1>3. f[s] = (s \in S /\ \A t \in S : t < s /\ f[t] => s - t > RetentionInterval)
  BY <1>1, <1>2 DEF Beginnings
<1>4. QED
  BY <1>2, <1>3

-----------------------------------------------------------------------------
\* The types are kept by every step.
LEMMA InitTypeOK == Init => TypeOK
BY ProcsAssumption, Durations DEF Init, TypeOK, Times

LEMMA TypeStep == TypeOK /\ [Next]_vars => TypeOK'
<1> SUFFICES ASSUME TypeOK, [Next]_vars PROVE TypeOK'
  OBVIOUS
<1> USE DEF disk, Goto
<1>1. CASE UNCHANGED vars
  BY <1>1 DEF vars, TypeOK
<1>2. CASE Tick
  <2>1. now \in Nat /\ now' \in Times /\ 0..now \subseteq 0..now'
    BY <1>2, ProcsAssumption DEF Tick, TypeOK, Times
  <2>2. faults' \in 0..settings'.faults
    BY <1>2, Durations DEF Tick, TypeOK
  <2>3. QED
    BY <1>2, <2>1, <2>2 DEF Tick, TypeOK
<1>3. ASSUME NEW p \in Procs, New(p) PROVE TypeOK'
  BY <1>3 DEF New, TypeOK
<1>4. ASSUME NEW p \in Procs, Ensure(p) PROVE TypeOK'
  BY <1>4 DEF Ensure, TypeOK
<1>5. ASSUME NEW p \in Procs, Create(p) PROVE TypeOK'
  <2>1. taken' \subseteq 0..now'
    BY <1>5, Timed DEF Create
  <2>2. snaps' \subseteq taken' /\ half' \subseteq snaps' /\ SUBSET taken \subseteq SUBSET taken'
    BY <1>5 DEF Create, TypeOK
  <2>3. view' \in [Procs -> SUBSET taken'] /\ todo' \in [Procs -> SUBSET taken']
        /\ picked' \in [Procs -> SUBSET taken']
    BY <1>5, <2>2 DEF Create, TypeOK
  <2>4. QED
    BY <1>5, <2>1, <2>2, <2>3 DEF Create, TypeOK
<1>6. ASSUME NEW p \in Procs, CreateExists(p) PROVE TypeOK'
  BY <1>6, ProcsAssumption DEF CreateExists, Return, TypeOK, Times
<1>7. ASSUME NEW p \in Procs, Expire(p) PROVE TypeOK'
  <2>1. Oldest(p) \in todo[p] /\ todo[p] \subseteq taken /\ taken \subseteq Times
    BY <1>7, OldestIn, Timed, ProcsAssumption DEF Expire, TypeOK, Times
  <2>2. todo' \in [Procs -> SUBSET taken] /\ picked' \in [Procs -> SUBSET taken]
    BY <1>7, <2>1 DEF Expire, TypeOK
  <2>3. victim' \in [Procs -> Times]
    BY <1>7, <2>1 DEF Expire, TypeOK
  <2>4. QED
    BY <1>7, <2>2, <2>3 DEF Expire, TypeOK
<1>8. ASSUME NEW p \in Procs, ExpireDone(p) PROVE TypeOK'
  BY <1>8 DEF ExpireDone, TypeOK
<1>9. ASSUME NEW p \in Procs, Filter(p) PROVE TypeOK'
  <2>1. Oldest(p) \in todo[p]
    BY <1>9, OldestIn DEF Filter
  <2>2. QED
    BY <1>9, <2>1 DEF Filter, TypeOK
<1>10. ASSUME NEW p \in Procs, FilterDone(p) PROVE TypeOK'
  BY <1>10 DEF FilterDone, TypeOK
<1>11. ASSUME NEW p \in Procs, Thin(p) PROVE TypeOK'
  <2>1. Oldest(p) \in todo[p] /\ todo[p] \subseteq taken /\ taken \subseteq Times
    BY <1>11, OldestIn, Timed, ProcsAssumption DEF Thin, TypeOK, Times
  <2>2. QED
    BY <1>11, <2>1 DEF Thin, TypeOK
<1>12. ASSUME NEW p \in Procs, ThinDone(p) PROVE TypeOK'
  BY <1>12, ProcsAssumption DEF ThinDone, Return, TypeOK, Times
<1>13. ASSUME NEW p \in Procs, DeleteMissing(p) PROVE TypeOK'
  BY <1>13, ProcsAssumption DEF DeleteMissing, Return, TypeOK, Times
<1>14. ASSUME NEW p \in Procs, DeleteBegin(p) PROVE TypeOK'
  BY <1>14 DEF DeleteBegin, TypeOK
<1>15. ASSUME NEW p \in Procs, DeleteEnd(p) PROVE TypeOK'
  BY <1>15 DEF DeleteEnd, TypeOK
<1>16. ASSUME NEW p \in Procs, Crash(p) PROVE TypeOK'
  BY <1>16, ProcsAssumption, Durations DEF Crash, Return, TypeOK, Times
<1>17. QED
  BY <1>1, <1>2, <1>3, <1>4, <1>5, <1>6, <1>7, <1>8, <1>9, <1>10, <1>11,
     <1>12, <1>13, <1>14, <1>15, <1>16 DEF Next, Work

-----------------------------------------------------------------------------
\* Snapshots only get older.
LEMMA StayOld ==
  ASSUME TypeOK, [Next]_vars
  PROVE  now \in Nat /\ \A s \in Nat : ~Young(s) => ~Young(s)'
<1>1. settings' = settings /\ now \in Nat /\ (now' = now \/ now' = now + 1)
  BY Timed DEF Next, vars, disk, Tick, New, Work, Crash, Ensure, Create, CreateExists,
     Expire, ExpireDone, Filter, FilterDone, Thin, ThinDone,
     DeleteMissing, DeleteBegin, DeleteEnd
<1>2. MinRetention \in Nat /\ MinRetention' = MinRetention
  BY <1>1, Durations DEF TypeOK, MinRetention
<1>3. QED
  BY <1>1, <1>2 DEF Young

\* No step lets a loop choose, or delete, a snapshot within the minimum
\* retention.
LEMMA InitAged == Init => Aged
BY DEF Init, Aged, Deleting, Thinning

LEMMA AgedStep == TypeOK /\ Aged /\ [Next]_vars => Aged'
<1> SUFFICES ASSUME TypeOK, Aged, [Next]_vars PROVE Aged'
  OBVIOUS
<1> USE Timed DEF disk, Goto, Deleting, Thinning
<1>0. \A s \in Nat : ~Young(s) => ~Young(s)'
  BY StayOld
<1>a. taken \subseteq Nat /\ half \subseteq Nat
  OBVIOUS
<1>t. pc \in [Procs -> {"idle", "ensure", "create", "expire", "expiring", "expiring2",
                        "filter", "thin", "thinning", "thinning2"}]
      /\ view \in [Procs -> SUBSET taken] /\ todo \in [Procs -> SUBSET taken]
      /\ picked \in [Procs -> SUBSET taken] /\ victim \in [Procs -> Times]
  BY DEF TypeOK
<1>1. CASE UNCHANGED vars
  BY <1>1 DEF vars, Aged, Young, MinRetention
<1>2. CASE Tick
  BY <1>2, <1>0, <1>a DEF Tick, Aged
<1>3. ASSUME NEW p \in Procs, New(p) PROVE Aged'
  BY <1>3, <1>0, <1>a, <1>t DEF New, Aged
<1>4. ASSUME NEW p \in Procs, Ensure(p) PROVE Aged'
  BY <1>4, <1>0, <1>a, <1>t DEF Ensure, Aged
<1>5. ASSUME NEW p \in Procs, Create(p) PROVE Aged'
  BY <1>5, <1>0, <1>a, <1>t DEF Create, Aged
<1>6. ASSUME NEW p \in Procs, CreateExists(p) PROVE Aged'
  BY <1>6, <1>0, <1>a, <1>t DEF CreateExists, Return, Aged
<1>7. ASSUME NEW p \in Procs, Expire(p) PROVE Aged'
  <2>1. Expired(Oldest(p)) => ~Young(Oldest(p))
    <3>1. Oldest(p) \in Nat
      BY <1>7, OldestIn, <1>a DEF Expire
    <3>2. QED
      BY <3>1, Durations DEF Expired, Young, Old, TypeOK
  <2>2. ASSUME NEW q \in Procs
        PROVE  /\ Deleting(q)' => ~Young(victim[q])'
               /\ (pc[q] = "filter")' => \A s \in picked'[q] : ~Young(s)'
               /\ Thinning(q)' => \A s \in todo'[q] : ~Young(s)'
    <3>1. CASE q = p
      <4>1. \/ pc'[p] = "expire"
            \/ pc'[p] = "expiring" /\ victim'[p] = Oldest(p) /\ Expired(Oldest(p))
        BY <1>7, <1>t DEF Expire
      <4>2. Oldest(p) \in Nat
        BY <1>7, OldestIn, <1>a DEF Expire
      <4>3. QED
        BY <3>1, <4>1, <4>2, <2>1, <1>0
    <3>2. CASE q # p
      <4>1. pc'[q] = pc[q] /\ todo'[q] = todo[q] /\ picked'[q] = picked[q] /\ victim'[q] = victim[q]
        BY <1>7, <3>2, <1>t DEF Expire
      <4>2. QED
        BY <4>1, <1>0, <1>a DEF Aged
    <3>3. QED
      BY <3>1, <3>2
  <2>3. QED
    BY <1>7, <2>2, <1>0, <1>a DEF Expire, Aged
<1>8. ASSUME NEW p \in Procs, ExpireDone(p) PROVE Aged'
  BY <1>8, <1>0, <1>a, <1>t DEF ExpireDone, Aged
<1>9. ASSUME NEW p \in Procs, Filter(p) PROVE Aged'
  <2>1. LongTerm(Oldest(p)) => ~Young(Oldest(p))
    <3>1. Oldest(p) \in Nat
      BY <1>9, OldestIn, <1>a DEF Filter
    <3>2. QED
      BY <3>1, Durations DEF LongTerm, Young, Old, TypeOK
  <2>2. ASSUME NEW q \in Procs, pc[q] = "filter", NEW s \in picked'[q] PROVE ~Young(s)'
    <3>1. s \in picked[q] \/ (s = Oldest(p) /\ LongTerm(s))
      BY <1>9, <2>2, <1>t DEF Filter
    <3>2. s \in Nat /\ ~Young(s)
      BY <3>1, <2>1, <2>2, OldestIn, <1>9, <1>a DEF Filter, Aged
    <3>3. QED
      BY <3>2, <1>0
  <2>3. QED
    BY <1>9, <2>2, <1>0, <1>a, <1>t DEF Filter, Aged
<1>10. ASSUME NEW p \in Procs, FilterDone(p) PROVE Aged'
  BY <1>10, <1>0, <1>a, <1>t DEF FilterDone, Aged
<1>11. ASSUME NEW p \in Procs, Thin(p) PROVE Aged'
  BY <1>11, OldestIn, <1>0, <1>a, <1>t DEF Thin, Aged
<1>12. ASSUME NEW p \in Procs, ThinDone(p) PROVE Aged'
  BY <1>12, <1>0, <1>a, <1>t DEF ThinDone, Return, Aged
<1>13. ASSUME NEW p \in Procs, DeleteMissing(p) PROVE Aged'
  BY <1>13, <1>0, <1>a, <1>t DEF DeleteMissing, Return, Aged
<1>14. ASSUME NEW p \in Procs, DeleteBegin(p) PROVE Aged'
  BY <1>14, <1>0, <1>a, <1>t DEF DeleteBegin, Aged
<1>15. ASSUME NEW p \in Procs, DeleteEnd(p) PROVE Aged'
  BY <1>15, <1>0, <1>a, <1>t DEF DeleteEnd, Aged
<1>16. ASSUME NEW p \in Procs, Crash(p) PROVE Aged'
  BY <1>16, <1>0, <1>a, <1>t DEF Crash, Return, Aged
<1>17. QED
  BY <1>1, <1>2, <1>3, <1>4, <1>5, <1>6, <1>7, <1>8, <1>9, <1>10, <1>11,
     <1>12, <1>13, <1>14, <1>15, <1>16 DEF Next, Work

-----------------------------------------------------------------------------
\* Whoever takes a snapshot knows its own, however stale the rest of its list.
LEMMA InitOwned == Init => Owned
<1> SUFFICES ASSUME Init PROVE Owned
  OBVIOUS
<1> DEFINE owner == [s \in taken |-> CHOOSE p \in Takers : TRUE]
<1>1. owner \in [taken -> Takers] /\ Owns(owner)
  BY DEF Init, Owns
<1>2. QED
  BY <1>1 DEF Init, Owned

\* Two snapshots taken apart stay so when the first was earlier or the second
\* is later.
LEMMA Apart ==
  ASSUME NEW s \in Nat, NEW t \in Nat, NEW i \in Nat, t - s >= i
  PROVE  /\ \A r \in Nat : r <= s => t - r >= i
         /\ \A u \in Nat : t <= u => u - s >= i
OBVIOUS

\* A step that takes no snapshot, and brings no process closer to taking one,
\* leaves every snapshot with its owner.
LEMMA OwnedKept ==
  ASSUME TypeOK, Owned, taken' = taken, settings' = settings, now' \in {now, now + 1},
         \A q \in Procs : pc'[q] \in {"ensure", "create"} =>
                             pc'[q] = pc[q] /\ view'[q] = view[q]
  PROVE  Owned'
<1>1. PICK owner \in [taken -> Takers] : Owns(owner)
  BY DEF Owned
<1>2. now \in Nat /\ taken \subseteq Nat /\ Interval \in Nat
  BY Timed, Durations DEF TypeOK
<1>3. Takers' = Takers /\ Interval' = Interval
  BY DEF Takers, Interval
<1>4. \A s \in taken : now - s >= Interval => now' - s >= Interval
  <2>1. now' \in Nat /\ now' >= now
    BY <1>2
  <2>2. QED
    BY <1>2, <2>1, Apart
<1>5. Owns(owner)'
  BY <1>1, <1>3, <1>4 DEF Owns
<1>6. QED
  BY <1>1, <1>3, <1>5 DEF Owned

\* One that begins, decides, or takes the snapshot.
LEMMA OwnedNew ==
  ASSUME TypeOK, Aged, Owned, NEW p \in Procs, New(p)
  PROVE  Owned'
<1> USE DEF disk, Goto
<1>1. PICK owner \in [taken -> Takers] : Owns(owner)
  BY DEF Owned
<1>2. now \in Nat /\ taken \subseteq Nat /\ Interval \in Nat /\ MinRetention \in Nat
      /\ Interval < MinRetention
  BY Timed, Durations DEF TypeOK
<1>3. Takers' = Takers /\ Interval' = Interval /\ taken' = taken /\ now' = now
  BY DEF New, Takers, Interval
<1>4. \A s \in taken : s \in snaps \/ now - s >= Interval
  BY <1>2 DEF Aged, Young
<1>5. view'[p] = snaps /\ pc'[p] # "create" /\ (pc'[p] = "ensure" => p \in Takers)
  BY DEF New, TypeOK, Takers
<1>6. \A q \in Procs \ {p} : pc'[q] = pc[q] /\ view'[q] = view[q]
  BY DEF New, TypeOK
<1>7. Owns(owner)'
  BY <1>1, <1>3, <1>4, <1>5, <1>6 DEF Owns
<1>8. QED
  BY <1>1, <1>3, <1>5, <1>6, <1>7 DEF Owned

LEMMA OwnedEnsure ==
  ASSUME TypeOK, Aged, Owned, NEW p \in Procs, Ensure(p)
  PROVE  Owned'
<1> USE DEF disk, Goto
<1>1. PICK owner \in [taken -> Takers] : Owns(owner)
  BY DEF Owned
<1>2. now \in Nat /\ taken \subseteq Nat /\ Interval \in Nat
  BY Timed, Durations DEF TypeOK
<1>3. Takers' = Takers /\ Interval' = Interval /\ taken' = taken /\ now' = now /\ view' = view
  BY DEF Ensure, Takers, Interval
<1>4. Due(p) => \A s \in view[p] : now - s >= Interval
  <2>1. CASE view[p] = {}
    BY <2>1
  <2>2. CASE view[p] # {}
    <3>1. Max(view[p]) \in taken /\ \A s \in view[p] : s <= Max(view[p])
      BY <2>2, NewestIn, Timed
    <3>2. view[p] \subseteq Nat
      BY <1>2, Timed
    <3>3. QED
      BY <2>2, <3>1, <3>2, <1>2, Apart DEF Due
  <2>3. QED
    BY <2>1, <2>2
<1>5. pc[p] = "ensure" /\ pc'[p] # "ensure" /\ (pc'[p] = "create" => Due(p))
  BY DEF Ensure, TypeOK
<1>6. \A q \in Procs \ {p} : pc'[q] = pc[q]
  BY DEF Ensure, TypeOK
<1>7. pc'[p] = "create" => \A s \in taken : owner[s] = p => now - s >= Interval
  BY <1>1, <1>4, <1>5 DEF Owns
<1>8. Owns(owner)'
  BY <1>1, <1>3, <1>5, <1>6, <1>7 DEF Owns
<1>9. QED
  BY <1>1, <1>3, <1>5, <1>6, <1>8 DEF Owned

LEMMA OwnedCreate ==
  ASSUME TypeOK, Aged, Owned, NEW p \in Procs, Create(p)
  PROVE  Owned'
<1> USE DEF disk, Goto
<1>1. PICK owner \in [taken -> Takers] : Owns(owner)
  BY DEF Owned
<1>2. now \in Nat /\ taken \subseteq 0..now /\ Interval \in Nat /\ MinRetention \in Nat
  BY Timed, Durations DEF TypeOK
<1>3. Takers' = Takers /\ Interval' = Interval /\ taken' = taken \cup {now} /\ now' = now
      /\ view' = view
  BY DEF Create, Takers, Interval
<1>4. now \notin taken
  BY <1>2 DEF Create, Aged, Young
<1>5. p \in Takers /\ \A s \in taken : owner[s] = p => now - s >= Interval
  BY <1>1 DEF Create, Owned, Owns
<1>6. pc'[p] = "expire" /\ \A q \in Procs \ {p} : pc'[q] = pc[q]
  BY DEF Create, TypeOK
<1>o. PICK owner1 : owner1 = [s \in taken \cup {now} |-> IF s = now THEN p ELSE owner[s]]
  OBVIOUS
<1>7. owner1 \in [taken' -> Takers']
  BY <1>1, <1>3, <1>5, <1>o
<1>8. owner1[now] = p /\ \A s \in taken : s < now /\ owner1[s] = owner[s]
  BY <1>2, <1>4, <1>o
<1>9. \A s, t \in taken' : s < t /\ owner1[s] = owner1[t] => t - s >= Interval
  <2> SUFFICES ASSUME NEW s \in taken', NEW t \in taken', s < t, owner1[s] = owner1[t]
               PROVE  t - s >= Interval
    OBVIOUS
  <2>1. s \in taken
    BY <1>2, <1>3, <1>8
  <2>2. CASE t = now
    BY <2>1, <2>2, <1>5, <1>8
  <2>3. CASE t \in taken
    BY <2>1, <2>3, <1>1, <1>8 DEF Owns
  <2>4. QED
    BY <2>2, <2>3, <1>3
<1>10. ASSUME NEW q \in Procs, pc'[q] \in {"ensure", "create"}, NEW s \in taken', owner1[s] = q
       PROVE  (pc'[q] = "ensure" /\ s \in view[q]) \/ now - s >= Interval
  <2>1. q # p /\ pc[q] = pc'[q]
    BY <1>6, <1>10
  <2>2. s \in taken /\ owner[s] = q
    BY <2>1, <1>3, <1>8, <1>10
  <2>3. QED
    BY <2>1, <2>2, <1>1, <1>10 DEF Owns
<1>11. Owns(owner1)'
  <2>1. \A q \in Procs : /\ pc'[q] = "ensure" => \A s \in taken' : owner1[s] = q =>
                                                    s \in view'[q] \/ now' - s >= Interval'
                         /\ pc'[q] = "create" => \A s \in taken' : owner1[s] = q =>
                                                    now' - s >= Interval'
    BY <1>3, <1>10
  <2>2. \A s, t \in taken' : s < t /\ owner1[s] = owner1[t] => t - s >= Interval'
    BY <1>3, <1>9
  <2>3. QED
    BY <2>1, <2>2 DEF Owns
<1>12. \A q \in Procs : pc'[q] \in {"ensure", "create"} => q \in Takers'
  BY <1>3, <1>6 DEF Owned
<1>13. \E o \in [taken' -> Takers'] : Owns(o)'
  BY <1>7, <1>11
<1>14. QED
  BY <1>12, <1>13 DEF Owned

LEMMA OwnedStep == TypeOK /\ Aged /\ Owned /\ [Next]_vars => Owned'
<1> SUFFICES ASSUME TypeOK, Aged, Owned, [Next]_vars PROVE Owned'
  OBVIOUS
<1> DEFINE Kept == /\ taken' = taken /\ settings' = settings /\ now' \in {now, now + 1}
                   /\ \A q \in Procs : pc'[q] \in {"ensure", "create"} =>
                                          pc'[q] = pc[q] /\ view'[q] = view[q]
<1> USE DEF disk, Goto
<1>0. Kept => Owned'
  BY OwnedKept
<1>t. /\ pc \in [Procs -> {"idle", "ensure", "create", "expire", "expiring", "expiring2",
                           "filter", "thin", "thinning", "thinning2"}]
      /\ view \in [Procs -> SUBSET taken]
  BY DEF TypeOK
<1>1. CASE UNCHANGED vars
  BY <1>1, <1>0 DEF vars
<1>2. CASE Tick
  BY <1>2, <1>0 DEF Tick
<1>3. ASSUME NEW p \in Procs, Expire(p) PROVE Kept
  BY <1>3, <1>t DEF Expire
<1>4. ASSUME NEW p \in Procs, CreateExists(p) \/ ThinDone(p) \/ DeleteMissing(p) \/ Crash(p)
      PROVE  Kept
  <2>1. /\ taken' = taken /\ settings' = settings /\ now' = now
        /\ Return(p)
    BY <1>4 DEF CreateExists, ThinDone, DeleteMissing, Crash
  <2>2. QED
    BY <2>1, <1>t DEF Return
<1>5. ASSUME NEW p \in Procs, ExpireDone(p) PROVE Kept
  BY <1>5, <1>t DEF ExpireDone
<1>6. ASSUME NEW p \in Procs, Filter(p) \/ FilterDone(p) \/ Thin(p) PROVE Kept
  BY <1>6, <1>t DEF Filter, FilterDone, Thin
<1>7. ASSUME NEW p \in Procs, DeleteBegin(p) \/ DeleteEnd(p) PROVE Kept
  BY <1>7, <1>t DEF DeleteBegin, DeleteEnd
<1>8. QED
  BY <1>0, <1>1, <1>2, <1>3, <1>4, <1>5, <1>6, <1>7, OwnedNew, OwnedEnsure, OwnedCreate
     DEF Next, Work

-----------------------------------------------------------------------------
(* One run that nothing disturbs.                                          *)

\* Nobody but p is at work.
Solo(p) == settings.procs = {p} /\ \A q \in Procs \ {p} : pc[q] = "idle"

Lasting(p) == (snaps \ half) \ Doomed(p)

\* What stays is then what p leaves, before a step and after it.
LEMMA SoloStays ==
  ASSUME NEW p \in Procs
  PROVE  /\ Solo(p) => Staying = Lasting(p)
         /\ Solo(p)' => Staying' = Lasting(p)'
BY DEF Solo, Staying, Lasting, Doomed, Thinning, Deleting

\* A run that nothing disturbs is alone.
LEMMA SoloIs ==
  ASSUME TypeOK, Thinned, Undisturbed
  PROVE  \E p \in Procs : Solo(p) /\ Knows(p)
<1>1. settings.procs \subseteq Procs /\ IsFiniteSet(settings.procs)
  BY SettingsAssumption, ProcsAssumption, FS_Subset DEF TypeOK, IsSettings
<1>2. PICK p : settings.procs = {p}
  BY <1>1, FS_Singleton DEF Undisturbed
<1>3. QED
  BY <1>1, <1>2 DEF Thinned, Solo

\* What is as young as that was so before.
LEMMA Younger ==
  ASSUME NEW n \in Nat, NEW m \in Nat, n <= m, NEW a \in Int
  PROVE  \A t \in Nat : (m - t <= a => n - t <= a) /\ (m - t < a => n - t < a)
OBVIOUS

\* As long as only expired snapshots stop staying, what is gone is covered.
LEMMA CoveredKept ==
  ASSUME TypeOK, settings' = settings, taken' = taken, now' \in {now, now + 1},
         Staying' \subseteq Staying, \A s \in Staying \ Staying' : Expired(s),
         \A t \in taken : now - t <= Retention - RetentionInterval => Covered(t)
  PROVE  \A t \in taken' : now' - t <= Retention' - RetentionInterval' => Covered(t)'
<1>1. /\ now \in Nat /\ taken \subseteq Nat /\ Staying \subseteq Nat
      /\ Retention \in Nat /\ RetentionInterval \in Nat
  <2>1. Staying \subseteq snaps
    BY DEF Staying
  <2>2. QED
    BY <2>1, Timed, Durations DEF TypeOK
<1>1a. now' \in Nat /\ now' >= now
  BY <1>1
<1>2. Retention' = Retention /\ RetentionInterval' = RetentionInterval
  BY DEF Retention, RetentionInterval
<1> SUFFICES ASSUME NEW t \in taken, now' - t <= Retention - RetentionInterval PROVE Covered(t)'
  BY <1>2
<1>3. now - t <= Retention - RetentionInterval
  <2>1. t \in Nat /\ Retention - RetentionInterval \in Int
    BY <1>1
  <2>2. QED
    BY <1>1, <1>1a, <2>1, Younger
<1>4. PICK h \in Staying : h <= t /\ t - h <= RetentionInterval /\ (h = t \/ Leads(h))
  BY <1>3 DEF Covered
<1>5. h \in Staying'
  <2>1. CASE Expired(h)
    BY <1>1, <1>3, <1>4, <2>1 DEF Expired, Old
  <2>2. QED
    BY <2>1, <1>4
<1>6. Leads(h) => Leads(h)'
  <2>0. Retention \in Int /\ now \in Nat /\ now' \in Nat /\ now <= now'
    BY <1>1, <1>1a
  <2>1. \A s \in Nat : now' - s < Retention => now - s < Retention
    BY ONLY <2>0, Younger
  <2>2. QED
    BY <1>1, <1>2, <2>1 DEF Leads
<1>7. QED
  BY <1>2, <1>4, <1>5, <1>6 DEF Covered

\* The run goes on knowing what is on disk.
LEMMA KnowsStep ==
  ASSUME TypeOK, NEW p \in Procs, Solo(p), Knows(p),
         (Tick /\ faults' = faults) \/ New(p) \/ Work(p)
  PROVE  Solo(p)' /\ Knows(p)'
<1> USE DEF disk, Goto, Listed, Deleting, Solo, Knows
<1>t. /\ pc \in [Procs -> {"idle", "ensure", "create", "expire", "expiring", "expiring2",
                           "filter", "thin", "thinning", "thinning2"}]
      /\ view \in [Procs -> SUBSET taken] /\ todo \in [Procs -> SUBSET taken]
      /\ picked \in [Procs -> SUBSET taken] /\ victim \in [Procs -> Times]
  BY DEF TypeOK
<1>n. /\ now \in Nat /\ taken \subseteq 0..now /\ snaps \subseteq taken /\ half \subseteq snaps
      /\ faults \in Nat /\ Retention \in Nat /\ victim[p] \in Nat
  BY Timed, Durations DEF TypeOK
<1>1. CASE Tick /\ faults' = faults
  <2>1. /\ pc[p] # "filter" /\ now' = now + 1 /\ UNCHANGED <<disk, pc, view, todo, picked, victim>>
    BY <1>1, <1>n DEF Tick
  <2>2. Expired(victim[p]) => Expired(victim[p])'
    <3>1. Retention' = Retention
      BY <2>1 DEF Retention
    <3>2. QED
      BY <1>n, <2>1, <3>1 DEF Expired, Old
  <2>3. QED
    BY <2>1, <2>2
<1>2. CASE New(p)
  BY <1>2, <1>t DEF New
<1>3. CASE Ensure(p)
  BY <1>3, <1>t DEF Ensure
<1>4. CASE Create(p)
  <2>1. \A l \in taken : l # now => l < now
    BY <1>n
  <2>2. QED
    BY <1>4, <1>t, <1>n, <2>1 DEF Create
<1>5. CASE CreateExists(p) \/ ThinDone(p) \/ DeleteMissing(p)
  <2>1. Return(p) /\ UNCHANGED <<now, disk, faults>> /\ half = {}
    BY <1>5 DEF CreateExists, ThinDone, DeleteMissing
  <2>2. QED
    BY <2>1, <1>t DEF Return
<1>6. CASE Expire(p)
  <2>0. PICK o : o = Oldest(p)
    OBVIOUS
  <2>1. o \in todo[p]
    BY <1>6, <2>0, OldestIn DEF Expire
  <2>2. CASE Expired(o) /\ victim' = [victim EXCEPT ![p] = o] /\ Goto(p, "expiring") /\ UNCHANGED picked
    <3>1. /\ pc[p] = "expire" /\ UNCHANGED <<now, disk, faults, view>> /\ pc'[p] = "expiring"
          /\ todo'[p] = todo[p] \ {o} /\ picked'[p] = picked[p] /\ victim'[p] = o
          /\ \A q \in Procs \ {p} : pc'[q] = pc[q]
      BY <1>6, <1>t, <2>2, <2>0 DEF Expire
    <3>2. Expired(o)'
      BY <2>2, <3>1 DEF Expired, Old, Retention
    <3>3. Listed(p)' = Listed(p) \ {o} /\ o \in snaps
      BY <2>1, <3>1
    <3>4. \A s \in snaps \ Listed(p)', l \in Listed(p)' : l < s \/ s = o
      BY <3>1, <3>3
    <3> HIDE DEF Listed
    <3>5. QED
      BY <2>1, <3>1, <3>2, <3>3, <3>4 DEF Listed
  <2>3. CASE picked' = [picked EXCEPT ![p] = @ \cup {o}] /\ UNCHANGED <<pc, victim>>
    <3>1. Listed(p)' = Listed(p)
      BY <1>6, <1>t, <2>1, <2>3, <2>0 DEF Expire
    <3>2. QED
      BY <1>6, <1>t, <2>1, <2>3, <3>1, <2>0 DEF Expire
  <2>4. QED
    BY <1>6, <2>2, <2>3, <2>0 DEF Expire
<1>7. CASE ExpireDone(p)
  BY <1>7, <1>t DEF ExpireDone
<1>8. CASE Filter(p)
  <2> DEFINE o == Oldest(p)
  <2>1. o \in todo[p]
    BY <1>8, OldestIn DEF Filter
  <2> HIDE DEF o
  <2>2. /\ todo'[p] = todo[p] \ {o} /\ pc' = pc /\ pc[p] = "filter"
        /\ picked'[p] = IF LongTerm(o) THEN picked[p] \cup {o} ELSE picked[p]
        /\ UNCHANGED <<now, disk, faults, view, victim>>
    BY <1>8, <1>t DEF Filter, o
  <2>3. Retention' = Retention /\ MinRetention' = MinRetention
    BY <2>2 DEF Retention, MinRetention
  <2>4. \A s : LongTerm(s)' <=> LongTerm(s)
    BY <2>2, <2>3 DEF LongTerm, Old
  <2>5. picked[p] = {s \in view[p] \ todo[p] : LongTerm(s)} /\ todo[p] \subseteq view[p]
    BY <2>2
  <2>6. \A s : s \in picked'[p] <=> s \in view[p] \ todo'[p] /\ LongTerm(s)'
    BY <2>1, <2>2, <2>4, <2>5
  <2>7. picked'[p] = {s \in view[p] \ todo'[p] : LongTerm(s)'}
    BY <2>6
  <2>8. Listed(p)' \subseteq Listed(p) /\ todo'[p] \cap picked'[p] = {}
    BY <2>1, <2>2
  <2>9. QED
    BY <2>2, <2>5, <2>7, <2>8
<1>9. CASE FilterDone(p)
  BY <1>9, <1>t DEF FilterDone
<1>10. CASE Thin(p)
  BY <1>10, <1>t, OldestIn DEF Thin
<1>11. CASE DeleteBegin(p)
  <2>1. half' = {victim[p]} /\ UNCHANGED <<now, settings, taken, snaps, faults, view, todo, picked, victim>>
    BY <1>11 DEF DeleteBegin
  <2>2. CASE pc[p] = "expiring" /\ pc' = [pc EXCEPT ![p] = "expiring2"]
    <3>1. Expired(victim[p])'
      BY <2>1, <2>2 DEF Expired, Old, Retention
    <3>2. QED
      BY <2>1, <2>2, <3>1, <1>t
  <2>3. CASE pc[p] = "thinning" /\ pc' = [pc EXCEPT ![p] = "thinning2"]
    BY <2>1, <2>3, <1>t
  <2>4. QED
    BY <1>11, <2>2, <2>3 DEF DeleteBegin
<1>12. CASE DeleteEnd(p)
  BY <1>12, <1>t DEF DeleteEnd
<1>13. QED
  BY <1>1, <1>2, <1>3, <1>4, <1>5, <1>6, <1>7, <1>8, <1>9, <1>10, <1>11, <1>12 DEF Work

\* Only what has expired stops staying, but for what the filter chooses.
LEMMA LastingStep ==
  ASSUME TypeOK, NEW p \in Procs, Solo(p), Knows(p),
         Tick \/ New(p) \/ Work(p), ~Create(p), ~FilterDone(p)
  PROVE  Lasting(p)' \subseteq Lasting(p) /\ \A s \in Lasting(p) \ Lasting(p)' : Expired(s)
<1> USE DEF disk, Goto, Lasting, Doomed, Deleting, Thinning
<1>t. /\ pc \in [Procs -> {"idle", "ensure", "create", "expire", "expiring", "expiring2",
                           "filter", "thin", "thinning", "thinning2"}]
      /\ view \in [Procs -> SUBSET taken] /\ todo \in [Procs -> SUBSET taken]
      /\ picked \in [Procs -> SUBSET taken] /\ victim \in [Procs -> Times]
  BY DEF TypeOK
<1>1. CASE Tick
  BY <1>1 DEF Tick
<1>2. CASE New(p)
  BY <1>2, <1>t DEF New
<1>3. CASE Ensure(p)
  BY <1>3, <1>t DEF Ensure
<1>4. CASE CreateExists(p) \/ ThinDone(p)
  BY <1>4, <1>t DEF CreateExists, ThinDone, Return
<1>5. CASE DeleteMissing(p)
  BY <1>5 DEF DeleteMissing, Knows
<1>6. CASE Expire(p)
  <2>1. PICK o : o = Oldest(p)
    OBVIOUS
  <2>2. CASE Expired(o) /\ victim' = [victim EXCEPT ![p] = o] /\ pc' = [pc EXCEPT ![p] = "expiring"]
    BY <1>6, <1>t, <2>1, <2>2 DEF Expire
  <2>3. CASE UNCHANGED <<pc, victim>>
    BY <1>6, <1>t, <2>1, <2>3 DEF Expire
  <2>4. QED
    BY <1>6, <2>1, <2>2, <2>3 DEF Expire
<1>7. CASE ExpireDone(p)
  BY <1>7, <1>t DEF ExpireDone
<1>8. CASE Filter(p)
  BY <1>8, <1>t DEF Filter
<1>9. CASE Thin(p)
  BY <1>9, <1>t, OldestIn DEF Thin
<1>10. CASE DeleteBegin(p)
  BY <1>10, <1>t DEF DeleteBegin
<1>11. CASE DeleteEnd(p)
  BY <1>11, <1>t DEF DeleteEnd, Knows
<1>12. QED
  BY <1>1, <1>2, <1>3, <1>4, <1>5, <1>6, <1>7, <1>8, <1>9, <1>10, <1>11 DEF Work

\* A new snapshot stays, and is newer than what others are covered by.
LEMMA CoveredCreate ==
  ASSUME TypeOK, Aged, NEW p \in Procs, Solo(p), Knows(p), Create(p),
         \A t \in taken : now - t <= Retention - RetentionInterval => Covered(t)
  PROVE  \A t \in taken' : now' - t <= Retention' - RetentionInterval' => Covered(t)'
<1> USE DEF disk, Goto
<1>1. /\ now \in Nat /\ taken \subseteq 0..now /\ snaps \subseteq taken /\ half \subseteq snaps
      /\ RetentionInterval \in Nat
  BY Timed, Durations DEF TypeOK
<1>2. /\ taken' = taken \cup {now} /\ snaps' = snaps \cup {now} /\ half' = half /\ now \notin snaps
      /\ now' = now /\ Retention' = Retention /\ RetentionInterval' = RetentionInterval
  BY DEF Create, Retention, RetentionInterval
<1>3. Staying' = Staying \cup {now}
  <2>1. \A q \in Procs : Doomed(q) = {} /\ Doomed(q)' = {}
    BY DEF Create, TypeOK, Solo, Doomed, Deleting, Thinning
  <2>2. QED
    BY <1>1, <1>2, <2>1 DEF Staying
<1>4. ASSUME NEW t \in taken, now - t <= Retention - RetentionInterval PROVE Covered(t)'
  <2>1. PICK h \in Staying : h <= t /\ t - h <= RetentionInterval /\ (h = t \/ Leads(h))
    BY <1>4 DEF Covered
  <2>2. h \in 0..now
    BY <1>1 DEF Staying
  <2>3. ~(now < h)
    BY <1>1, <2>2
  <2>4. Leads(h) => Leads(h)'
    BY <1>2, <1>3, <2>3 DEF Leads
  <2>5. QED
    BY <1>2, <1>3, <2>1, <2>4 DEF Covered
<1>5. Covered(now)'
  <2>1. now <= now /\ now - now <= RetentionInterval /\ now \in Staying'
    BY <1>1, <1>3
  <2>2. QED
    BY <1>2, <2>1 DEF Covered
<1>6. QED
  BY <1>2, <1>4, <1>5

\* What the filter chooses to delete is covered by the beginning of its chunk, and
\* what covered others begins a chunk.
LEMMA CoveredFilterDone ==
  ASSUME TypeOK, NEW p \in Procs, Solo(p), Knows(p), FilterDone(p),
         \A t \in taken : now - t <= Retention - RetentionInterval => Covered(t)
  PROVE  \A t \in taken' : now' - t <= Retention' - RetentionInterval' => Covered(t)'
<1> USE DEF disk, Goto
<1>1. /\ now \in Nat /\ taken \subseteq Nat /\ taken \subseteq Times /\ snaps \subseteq taken
      /\ Retention \in Nat /\ RetentionInterval \in Nat /\ MinRetention \in Nat
  BY Timed, Durations, ProcsAssumption DEF TypeOK, Times
<1>2. PICK L, H : L = picked[p] /\ H = ChunkHeads(L)
  OBVIOUS
<1>3. /\ half = {} /\ view[p] \subseteq snaps /\ L = {s \in view[p] : LongTerm(s)}
      /\ \A s \in snaps \ view[p], l \in view[p] : l < s
  BY <1>2 DEF FilterDone, Knows
<1>4. /\ now' = now /\ taken' = taken /\ Retention' = Retention
      /\ RetentionInterval' = RetentionInterval
  BY DEF FilterDone, Retention, RetentionInterval
<1>5. Staying = snaps /\ Staying' = snaps \ (L \ H)
  <2>1. Solo(p)'
    BY DEF FilterDone, Solo, TypeOK
  <2>2. Lasting(p) = snaps /\ Lasting(p)' = snaps \ (L \ H)
    BY <1>2, <1>3 DEF FilterDone, Lasting, Doomed, Thinning, Deleting, TypeOK
  <2>3. QED
    BY <2>1, <2>2, SoloStays
<1>6. L \subseteq snaps /\ H \subseteq L /\ L \in SUBSET Times
  BY <1>1, <1>2, <1>3 DEF ChunkHeads
<1>7. \A s \in L : s \in H <=> \A t \in H : t < s => s - t > RetentionInterval
  BY <1>2, <1>6, ChunkHeadsAre
<1>8. ASSUME NEW h \in H PROVE h \in Staying' /\ Leads(h)'
  <2>1. h \in snaps /\ h \in Nat /\ LongTerm(h) /\ h \in view[p]
    BY <1>1, <1>3, <1>6
  <2>2. ASSUME NEW s \in snaps \ (L \ H), s < h, now - s < Retention
        PROVE  h - s > RetentionInterval
    <3>1. s \in view[p] /\ s \in Nat
      <4>0. s \in Nat
        BY <1>1
      <4>1. ~(h < s)
        BY <2>1, <2>2, <4>0
      <4>2. QED
        BY <1>3, <2>1, <4>0, <4>1
    <3>2. LongTerm(s)
      BY <1>1, <2>1, <2>2, <3>1 DEF LongTerm, Old
    <3>3. s \in H
      BY <1>3, <2>2, <3>1, <3>2
    <3>4. QED
      BY <1>6, <1>7, <2>2, <3>3
  <2>3. QED
    BY <1>4, <1>5, <1>6, <2>1, <2>2 DEF Leads
<1>9. ASSUME NEW t \in L \ H PROVE Covered(t)'
  <2>1. PICK h \in H : h < t /\ ~(t - h > RetentionInterval)
    BY <1>7
  <2>2. h \in Nat /\ t \in Nat
    BY <1>1, <1>6
  <2>3. h <= t /\ t - h <= RetentionInterval
    BY <1>1, <2>1, <2>2
  <2>4. QED
    BY <1>4, <1>8, <2>3 DEF Covered
<1>10. ASSUME NEW h \in Staying, Leads(h) PROVE h \in Staying' /\ Leads(h)'
  <2>1. h \notin L \ H
    <3> SUFFICES ASSUME h \in L \ H PROVE FALSE
      OBVIOUS
    <3>1. PICK s \in H : s < h /\ ~(h - s > RetentionInterval)
      BY <1>7
    <3>2. s \in Staying /\ now - s < Retention
      BY <1>3, <1>5, <1>6 DEF LongTerm
    <3>3. QED
      BY <1>10, <3>1, <3>2 DEF Leads
  <2>2. QED
    BY <1>4, <1>5, <1>10, <2>1 DEF Leads
<1>11. ASSUME NEW t \in taken, now - t <= Retention - RetentionInterval PROVE Covered(t)'
  <2>1. PICK h \in Staying : h <= t /\ t - h <= RetentionInterval /\ (h = t \/ Leads(h))
    BY <1>11 DEF Covered
  <2>2. CASE Leads(h)
    BY <1>4, <1>10, <2>1, <2>2 DEF Covered
  <2>3. CASE h = t /\ t \notin L \ H
    BY <1>4, <1>5, <2>1, <2>3 DEF Covered
  <2>4. QED
    BY <1>9, <2>1, <2>2, <2>3
<1>12. QED
  BY <1>4, <1>11

\* To begin with nothing has been taken, so nothing is missing.
LEMMA InitThinned == Init => Thinned
<1> SUFFICES ASSUME Init PROVE Thinned
  OBVIOUS
<1>1. \A p \in Procs : pc[p] = "idle" /\ todo[p] = {} /\ picked[p] = {}
  BY DEF Init
<1>2. \A p \in Procs : Knows(p)
  BY <1>1 DEF Init, Knows, Listed, Deleting
<1>3. settings.procs \subseteq Procs
  BY SettingsAssumption DEF Init, IsSettings
<1>4. QED
  BY <1>1, <1>2, <1>3 DEF Init, Thinned

\* A step of an undisturbed run keeps everything covered; nobody else takes one.
LEMMA ThinnedStep == TypeOK /\ Aged /\ Thinned /\ [Next]_vars => Thinned'
<1> SUFFICES ASSUME TypeOK, Aged, Thinned, [Next]_vars PROVE Thinned'
  OBVIOUS
<1> USE DEF disk, Goto
<1>1. settings' = settings /\ faults' \in {faults, faults - 1}
  <2>1. ASSUME NEW p \in Procs, Work(p) PROVE settings' = settings /\ faults' = faults
    BY <2>1 DEF Work, Ensure, Create, CreateExists, Expire, ExpireDone, Filter, FilterDone,
       Thin, ThinDone, DeleteMissing, DeleteBegin, DeleteEnd
  <2>2. QED
    BY <2>1 DEF Next, vars, Tick, New, Crash
<1>2. \A q \in Procs \ settings.procs : pc'[q] = "idle"
  <2>0. \A q \in Procs \ settings.procs : pc[q] = "idle"
    BY DEF Thinned
  <2>1. ASSUME NEW p \in Procs, New(p) \/ Work(p) \/ Crash(p) PROVE p \in settings.procs
    BY <2>0, <2>1 DEF New, Work, Crash, Ensure, Create, CreateExists, Expire, ExpireDone, Filter,
       FilterDone, Thin, ThinDone, DeleteMissing, DeleteBegin, DeleteEnd
  <2>2. ASSUME NEW p \in Procs, New(p) \/ Work(p) \/ Crash(p), NEW q \in Procs, q # p
        PROVE  pc'[q] = pc[q]
    BY <2>2 DEF TypeOK, New, Work, Crash, Return, Ensure, Create, CreateExists, Expire, ExpireDone,
       Filter, FilterDone, Thin, ThinDone, DeleteMissing, DeleteBegin, DeleteEnd
  <2>3. QED
    BY <2>0, <2>1, <2>2 DEF Next, Tick, vars
<1> SUFFICES ASSUME Undisturbed'
             PROVE  /\ \A p \in settings' .procs : Knows(p)'
                    /\ \A t \in taken' : now' - t <= Retention' - RetentionInterval' => Covered(t)'
  BY <1>1, <1>2 DEF Thinned
<1>3. Undisturbed /\ faults' = faults
  BY <1>1, Durations DEF Undisturbed, TypeOK
<1>4. PICK p \in Procs : Solo(p) /\ Knows(p)
  BY <1>3, SoloIs
<1>5. \A t \in taken : now - t <= Retention - RetentionInterval => Covered(t)
  BY <1>3 DEF Thinned
<1>6. CASE UNCHANGED vars
  <2>1. Knows(p)' <=> Knows(p)
    BY <1>6 DEF vars, Knows, Listed, Deleting, Expired, LongTerm, Old, Retention, MinRetention
  <2>2. Staying' = Staying
    BY <1>6 DEF vars, Staying, Doomed, Thinning, Deleting
  <2>3. \A t \in taken' : now' - t <= Retention' - RetentionInterval' => Covered(t)'
    BY <1>5, <1>6, <2>2, CoveredKept DEF vars
  <2>4. QED
    BY <1>1, <1>4, <2>1, <2>3 DEF Solo
<1>7. CASE Next
  <2>1. (Tick /\ faults' = faults) \/ New(p) \/ Work(p)
    <3>1. ASSUME NEW q \in Procs, New(q) \/ Work(q) PROVE q = p
      BY <3>1, <1>4 DEF Solo, New, Work, Ensure, Create, CreateExists, Expire, ExpireDone, Filter,
         FilterDone, Thin, ThinDone, DeleteMissing, DeleteBegin, DeleteEnd
    <3>2. \A q \in Procs : ~Crash(q)
      BY <1>3, Durations DEF Crash, TypeOK
    <3>3. QED
      BY <1>3, <1>7, <3>1, <3>2 DEF Next
  <2>2. Solo(p)' /\ Knows(p)'
    BY <1>4, <2>1, KnowsStep
  <2>3. \A t \in taken' : now' - t <= Retention' - RetentionInterval' => Covered(t)'
    <3>1. CASE Create(p)
      BY <1>4, <1>5, <3>1, CoveredCreate
    <3>2. CASE FilterDone(p)
      BY <1>4, <1>5, <3>2, CoveredFilterDone
    <3>3. CASE ~Create(p) /\ ~FilterDone(p)
      <4>1. Lasting(p)' \subseteq Lasting(p) /\ \A s \in Lasting(p) \ Lasting(p)' : Expired(s)
        BY <1>4, <2>1, <3>3, LastingStep
      <4>2. Staying = Lasting(p) /\ Staying' = Lasting(p)'
        BY <1>4, <2>2, SoloStays
      <4>3. taken' = taken /\ now' \in {now, now + 1}
        BY <2>1, <3>3 DEF Tick, New, Work, Ensure, CreateExists, Expire, ExpireDone, Filter,
           Thin, ThinDone, DeleteMissing, DeleteBegin, DeleteEnd
      <4>4. QED
        BY <1>1, <1>5, <4>1, <4>2, <4>3, CoveredKept
    <3>4. QED
      BY <3>1, <3>2, <3>3
  <2>4. QED
    BY <1>1, <1>4, <2>2, <2>3 DEF Solo
<1>8. QED
  BY <1>6, <1>7

-----------------------------------------------------------------------------
\* The invariant of every behaviour.
LEMMA Invariance == Spec => []IInv
<1>1. Init => IInv
  BY InitTypeOK, InitAged, InitOwned, InitThinned DEF IInv
<1>2. IInv /\ [Next]_vars => IInv'
  BY TypeStep, AgedStep, OwnedStep, ThinnedStep DEF IInv
<1>3. QED
  BY <1>1, <1>2, PTL DEF Spec

\* The disk and the variables of the runs stay within their types: every list
\* a run works from holds snapshots that were taken, none twice.
THEOREM TypeCorrect == Spec => []TypeOK
<1>1. IInv => TypeOK
  BY DEF IInv
<1>2. QED
  BY <1>1, Invariance, PTL

\* Nothing that EnsureMostRecentSnapshot or PruneSnapshots does, in however many
\* runs on lists however stale, with crashes and suspensions, touches a
\* snapshot younger than the minimum retention.
THEOREM YoungSnapshotsStay == Spec => YoungStay
<1> DEFINE Stay == \A s \in taken : now - s <= MinRetention =>
                      /\ s \in snaps => s \in snaps'
                      /\ s \in half' => s \in half
<1>1. IInv /\ [Next]_vars => [Stay]_vars
  <2> SUFFICES ASSUME IInv, Next, NEW s \in taken, Young(s)
               PROVE  /\ s \in snaps => s \in snaps'
                      /\ s \in half' => s \in half
    BY DEF Young
  <2> USE DEF disk
  <2>1. ASSUME NEW p \in Procs, DeleteBegin(p) \/ DeleteEnd(p) PROVE s # victim[p]
    BY <2>1 DEF DeleteBegin, DeleteEnd, IInv, Aged, Deleting
  <2>2. ASSUME NEW p \in Procs, DeleteBegin(p) \/ DeleteEnd(p)
        PROVE  /\ s \in snaps => s \in snaps'
               /\ s \in half' => s \in half
    BY <2>1, <2>2 DEF DeleteBegin, DeleteEnd
  <2>3. ASSUME NEW p \in Procs, Create(p)
        PROVE  snaps \subseteq snaps' /\ half' = half
    BY <2>3 DEF Create
  <2>4. ASSUME NEW p \in Procs,
               \/ New(p) \/ Ensure(p) \/ CreateExists(p) \/ Expire(p) \/ ExpireDone(p) \/ Filter(p)
               \/ FilterDone(p) \/ Thin(p) \/ ThinDone(p) \/ DeleteMissing(p) \/ Crash(p)
        PROVE  snaps' = snaps /\ half' = half
    BY <2>4 DEF New, Ensure, CreateExists, Expire, ExpireDone, Filter, FilterDone, Thin,
       ThinDone, DeleteMissing, Crash
  <2>5. CASE Tick
    BY <2>5 DEF Tick
  <2>6. QED
    BY <2>2, <2>3, <2>4, <2>5 DEF Next, Work
<1>2. QED
  BY <1>1, Invariance, PTL DEF Spec, YoungStay

\* A run goes on from EnsureMostRecentSnapshot only when a complete snapshot
\* within the interval is on disk, whatever others have deleted since it looked.
THEOREM RecentEnsured == Spec => EnsuresRecent
<1> DEFINE Ensured == \A p \in Procs :
                         pc[p] \in {"ensure", "create"} /\ pc'[p] = "expire" =>
                            \E s \in snaps' \ half' : s = now \/ now - s < Interval
<1>1. IInv /\ [Next]_vars => [Ensured]_vars
  <2> SUFFICES ASSUME IInv, Next, NEW p \in Procs,
                      pc[p] \in {"ensure", "create"}, pc'[p] = "expire"
               PROVE  \E s \in snaps' \ half' : s = now \/ now - s < Interval
    OBVIOUS
  <2> USE DEF disk, Goto
  <2>1. /\ pc \in [Procs -> {"idle", "ensure", "create", "expire", "expiring", "expiring2",
                             "filter", "thin", "thinning", "thinning2"}]
        /\ now \in Nat /\ taken \subseteq Nat /\ half \subseteq snaps
        /\ Interval \in Nat /\ MinRetention \in Nat /\ Interval < MinRetention
    BY Timed, Durations DEF IInv, TypeOK
  <2>2. Ensure(p) \/ Create(p)
    <3>1. ASSUME NEW q \in Procs, New(q) \/ Work(q) \/ Crash(q), q # p PROVE pc'[p] = pc[p]
      BY <3>1, <2>1 DEF New, Work, Crash, Return, Ensure, Create, CreateExists, Expire, ExpireDone,
         Filter, FilterDone, Thin, ThinDone, DeleteMissing, DeleteBegin, DeleteEnd
    <3>2. New(p) \/ Work(p) \/ Crash(p)
      BY <3>1 DEF Next, Tick
    <3>3. QED
      BY <3>2, <2>1 DEF New, Work, Crash, Return, CreateExists, Expire, ExpireDone, Filter, FilterDone,
         Thin, ThinDone, DeleteMissing, DeleteBegin, DeleteEnd
  <2>3. CASE Ensure(p)
    <3>1. view[p] # {} /\ ~(now - Max(view[p]) >= Interval)
      BY <2>3, <2>1 DEF Ensure, Due
    <3> DEFINE m == Max(view[p])
    <3>2. m \in taken /\ m \in Nat
      BY <2>1, <3>1, NewestIn, Timed DEF IInv
    <3> HIDE DEF m
    <3>3. now - m < Interval /\ Young(m)
      <4>1. ~(now - m >= Interval)
        BY <3>1 DEF m
      <4>2. QED
        BY <2>1, <3>2, <4>1 DEF Young
    <3>4. m \in snaps \ half
      BY <3>2, <3>3 DEF IInv, Aged
    <3>5. snaps' = snaps /\ half' = half
      BY <2>3 DEF Ensure
    <3>6. QED
      BY <3>3, <3>4, <3>5
  <2>4. CASE Create(p)
    <3>1. now \in snaps' /\ now \notin half'
      BY <2>4, <2>1 DEF Create
    <3>2. QED
      BY <3>1
  <2>5. QED
    BY <2>2, <2>3, <2>4
<1>2. QED
  BY <1>1, Invariance, PTL DEF Spec, EnsuresRecent

\* Within any interval each process takes one snapshot at most, although
\* EnsureMostRecentSnapshot decides on a list read earlier, while others take and
\* delete snapshots: those taken in an interval have owners of their own.
THEOREM SnapshotsSpaced == Spec => []Spaced
<1>1. IInv => Spaced
  <2> SUFFICES ASSUME IInv, NEW t \in Times
               PROVE  Cardinality({s \in taken : t <= s /\ s - t < Interval})
                         <= Cardinality(Takers)
    BY DEF Spaced, Takers
  <2> DEFINE S == {s \in taken : t <= s /\ s - t < Interval}
  <2>1. taken \subseteq Nat /\ t \in Nat /\ Interval \in Nat
    BY Timed, Durations, ProcsAssumption DEF IInv, TypeOK, Times
  <2>2. PICK owner \in [taken -> Takers] : Owns(owner)
    BY DEF IInv, Owned
  <2> DEFINE f == [s \in S |-> owner[s]]
  <2>3. \A a, b \in S : owner[a] = owner[b] => a = b
    <3> SUFFICES ASSUME NEW a \in S, NEW b \in S, owner[a] = owner[b], a < b PROVE FALSE
      BY <2>1
    <3>1. b - a >= Interval
      BY <2>2 DEF Owns
    <3>2. QED
      BY <2>1, <3>1
  <2>4. f \in Injection(S, Takers)
    BY <2>2, <2>3 DEF Injection, IsInjective
  <2>5. IsFiniteSet(Takers)
    BY ProcsAssumption, FS_Subset DEF Takers
  <2>6. QED
    BY <2>4, <2>5, FS_Injection
<1>2. QED
  BY <1>1, Invariance, PTL

\* One snapshot is retained per interval: what PruneSnapshots thinned out, in any
\* number of runs one after another, is within a retention interval behind a
\* complete one, since what begins a chunk in one run begins one in every later.
THEOREM OneIsRetained == Spec => []OnePerInterval
<1>1. IInv => OnePerInterval
  <2> SUFFICES ASSUME IInv, Undisturbed, NEW t \in taken, now - t <= Retention - RetentionInterval
               PROVE  \E s \in snaps \ half : s <= t /\ t - s <= RetentionInterval
    BY DEF OnePerInterval, Retained, Undisturbed
  <2>1. PICK h \in Staying : h <= t /\ t - h <= RetentionInterval
    BY DEF IInv, Thinned, Covered
  <2>2. QED
    BY <2>1 DEF Staying
<1>2. QED
  BY <1>1, Invariance, PTL

-----------------------------------------------------------------------------
(* How snapshots are found: the inductive invariant of the search.          *)

(* The search tree t is a chain that holds the roots N: ascending ids,     *)
(* linked to the right.                                                    *)
IsChain(t, N) ==
  /\ N \subseteq Ids /\ t.left = Nil
  /\ IF N = {} THEN t.root = 0 ELSE t.root \in N /\ \A m \in N : t.root <= m
  /\ \A n \in Ids :
       \/ t.right[n] = 0 /\ (n \in N => \A m \in N : m <= n)
       \/ n \in N /\ t.right[n] \in N /\ n < t.right[n] /\ \A m \in N : m <= n \/ t.right[n] <= m

(* The filesystem: what is linked is in a directory of what is linked. *)
Hierarchy ==
  /\ fs[Top].state = "linked"
  /\ \A d \in dirs : d.in \in Ids
  /\ \A i \in Ids \ {Top} : Linked(i) => fs[i].dir \in dirs /\ Linked(fs[i].dir.in)

(* Where the lookup is: tries are left while it works, and a finished one  *)
(* has listed what is managed in its tree.                                 *)
Progress ==
  /\ lpc \in {"open", "walk", "paths"} => tries < Tries
  /\ lpc = "open" => tree = NewRBRoot
  /\ Looking => fs[Vol].state # "free"
  /\ lpc = "done" => list = {i \in Roots(tree) : IsManaged(tree.info[i])}

(* What is known of each root: nothing of one that is not in the tree; a   *)
(* directory as soon as a parent; deleted only without one; the origin     *)
(* that the filesystem has.                                                *)
Grown ==
  /\ IsChain(tree, Roots(tree))
  /\ \A j \in Ids \ Roots(tree) : tree.info[j] = NoInfo
  /\ \A j \in Ids :
       LET info == tree.info[j]
       IN /\ info.ref = info.dir.in
          /\ info.ref = 0 => info.name = NoName /\ info.dir = NoDir
          /\ info.deleted => info.ref = 0 /\ lpc # "walk"
          /\ info.origin = Vol => fs[j].origin = Vol /\ fs[j].state # "free"

Read(k) == lpc = "paths" \/ k < key        \* the walk has passed the key k

(* The walk is past every root in the tree, and all of them are at or      *)
(* after the mount point's.                                                *)
Ahead == lpc = "walk" => /\ KeyOf(site.mount, 0) <= key
                         /\ \A j \in Roots(tree) : KeyOf(j, 0) < key
Behind == Looking => \A j \in Roots(tree) : site.mount <= j

(* What was read of the subvolumes above the one looked up is so still:    *)
(* they stay in place.                                                     *)
InPlace == Looking /\ Linked(Vol) =>
  \A j \in Ids \ {Top} :
     IsAbove(j, Vol) /\ j >= site.mount /\ Read(KeyOf(j, fs[j].dir.in)) =>
        /\ j \in Roots(tree)
        /\ tree.info[j].ref = fs[j].dir.in /\ tree.info[j].name = fs[j].name

(* What was read of the snapshots that were there all through is so still, *)
(* and their paths are in the directory.                                   *)
Steady == Looking =>
  /\ stable \subseteq There(fs)
  /\ \A i \in stable : i >= site.mount =>
       /\ Read(KeyOf(i, 0)) => i \in Roots(tree) /\ tree.info[i].origin = Vol
       /\ Read(KeyOf(i, Vol)) => /\ tree.info[i].ref = Vol
                                 /\ tree.info[i].dir = SnapDir /\ tree.info[i].name \in Managed
       /\ lpc = "paths" /\ i \notin ToSet(unresolved) => InDirectory(tree.info[i].dirname)

(* The filesystem of now with what was read pasted in: of roots the walk   *)
(* has passed, and (Shown) of the one it is at, whose back reference it    *)
(* has read.  Both are put together from moments of the try.               *)
InfoPlace(j) == [dir |-> tree.info[j].dir, name |-> tree.info[j].name]
Passed(j) == j >= site.mount /\ Read(KeyOf(j, MaxRoots))
Pasted == [j \in Ids |-> IF Passed(j) THEN InfoPlace(j) ELSE PlaceOf(fs, j)]
Shown == [j \in Ids |-> IF Passed(j) \/ tree.info[j].ref # 0 THEN InfoPlace(j) ELSE PlaceOf(fs, j)]
Composed == Looking =>
  /\ Pasted \in seen /\ Shown \in seen
  /\ lpc = "walk" => \A j \in Ids :
        KeyOf(j, 1) < key /\ key <= KeyOf(j, MaxRoots) /\ j >= site.mount => tree.info[j].ref # 0

(* A root that resolveFullPaths has dealt with is deleted or has its path. *)
Resolved == lpc = "paths" =>
  /\ ToSet(unresolved) \subseteq Roots(tree)
  /\ \A i \in Roots(tree) : i \notin ToSet(unresolved) =>
       IF tree.info[i].ref = 0 THEN tree.info[i].deleted
       ELSE tree.info[i].dirname = Above(tree, tree.info[i].ref) \o tree.info[i].dir.path

(* The inductive invariant.                                                *)
TreeInv == /\ TreeTypeOK /\ Hierarchy /\ Progress /\ Grown /\ Ahead /\ Behind /\ InPlace /\ Steady
           /\ Composed /\ Resolved /\ ListExact

-----------------------------------------------------------------------------
(* What holds of 0 and of n + 1 with n, up to a bound, holds up to it. *)
LEMMA UpTo ==
  ASSUME NEW N \in Nat, NEW P \in SUBSET (0 .. N), 0 \in P,
         \A n \in P : n < N => n + 1 \in P
  PROVE  P = 0 .. N
<1> DEFINE Q == {n \in Nat : n <= N => n \in P}
<1>1. 0 \in Q /\ \A n \in Q : n + 1 \in Q
  OBVIOUS
<1>2. Q = Nat
  BY <1>1, NatSetInduction
<1>3. \A n \in 0 .. N : n \in Nat /\ n <= N
  OBVIOUS
<1>4. \A n \in 0 .. N : n \in P
  BY <1>2, <1>3
<1> HIDE DEF Q
<1>5. QED
  BY <1>4

(* A recursion upwards, from each number to the next, is a function.       *)
Steps(next, N, D) == next \in [1 .. N -> [D -> D]]
Iterates(f, N, D, first, next) ==
  f \in [0 .. N -> D] /\ f[0] = first /\ \A n \in 1 .. N : f[n] = next[n][f[n - 1]]

(* It has the function that follows from its first value step by step.     *)
LEMMA RecursionUp ==
  ASSUME NEW N, N \in Nat, NEW D, NEW first, first \in D, NEW next, Steps(next, N, D)
  PROVE  \E f : Iterates(f, N, D, first, next)
<1> USE DEF Steps, Iterates
<1> DEFINE Good(f, k) == f[0] = first /\ \A n \in 1 .. k : f[n] = next[n][f[n - 1]]
           P == {k \in 0 .. N : \E f \in [0 .. N -> D] : Good(f, k)}
<1>1. 0 \in P
  <2> DEFINE f == [n \in 0 .. N |-> first]
  <2>1. f \in [0 .. N -> D] /\ Good(f, 0)
    OBVIOUS
  <2> HIDE DEF f
  <2>2. QED
    BY <2>1
<1>2. ASSUME NEW k \in P, k < N PROVE k + 1 \in P
  <2>1. PICK f \in [0 .. N -> D] : Good(f, k)
    OBVIOUS
  <2>2. k \in 0 .. N /\ k + 1 \in 1 .. N
    BY <1>2
  <2> DEFINE g == [f EXCEPT ![k + 1] = next[k + 1][f[k]]]
  <2>3. next[k + 1][f[k]] \in D
    <3>1. f[k] \in D
      BY <2>2
    <3>2. next[k + 1] \in [D -> D]
      BY <2>2
    <3>3. QED
      BY <3>1, <3>2
  <2>4. g \in [0 .. N -> D]
    BY <2>3
  <2>5. \A n \in 0 .. k : g[n] = f[n]
    BY <2>2
  <2>6. g[k + 1] = next[k + 1][f[k]]
    BY <2>2
  <2> HIDE DEF g
  <2>7. \A n \in 1 .. (k + 1) : n = k + 1 \/ (n \in 1 .. k /\ n \in 0 .. k /\ n - 1 \in 0 .. k)
    BY <2>2
  <2>8. g[0] = first
    BY <2>1, <2>2, <2>5
  <2>9. \A n \in 1 .. (k + 1) : g[n] = next[n][g[n - 1]]
    <3> SUFFICES ASSUME NEW n \in 1 .. (k + 1) PROVE g[n] = next[n][g[n - 1]]
      OBVIOUS
    <3>1. CASE n = k + 1
      BY <2>2, <2>5, <2>6, <3>1
    <3>2. CASE n \in 1 .. k /\ n \in 0 .. k /\ n - 1 \in 0 .. k
      <4>1. g[n] = f[n] /\ g[n - 1] = f[n - 1]
        BY <2>5, <3>2
      <4>2. f[n] = next[n][f[n - 1]]
        BY <2>1, <3>2
      <4>3. QED
        BY <4>1, <4>2
    <3>3. QED
      BY <2>7, <3>1, <3>2
  <2>10. QED
    BY <2>2, <2>4, <2>8, <2>9
<1> HIDE DEF P
<1>3. P = 0 .. N
  <2>1. P \subseteq 0 .. N
    BY DEF P
  <2>2. QED
    BY <1>1, <1>2, <2>1, UpTo
<1>4. N \in P
  BY <1>3
<1>5. QED
  BY <1>4 DEF P

(* A recursion along a link that leads upwards or to 0.                    *)
Rising(link, N) == /\ link \in [1 .. N -> 0 .. N]
                   /\ \A n \in 1 .. N : link[n] = 0 \/ n < link[n]
Follows(f, N, D, nil, link, next) ==
  f \in [0 .. N -> D] /\ f[0] = nil /\ \A n \in 1 .. N : f[n] = next[n][f[link[n]]]

(* It has the function that follows the links.                             *)
LEMMA RecursionAlong ==
  ASSUME NEW N, N \in Nat, NEW D, NEW nil, nil \in D, NEW link, Rising(link, N),
         NEW next, Steps(next, N, D)
  PROVE  \E f : Follows(f, N, D, nil, link, next)
<1> USE DEF Rising, Steps, Follows
<1> DEFINE Good(f, k) == f[0] = nil /\ \A n \in 1 .. N : N - k < n => f[n] = next[n][f[link[n]]]
           P == {k \in 0 .. N : \E f \in [0 .. N -> D] : Good(f, k)}
<1>1. 0 \in P
  <2>1. [n \in 0 .. N |-> nil] \in [0 .. N -> D] /\ Good([n \in 0 .. N |-> nil], 0)
    OBVIOUS
  <2>2. QED
    BY <2>1
<1>2. ASSUME NEW k \in P, k < N PROVE k + 1 \in P
  <2>1. PICK f \in [0 .. N -> D] : Good(f, k)
    OBVIOUS
  <2> DEFINE m == N - k
  <2>2. m \in 1 .. N /\ k \in 0 .. N /\ k + 1 \in 0 .. N
    BY <1>2
  <2> DEFINE g == [f EXCEPT ![m] = next[m][f[link[m]]]]
  <2>3. next[m][f[link[m]]] \in D
    <3>1. f[link[m]] \in D
      BY <2>2
    <3>2. next[m] \in [D -> D]
      BY <2>2
    <3>3. QED
      BY <3>1, <3>2
  <2>4. g \in [0 .. N -> D]
    BY <2>3
  <2>5. \A n \in 0 .. N : n # m => g[n] = f[n]
    OBVIOUS
  <2>6. g[m] = next[m][f[link[m]]]
    BY <2>2
  <2> HIDE DEF g
  <2>7. g[0] = nil
    BY <2>1, <2>2, <2>5
  <2>8. ASSUME NEW n \in 1 .. N, N - (k + 1) < n PROVE g[n] = next[n][g[link[n]]]
    <3>1. link[n] \in 0 .. N /\ (link[n] = 0 \/ n < link[n]) /\ m <= n
      BY <2>2, <2>8
    <3>2. link[n] # m
      BY <2>2, <3>1
    <3>3. g[link[n]] = f[link[n]]
      BY <2>5, <3>1, <3>2
    <3>4. CASE n = m
      BY <2>6, <3>3, <3>4
    <3>5. CASE n # m
      <4>1. N - k < n
        BY <2>2, <3>1, <3>5
      <4>2. f[n] = next[n][f[link[n]]]
        BY <2>1, <4>1
      <4>3. QED
        BY <2>5, <3>3, <3>5, <4>2
    <3>6. QED
      BY <3>4, <3>5
  <2>9. QED
    BY <2>2, <2>4, <2>7, <2>8
<1> HIDE DEF P
<1>3. P = 0 .. N
  <2>1. P \subseteq 0 .. N
    BY DEF P
  <2>2. QED
    BY <1>1, <1>2, <2>1, UpTo
<1>4. N \in P
  BY <1>3
<1>5. QED
  BY <1>4 DEF P

(* What holds of 0, and of a number when it holds of where its link leads, *)
(* holds of all.                                                           *)
LEMMA InductionAlong ==
  ASSUME NEW N \in Nat, NEW link, Rising(link, N),
         NEW P \in SUBSET (0 .. N), 0 \in P,
         \A n \in 1 .. N : link[n] \in P => n \in P
  PROVE  P = 0 .. N
<1> USE DEF Rising
<1> DEFINE Q == {k \in 0 .. N : \A n \in 1 .. N : N - k < n => n \in P}
<1>1. Q \subseteq 0 .. N /\ 0 \in Q
  OBVIOUS
<1>2. ASSUME NEW k \in Q, k < N PROVE k + 1 \in Q
  <2>1. ASSUME NEW n \in 1 .. N, N - (k + 1) < n PROVE n \in P
    <3>1. link[n] \in 0 .. N /\ (link[n] = 0 \/ n < link[n])
      OBVIOUS
    <3>2. link[n] \in P
      <4>1. CASE link[n] = 0
        BY <4>1
      <4>2. CASE n < link[n]
        <5>1. link[n] \in 1 .. N /\ N - k < link[n]
          BY <1>2, <2>1, <3>1, <4>2
        <5>2. QED
          BY <5>1
      <4>3. QED
        BY <3>1, <4>1, <4>2
    <3>3. QED
      BY <3>1, <3>2
  <2>2. QED
    BY <1>2, <2>1
<1> HIDE DEF Q
<1>3. Q = 0 .. N
  BY <1>1, <1>2, UpTo
<1>4. N \in Q
  BY <1>3
<1>5. \A n \in 1 .. N : n \in P
  BY <1>4 DEF Q
<1>6. \A n \in 0 .. N : n = 0 \/ n \in 1 .. N
  OBVIOUS
<1>7. QED
  BY <1>5, <1>6

-----------------------------------------------------------------------------
(* The search tree.  Roots come in ascending order, so it is a chain.      *)

(* The links of a chain.                                                   *)
LEMMA ChainLinks ==
  ASSUME NEW t \in RBRoot, NEW N, IsChain(t, N)
  PROVE  /\ MaxRoots \in Nat /\ Ids = 1 .. MaxRoots /\ Node = 0 .. MaxRoots
         /\ N \subseteq Ids /\ t.root \in Node
         /\ t.right \in [1 .. MaxRoots -> 0 .. MaxRoots]
         /\ \A n \in 1 .. MaxRoots : t.left[n] = 0 /\ (t.right[n] = 0 \/ n < t.right[n])
<1>1. MaxRoots \in Nat /\ Ids = 1 .. MaxRoots /\ Node = 0 .. MaxRoots
  BY TreeAssumption DEF Ids, Node
<1>2. t.root \in Node /\ t.right \in [Ids -> Node]
  BY DEF RBRoot
<1>3. \A n \in Ids : t.left[n] = 0 /\ (t.right[n] = 0 \/ n < t.right[n])
  BY DEF IsChain, Nil
<1>4. QED
  BY <1>1, <1>2, <1>3 DEF IsChain

(* Recursion and induction along a chain.                                  *)
LEMMA ChainRecursion ==
  ASSUME NEW t \in RBRoot, NEW N, IsChain(t, N), NEW D, NEW nil, nil \in D,
         NEW next, Steps(next, MaxRoots, D)
  PROVE  \E f : Follows(f, MaxRoots, D, nil, t.right, next)
<1>1. MaxRoots \in Nat /\ Rising(t.right, MaxRoots)
  BY ChainLinks DEF Rising
<1>2. QED
  BY <1>1, RecursionAlong, Zenon

(* Induction along a chain: what holds of 0, and of a root when it holds   *)
(* of the next, holds of all.                                              *)
LEMMA ChainInduction ==
  ASSUME NEW t \in RBRoot, NEW N, IsChain(t, N), NEW P \in SUBSET Node, 0 \in P,
         \A n \in Ids : t.right[n] \in P => n \in P
  PROVE  P = Node
<1> DEFINE link == t.right
<1>1. MaxRoots \in Nat /\ Ids = 1 .. MaxRoots /\ Node = 0 .. MaxRoots /\ Rising(link, MaxRoots)
  BY ChainLinks DEF Rising
<1>2. \A n \in 1 .. MaxRoots : link[n] \in P => n \in P
  BY <1>1
<1> HIDE DEF link
<1>3. QED
  BY <1>1, <1>2, InductionAlong

(* LookupRoot finds what is in a chain, and nothing else.                  *)
LEMMA LookupRootIs ==
  ASSUME NEW t \in RBRoot, NEW N, IsChain(t, N), NEW i \in Node
  PROVE  LookupRoot(t, i) = IF i \in N THEN i ELSE 0
<1>0. /\ MaxRoots \in Nat /\ Ids = 1 .. MaxRoots /\ Node = 0 .. MaxRoots
      /\ N \subseteq Ids /\ t.root \in Node
      /\ t.right \in [1 .. MaxRoots -> 0 .. MaxRoots]
      /\ \A n \in 1 .. MaxRoots : t.left[n] = 0 /\ (t.right[n] = 0 \/ n < t.right[n])
  BY ChainLinks
<1>00. \A n \in 1 .. MaxRoots : t.right[n] = 0 \/ n < t.right[n]
  BY <1>0
<1> USE <1>0
<1> DEFINE At(f) == [n \in Node |-> IF n \in {0, i} THEN n
                                    ELSE IF i < n THEN f[t.left[n]] ELSE f[t.right[n]]]
           w == [n \in Node |-> IF n \in {0, i} THEN n
                                ELSE IF n < i /\ n \in N /\ i \in N THEN i ELSE 0]
           at == CHOOSE f : f = At(f)
<1>1. LookupRoot(t, i) = at[t.root]
  BY DEF LookupRoot
<1>2. \A n \in Ids : n \notin N => t.right[n] = 0
  BY DEF IsChain
<1>3. \A n \in N : \/ t.right[n] = 0 /\ \A m \in N : m <= n
                   \/ t.right[n] \in N /\ n < t.right[n] /\ \A m \in N : m <= n \/ t.right[n] <= m
  BY DEF IsChain
<1>4. \A n \in Node : w[n] = At(w)[n]
  <2> SUFFICES ASSUME NEW n \in Node, n \notin {0, i}
               PROVE  w[n] = IF i < n THEN w[t.left[n]] ELSE w[t.right[n]]
    OBVIOUS
  <2>1. n \in Ids /\ n # i /\ w[0] = 0
    OBVIOUS
  <2>2. CASE i < n
    BY <2>1, <2>2
  <2>3. CASE n < i /\ n \notin N
    BY <1>2, <2>1, <2>3
  <2>4. CASE n < i /\ n \in N
    <3>1. CASE t.right[n] = 0 /\ \A m \in N : m <= n
      BY <2>1, <2>4, <3>1
    <3>2. CASE t.right[n] \in N /\ n < t.right[n] /\ \A m \in N : m <= n \/ t.right[n] <= m
      <4>1. t.right[n] \in Node /\ t.right[n] # 0
        BY <3>2
      <4>2. w[t.right[n]] = IF t.right[n] = i THEN i
                            ELSE IF t.right[n] < i /\ t.right[n] \in N /\ i \in N THEN i ELSE 0
        BY <4>1
      <4>3. i \in N => t.right[n] <= i
        BY <2>4, <3>2
      <4>4. w[n] = IF i \in N THEN i ELSE 0
        BY <2>1, <2>4
      <4>5. QED
        BY <2>4, <3>2, <4>1, <4>2, <4>3, <4>4
    <3>3. QED
      BY <1>3, <2>4, <3>1, <3>2
  <2>5. QED
    BY <2>1, <2>2, <2>3, <2>4
<1>5. w = At(w)
  BY <1>4
<1> HIDE DEF w
<1>6. at = At(at)
  BY <1>5
<1>7. \A n \in Node : at[n] = IF n \in {0, i} THEN n
                              ELSE IF i < n THEN at[t.left[n]] ELSE at[t.right[n]]
  BY <1>6
<1>8. \A n \in Node : w[n] = IF n \in {0, i} THEN n
                             ELSE IF i < n THEN w[t.left[n]] ELSE w[t.right[n]]
  BY <1>5
<1> HIDE DEF at, At
<1> DEFINE P == {n \in Node : at[n] = w[n]}
<1>9. 0 \in P
  BY <1>7, <1>8
<1>10. ASSUME NEW n \in 1 .. MaxRoots, t.right[n] \in P PROVE n \in P
  BY <1>7, <1>8, <1>9, <1>10
<1>11. P = 0 .. MaxRoots
  <2>1. P \in SUBSET Node /\ \A n \in Ids : t.right[n] \in P => n \in P
    BY <1>10
  <2> HIDE DEF P
  <2>2. QED
    BY <1>9, <2>1, ChainInduction
<1>12. at[t.root] = w[t.root]
  BY <1>11
<1>13. w[t.root] = IF i \in N THEN i ELSE 0
  <2>1. t.root = 0 => N = {}
    BY DEF IsChain
  <2>2. t.root # 0 => t.root \in N /\ \A m \in N : t.root <= m
    BY DEF IsChain
  <2>3. QED
    BY <2>1, <2>2 DEF w
<1>14. QED
  BY <1>1, <1>12, <1>13

(* insertRoot comes to the last root of a chain, and to nothing outside.   *)
LEMMA ReachedIs ==
  ASSUME NEW t \in RBRoot, NEW N, IsChain(t, N), N # {},
         NEW i \in Ids, \A n \in N : n < i
  PROVE  /\ Reached(t, i) \subseteq N
         /\ \A m \in N : (\A n \in N : n <= m) => m \in Reached(t, i)
<1>0. /\ MaxRoots \in Nat /\ Ids = 1 .. MaxRoots /\ Node = 0 .. MaxRoots
      /\ N \subseteq Ids /\ t.root \in Node
      /\ t.right \in [1 .. MaxRoots -> 0 .. MaxRoots]
      /\ \A n \in 1 .. MaxRoots : t.left[n] = 0 /\ (t.right[n] = 0 \/ n < t.right[n])
  BY ChainLinks
<1>00. \A n \in 1 .. MaxRoots : t.right[n] = 0 \/ n < t.right[n]
  BY <1>0
<1> USE <1>0
<1> DEFINE From(f) == [n \in Node |->
              IF n = 0 THEN {}
              ELSE {n} \cup (IF i < n THEN f[t.left[n]] ELSE {})
                       \cup (IF i < n /\ t.left[n] = 0 THEN {} ELSE f[t.right[n]])]
           from == CHOOSE f : f = From(f)
           next == [n \in 1 .. MaxRoots |-> [x \in SUBSET Ids |->
                      {n} \cup (IF i < n THEN {} ELSE x)]]
<1>1. Reached(t, i) = from[t.root]
  BY DEF Reached
<1>2. from = From(from)
  <2> DEFINE D == SUBSET Ids
  <2>1. Steps(next, MaxRoots, D)
    BY DEF Steps
  <2>2. {} \in D
    OBVIOUS
  <2> HIDE DEF next, D
  <2>0. PICK f : Follows(f, MaxRoots, D, {}, t.right, next)
    BY <2>1, <2>2, ChainRecursion, Zenon
  <2>3. /\ f \in [Node -> D] /\ f[0] = {}
        /\ \A n \in 1 .. MaxRoots : f[n] = next[n][f[t.right[n]]]
    BY <2>0 DEF Follows
  <2>4. ASSUME NEW n \in 1 .. MaxRoots
        PROVE  f[n] = {n} \cup (IF i < n THEN {} ELSE f[t.right[n]])
    <3>1. t.right[n] \in 0 .. MaxRoots
      OBVIOUS
    <3>2. f[t.right[n]] \in D
      BY <2>3, <3>1
    <3>3. \A x \in D : next[n][x] = {n} \cup (IF i < n THEN {} ELSE x)
      BY DEF next, D
    <3>4. QED
      BY <2>3, <3>2, <3>3
  <2>5. ASSUME NEW n \in Node PROVE f[n] = From(f)[n]
    <3>1. CASE n = 0
      BY <2>3, <3>1
    <3>2. CASE n # 0 /\ i < n
      <4>1. From(f)[n] = {n} \cup f[0] \cup {}
        BY <3>2
      <4>2. QED
        BY <2>3, <2>4, <3>2, <4>1
    <3>3. CASE n # 0 /\ ~(i < n)
      <4>1. From(f)[n] = {n} \cup {} \cup f[t.right[n]]
        BY <3>3
      <4>2. QED
        BY <2>4, <3>3, <4>1
    <3>4. QED
      BY <3>1, <3>2, <3>3
  <2> HIDE DEF From
  <2>6. f = From(f)
    <3>1. From(f) = [n \in Node |-> From(f)[n]]
      BY DEF From
    <3>2. f = [n \in Node |-> f[n]]
      BY <2>3
    <3>3. QED
      BY <2>5, <3>1, <3>2
  <2>7. QED
    BY <2>6
<1>3. /\ from[0] = {}
      /\ \A n \in Ids : n < i => from[n] = {n} \cup from[t.right[n]]
  <2> DEFINE g == from
  <2>1. g = From(g)
    BY <1>2
  <2> HIDE DEF from, g
  <2>2. \A n \in Node : g[n] = IF n = 0 THEN {}
              ELSE {n} \cup (IF i < n THEN g[t.left[n]] ELSE {})
                       \cup (IF i < n /\ t.left[n] = 0 THEN {} ELSE g[t.right[n]])
    BY <2>1
  <2>3. \A n \in Ids : n < i => ~(i < n) /\ n # 0 /\ n \in Node
    OBVIOUS
  <2>4. g[0] = {}
    <3>1. 0 \in Node
      OBVIOUS
    <3>2. QED
      BY <2>2, <3>1
  <2>5. ASSUME NEW n \in Ids, n < i PROVE g[n] = {n} \cup g[t.right[n]]
    <3>1. g[n] = {n} \cup {} \cup g[t.right[n]]
      BY <2>2, <2>3, <2>5
    <3>2. QED
      BY <3>1
  <2>6. QED
    BY <2>4, <2>5 DEF g
<1> HIDE DEF from, From, next
<1> DEFINE P == {n \in Node : n \in N => /\ from[n] \subseteq N
                                         /\ \A m \in N : (\A k \in N : k <= m) => m \in from[n]}
<1>4. 0 \in P
  OBVIOUS
<1>5. ASSUME NEW n \in 1 .. MaxRoots, t.right[n] \in P, n \in N
      PROVE  /\ from[n] \subseteq N
             /\ \A m \in N : (\A k \in N : k <= m) => m \in from[n]
  <2>1. from[n] = {n} \cup from[t.right[n]]
    BY <1>3, <1>5
  <2>2. CASE t.right[n] = 0 /\ \A m \in N : m <= n
    <3>1. from[n] = {n}
      BY <1>3, <2>1, <2>2
    <3>2. \A m \in N : (\A k \in N : k <= m) => m = n
      BY <1>5, <2>2
    <3>3. QED
      BY <1>5, <3>1, <3>2
  <2>3. CASE t.right[n] \in N
    BY <1>5, <2>1, <2>3
  <2>4. QED
    BY <1>5, <2>2, <2>3 DEF IsChain
<1>6. P = Node
  <2>1. P \in SUBSET Node
    OBVIOUS
  <2>2. ASSUME NEW n \in Ids, t.right[n] \in P PROVE n \in P
    <3>1. n \in 1 .. MaxRoots /\ n \in Node
      OBVIOUS
    <3>2. n \in N => /\ from[n] \subseteq N
                     /\ \A m \in N : (\A k \in N : k <= m) => m \in from[n]
      BY <1>5, <2>2, <3>1
    <3>3. QED
      BY <3>1, <3>2, Zenon
  <2> HIDE DEF P
  <2>3. QED
    BY <1>4, <2>1, <2>2, ChainInduction
<1>7. t.root \in N /\ t.root \in P
  BY <1>6 DEF IsChain
<1>8. QED
  BY <1>1, <1>7

(* InsertRoot puts a root behind those of a chain.                         *)
LEMMA InsertRootIs ==
  ASSUME NEW t \in RBRoot, NEW N, IsChain(t, N), NEW i \in Ids, \A n \in N : n < i
  PROVE  /\ InsertRoot(t, i) \in RBRoot /\ InsertRoot(t, i).info = t.info
         /\ IsChain(InsertRoot(t, i), N \cup {i})
<1>0. /\ MaxRoots \in Nat /\ Ids = 1 .. MaxRoots /\ Node = 0 .. MaxRoots
      /\ N \subseteq Ids /\ t.root \in Node
      /\ t.right \in [1 .. MaxRoots -> 0 .. MaxRoots]
      /\ \A n \in 1 .. MaxRoots : t.left[n] = 0 /\ (t.right[n] = 0 \/ n < t.right[n])
  BY ChainLinks
<1>00. \A n \in 1 .. MaxRoots : t.right[n] = 0 \/ n < t.right[n]
  BY <1>0
<1> USE <1>0
<1>1. CASE t.root = 0
  <2>1. N = {}
    BY <1>1 DEF IsChain
  <2>2. InsertRoot(t, i) = [t EXCEPT !.root = i]
    BY <1>1 DEF InsertRoot
  <2> DEFINE u == InsertRoot(t, i)
  <2>3. u = [root |-> i, left |-> t.left, right |-> t.right, info |-> t.info]
    BY <2>2 DEF RBRoot
  <2> HIDE DEF u
  <2>4. u \in RBRoot
    BY <2>3 DEF RBRoot
  <2>5. \A n \in Ids : u.right[n] = 0
    BY <2>1, <2>3 DEF IsChain
  <2>6. IsChain(u, {i})
    BY <2>3, <2>5 DEF IsChain
  <2>7. QED
    BY <2>1, <2>3, <2>4, <2>6 DEF u
<1>2. CASE t.root # 0
  <2>1. N # {}
    BY <1>2 DEF IsChain
  <2> DEFINE r == Reached(t, i)
             u == InsertRoot(t, i)
  <2>2. r \subseteq N /\ \A m \in N : (\A n \in N : n <= m) => m \in r
    BY <2>1, ReachedIs
  <2>3. u = Link(t, i, r)
    BY <1>2 DEF InsertRoot
  <2>4. /\ u.root = t.root /\ u.info = t.info
        /\ u.left = [n \in Ids |-> IF n \in r /\ i < n /\ t.left[n] = 0 THEN i ELSE t.left[n]]
        /\ u.right = [n \in Ids |->
             IF n \in r /\ t.right[n] = 0 /\ ~(i < n /\ t.left[n] = 0) THEN i ELSE t.right[n]]
        /\ u = [root |-> t.root, left |-> u.left, right |-> u.right, info |-> t.info]
    BY <2>3 DEF Link, RBRoot
  <2> HIDE DEF r, u
  <2>5. \A n \in r : n \in N /\ n < i
    BY <2>2
  <2>6. u.left = Nil
    BY <2>4, <2>5 DEF Nil
  <2>7. \A n \in Ids : u.right[n] = IF n \in r /\ t.right[n] = 0 THEN i ELSE t.right[n]
    BY <2>4, <2>5
  <2>8. u \in RBRoot
    <3>1. u.right \in [Ids -> Node] /\ u.left \in [Ids -> Node]
      <4>1. \A n \in Ids : t.right[n] \in Node
        OBVIOUS
      <4>2. \A n \in Ids : u.right[n] \in Node
        BY <2>7, <4>1
      <4>3. u.right = [n \in Ids |-> u.right[n]]
        BY <2>4
      <4>4. QED
        BY <2>6, <4>2, <4>3 DEF Nil
    <3>2. QED
      BY <2>4, <3>1 DEF RBRoot
  <2>9. u.root \in N \cup {i} /\ \A m \in N \cup {i} : u.root <= m
    BY <2>1, <2>4 DEF IsChain
  <2>10. ASSUME NEW n \in Ids
         PROVE  \/ u.right[n] = 0 /\ (n \in N \cup {i} => \A m \in N \cup {i} : m <= n)
                \/ /\ n \in N \cup {i} /\ u.right[n] \in N \cup {i} /\ n < u.right[n]
                   /\ \A m \in N \cup {i} : m <= n \/ u.right[n] <= m
    <3>1. CASE n \in N /\ t.right[n] = 0
      <4>1. \A m \in N : m <= n
        BY <3>1 DEF IsChain
      <4>2. n \in r /\ u.right[n] = i /\ n < i
        BY <2>2, <2>7, <3>1, <4>1
      <4>3. QED
        BY <3>1, <4>1, <4>2
    <3>2. CASE n \in N /\ t.right[n] # 0
      <4>1. u.right[n] = t.right[n]
        BY <2>7, <3>2
      <4>2. t.right[n] \in N /\ n < t.right[n] /\ \A m \in N : m <= n \/ t.right[n] <= m
        BY <3>2 DEF IsChain
      <4>3. t.right[n] <= i
        BY <4>2
      <4>4. QED
        BY <3>2, <4>1, <4>2, <4>3
    <3>3. CASE n \notin N
      <4>1. u.right[n] = 0
        BY <2>5, <2>7, <3>3 DEF IsChain
      <4>2. n = i => \A m \in N \cup {i} : m <= n
        OBVIOUS
      <4>3. QED
        BY <3>3, <4>1, <4>2
    <3>4. QED
      BY <3>1, <3>2, <3>3
  <2>11. IsChain(u, N \cup {i})
    BY <2>6, <2>9, <2>10 DEF IsChain
  <2>12. QED
    BY <2>4, <2>8, <2>11 DEF u
<1>3. QED
  BY <1>1, <1>2

(* Walking a chain by its right links gives its roots once each, in the    *)
(* order of their ids.                                                     *)
Walk(s, N) == /\ s \in Seq(Ids) /\ ToSet(s) = N
              /\ \A j \in 2 .. Len(s) : s[j - 1] < s[j]
Walker(f, t) == f[0] = <<>> /\ \A n \in Ids : f[n] = <<n>> \o f[t.right[n]]
(* What goes from the root of a chain along its links is a walk.           *)
LEMMA WalkOf ==
  ASSUME NEW t \in RBRoot, NEW N, IsChain(t, N),
         NEW f, Walker(f, t)
  PROVE  Walk(f[t.root], N)
<1> USE DEF Walker
<1> DEFINE From(n) == {m \in N : n <= m}
           Asc(s) == \A j \in 2 .. Len(s) : s[j - 1] < s[j]
           Good(n) == /\ f[n] \in Seq(Ids) /\ Asc(f[n])
                      /\ n \in N => ToSet(f[n]) = From(n)
                      /\ n # 0 => Len(f[n]) > 0 /\ f[n][1] = n
           P == {n \in Node : Good(n)}
<1>0. /\ MaxRoots \in Nat /\ Ids = 1 .. MaxRoots /\ Node = 0 .. MaxRoots
      /\ N \subseteq Ids /\ t.root \in Node /\ 0 \notin N
      /\ \A n \in Ids : t.right[n] \in Node /\ (t.right[n] = 0 \/ n < t.right[n])
  BY ChainLinks
<1>1. 0 \in P
  <2>1. f[0] = <<>> /\ Len(<<>>) = 0
    OBVIOUS
  <2>2. f[0] \in Seq(Ids)
    BY <2>1
  <2>3. Asc(f[0])
    BY <2>1
  <2>4. 0 \in Node /\ 0 \notin N
    BY <1>0
  <2> HIDE DEF Asc
  <2>5. Good(0)
    BY <2>2, <2>3, <2>4
  <2> HIDE DEF Good
  <2>6. QED
    BY <2>4, <2>5
<1> HIDE DEF Good
<1>2. ASSUME NEW n \in Ids, Good(t.right[n]) PROVE Good(n)
  <2> DEFINE r == t.right[n]
             s == f[r]
  <2>1. n \in Nat /\ n \in Ids /\ r \in Node /\ s \in Seq(Ids) /\ (r = 0 \/ n < r) /\ Asc(s)
    <3>1. n \in Nat /\ r \in Node /\ (r = 0 \/ n < r)
      BY <1>0
    <3>2. s \in Seq(Ids) /\ Asc(s)
      BY <1>2 DEF Good
    <3>3. QED
      BY <3>1, <3>2
  <2>2. r # 0 => Len(s) > 0 /\ s[1] = r
    BY <1>2 DEF Good
  <2>3. r \in N => ToSet(s) = From(r)
    BY <1>2 DEF Good
  <2>4. r = 0 => s = <<>> /\ Len(s) = 0 /\ ToSet(s) = {}
    BY DEF ToSet
  <2>5. f[n] = <<n>> \o s
    OBVIOUS
  <2> HIDE DEF s, r, From, Asc
  <2>6. /\ f[n] \in Seq(Ids) /\ Len(f[n]) = Len(s) + 1 /\ f[n][1] = n
        /\ \A j \in 2 .. Len(f[n]) : f[n][j] = s[j - 1]
    BY <2>1, <2>5
  <2>7. Asc(f[n])
    <3> SUFFICES ASSUME NEW j \in 2 .. Len(f[n]) PROVE f[n][j - 1] < f[n][j]
      BY DEF Asc
    <3> Len(s) \in Nat
      BY <2>1
    <3>1. CASE j = 2
      <4>1. Len(s) # 0
        BY <2>6, <3>1
      <4>2. s[1] = r /\ n < r
        BY <2>1, <2>2, <2>4, <4>1
      <4>3. f[n][2] = s[1] /\ f[n][1] = n
        BY <2>6, <3>1
      <4>4. QED
        BY <3>1, <4>2, <4>3
    <3>2. CASE j # 2
      <4>1. j - 1 \in 2 .. Len(s) /\ j - 1 \in 2 .. Len(f[n])
        BY <2>6, <3>2
      <4>2. s[j - 1 - 1] < s[j - 1]
        BY <2>1, <4>1 DEF Asc
      <4>3. QED
        BY <2>6, <4>1, <4>2
    <3>3. QED
      BY <3>1, <3>2
  <2>8. ToSet(f[n]) = {n} \cup ToSet(s)
    <3>0. Len(s) \in Nat
      BY <2>1
    <3>1. \A j \in 1 .. Len(f[n]) : j = 1 \/ (j \in 2 .. Len(f[n]) /\ j - 1 \in 1 .. Len(s))
      BY <2>6, <3>0
    <3>2. \A j \in 1 .. Len(s) : j + 1 \in 2 .. Len(f[n]) /\ j + 1 - 1 = j /\ j + 1 \in 1 .. Len(f[n])
      BY <2>6, <3>0
    <3>3. 1 \in 1 .. Len(f[n])
      BY <2>6, <3>0
    <3>4. DOMAIN s = 1 .. Len(s) /\ DOMAIN f[n] = 1 .. Len(f[n])
      BY <2>1, <2>6
    <3>5. ASSUME NEW x \in ToSet(f[n]) PROVE x \in {n} \cup ToSet(s)
      <4>1. PICK j \in 1 .. Len(f[n]) : x = f[n][j]
        BY <3>4 DEF ToSet
      <4>2. QED
        BY <2>6, <3>1, <3>4, <4>1 DEF ToSet
    <3>6. ASSUME NEW x \in ToSet(s) PROVE x \in ToSet(f[n])
      <4>1. PICK j \in 1 .. Len(s) : x = s[j]
        BY <3>4 DEF ToSet
      <4>2. f[n][j + 1] = s[j]
        BY <2>6, <3>2, <4>1
      <4>3. QED
        BY <3>2, <3>4, <4>1, <4>2 DEF ToSet
    <3>7. n \in ToSet(f[n])
      BY <2>6, <3>3, <3>4 DEF ToSet
    <3>8. QED
      BY <3>5, <3>6, <3>7
  <2>9. ASSUME n \in N PROVE ToSet(f[n]) = From(n)
    <3>1. CASE r = 0
      <4>1. \A m \in N : m <= n
        <5>1. \/ t.right[n] = 0 /\ (n \in N => \A m \in N : m <= n)
              \/ t.right[n] \in N
          BY DEF IsChain
        <5>2. t.right[n] = 0
          BY <3>1 DEF r
        <5>3. QED
          BY <1>0, <2>9, <5>1, <5>2
      <4>2. From(n) = {n}
        <5>1. \A m \in N : m \in Nat
          BY <1>0
        <5>2. \A m \in N : n <= m <=> m = n
          BY <2>1, <4>1, <5>1
        <5>3. QED
          BY <2>9, <5>2 DEF From
      <4>3. QED
        BY <2>4, <2>8, <3>1, <4>2
    <3>2. CASE r # 0
      <4>1. r \in N /\ n < r /\ \A m \in N : m <= n \/ r <= m
        BY <2>9, <3>2 DEF IsChain, r
      <4>2. \A m \in N : m \in Nat
        BY <1>0
      <4>3. \A m \in N : n <= m <=> m = n \/ r <= m
        BY <2>1, <4>1, <4>2
      <4>5. From(n) = {n} \cup From(r)
        BY <2>9, <4>3 DEF From
      <4>4. QED
        BY <2>3, <2>8, <4>1, <4>5
    <3>3. QED
      BY <3>1, <3>2
  <2>10. Len(f[n]) > 0
    BY <2>1, <2>6
  <2>11. QED
    BY <2>6, <2>7, <2>9, <2>10 DEF Good, From, Asc
<1>3. P = Node
  <2>1. P \in SUBSET Node /\ \A n \in Ids : t.right[n] \in P => n \in P
    BY <1>0, <1>2
  <2> HIDE DEF P
  <2>2. QED
    BY <1>1, <2>1, ChainInduction
<1>4. Good(t.root)
  BY <1>0, <1>3
<1>5. CASE t.root = 0
  <2>1. N = {}
    BY <1>0, <1>5 DEF IsChain
  <2>2. f[t.root] = <<>>
    BY <1>5
  <2>3. QED
    BY <2>1, <2>2 DEF Walk, ToSet
<1>6. CASE t.root # 0
  <2>1. t.root \in N /\ From(t.root) = N
    BY <1>6 DEF IsChain
  <2>2. ToSet(f[t.root]) = From(t.root) /\ f[t.root] \in Seq(Ids) /\ Asc(f[t.root])
    BY <1>4, <2>1 DEF Good
  <2>3. QED
    BY <2>1, <2>2 DEF Walk
<1>7. QED
  BY <1>5, <1>6

(* A function that makes the walk exists.                                  *)
LEMMA WalkExists ==
  ASSUME NEW t \in RBRoot, NEW N, IsChain(t, N)
  PROVE  \E f \in [Node -> Seq(Ids)] :
            f[0] = <<>> /\ \A n \in Ids : f[n] = <<n>> \o f[t.right[n]]
<1>0. /\ MaxRoots \in Nat /\ Ids = 1 .. MaxRoots /\ Node = 0 .. MaxRoots
      /\ N \subseteq Ids /\ t.root \in Node
      /\ t.right \in [1 .. MaxRoots -> 0 .. MaxRoots]
      /\ \A n \in 1 .. MaxRoots : t.left[n] = 0 /\ (t.right[n] = 0 \/ n < t.right[n])
  BY ChainLinks
<1>00. \A n \in 1 .. MaxRoots : t.right[n] = 0 \/ n < t.right[n]
  BY <1>0
<1> USE <1>0
<1> DEFINE D == Seq(Ids)
           next == [n \in 1 .. MaxRoots |-> [x \in D |-> <<n>> \o x]]
<1>1. Steps(next, MaxRoots, D)
  BY DEF Steps
<1>2. <<>> \in D
  OBVIOUS
<1> HIDE DEF next, D
<1>7. PICK f : Follows(f, MaxRoots, D, <<>>, t.right, next)
  BY <1>1, <1>2, ChainRecursion, Zenon
<1>3. /\ f \in [Node -> D] /\ f[0] = <<>>
      /\ \A n \in 1 .. MaxRoots : f[n] = next[n][f[t.right[n]]]
  BY <1>7 DEF Follows
<1>4. ASSUME NEW n \in 1 .. MaxRoots PROVE f[n] = <<n>> \o f[t.right[n]]
  <2>1. t.right[n] \in 0 .. MaxRoots
    OBVIOUS
  <2>2. f[t.right[n]] \in D
    BY <1>3, <2>1
  <2>3. \A x \in D : next[n][x] = <<n>> \o x
    BY DEF next
  <2>4. QED
    BY <1>3, <2>2, <2>3
<1>5. f \in [Node -> Seq(Ids)]
  BY <1>3 DEF D
<1>6. QED
  BY <1>3, <1>4, <1>5

(* The iterators walk a chain.                                             *)
LEMMA InOrderIs ==
  ASSUME NEW t \in RBRoot, NEW N, IsChain(t, N)
  PROVE  Walk(InOrder(t), N)
<1>0. /\ MaxRoots \in Nat /\ Ids = 1 .. MaxRoots /\ Node = 0 .. MaxRoots
      /\ N \subseteq Ids /\ t.root \in Node
      /\ t.right \in [1 .. MaxRoots -> 0 .. MaxRoots]
      /\ \A n \in 1 .. MaxRoots : t.left[n] = 0 /\ (t.right[n] = 0 \/ n < t.right[n])
  BY ChainLinks
<1>00. \A n \in 1 .. MaxRoots : t.right[n] = 0 \/ n < t.right[n]
  BY <1>0
<1> USE <1>0
<1> DEFINE From(f) == [n \in Node |-> IF n = 0 THEN <<>>
                                      ELSE f[t.left[n]] \o <<n>> \o f[t.right[n]]]
           from == CHOOSE f : f = From(f)
<1>1. InOrder(t) = from[t.root]
  BY DEF InOrder
<1>2. PICK w \in [Node -> Seq(Ids)] : w[0] = <<>> /\ \A n \in Ids : w[n] = <<n>> \o w[t.right[n]]
  BY WalkExists
<1>3. w = From(w)
  <2>1. ASSUME NEW n \in Node PROVE w[n] = From(w)[n]
    <3>1. CASE n = 0
      BY <1>2, <3>1
    <3>2. CASE n # 0
      <4> n \in Ids /\ t.left[n] = 0 /\ t.right[n] \in Node
        BY <3>2
      <4>1. w[t.right[n]] \in Seq(Ids) /\ <<n>> \in Seq(Ids)
        OBVIOUS
      <4>2. From(w)[n] = <<>> \o <<n>> \o w[t.right[n]]
        BY <1>2, <3>2
      <4>3. <<>> \o <<n>> = <<n>>
        BY <4>1
      <4>4. QED
        BY <1>2, <3>2, <4>2, <4>3
    <3>3. QED
      BY <3>1, <3>2
  <2> HIDE DEF From
  <2>2. From(w) = [n \in Node |-> From(w)[n]]
    BY DEF From
  <2>3. w = [n \in Node |-> w[n]]
    OBVIOUS
  <2>4. QED
    BY <2>1, <2>2, <2>3
<1> HIDE DEF From
<1>4. from = From(from)
  BY <1>3
<1> HIDE DEF from
<1>5. from[0] = <<>> /\ \A n \in Ids : from[n] = from[0] \o <<n>> \o from[t.right[n]]
  <2>1. \A n \in Node : from[n] = IF n = 0 THEN <<>>
                                   ELSE from[t.left[n]] \o <<n>> \o from[t.right[n]]
    BY <1>4 DEF From
  <2>2. \A n \in Ids : n \in Node /\ n # 0 /\ t.left[n] = 0
    OBVIOUS
  <2>3. 0 \in Node
    OBVIOUS
  <2>4. QED
    BY <2>1, <2>2, <2>3
<1>6. \A n \in Ids : from[n] = <<n>> \o from[t.right[n]]
  <2>1. \A n \in Ids : <<>> \o <<n>> = <<n>>
    OBVIOUS
  <2>2. QED
    BY <1>5, <2>1
<1>7. Walker(from, t)
  BY <1>5, <1>6 DEF Walker
<1>8. QED
  BY <1>1, <1>7, WalkOf, Zenon

(* The walk of resolveFullPaths comes to every root of a chain, in order.  *)
LEMMA PreOrderIs ==
  ASSUME NEW t \in RBRoot, NEW N, IsChain(t, N)
  PROVE  Walk(PreOrder(t), N)
<1>0. /\ MaxRoots \in Nat /\ Ids = 1 .. MaxRoots /\ Node = 0 .. MaxRoots
      /\ N \subseteq Ids /\ t.root \in Node
      /\ t.right \in [1 .. MaxRoots -> 0 .. MaxRoots]
      /\ \A n \in 1 .. MaxRoots : t.left[n] = 0 /\ (t.right[n] = 0 \/ n < t.right[n])
  BY ChainLinks
<1>00. \A n \in 1 .. MaxRoots : t.right[n] = 0 \/ n < t.right[n]
  BY <1>0
<1> USE <1>0
<1> DEFINE From(f) == [n \in Node |-> IF n = 0 THEN <<>>
                                      ELSE <<n>> \o f[t.left[n]] \o f[t.right[n]]]
           from == CHOOSE f : f = From(f)
<1>1. PreOrder(t) = from[t.root]
  BY DEF PreOrder
<1>2. PICK w \in [Node -> Seq(Ids)] : w[0] = <<>> /\ \A n \in Ids : w[n] = <<n>> \o w[t.right[n]]
  BY WalkExists
<1>3. w = From(w)
  <2>1. ASSUME NEW n \in Node PROVE w[n] = From(w)[n]
    <3>1. CASE n = 0
      BY <1>2, <3>1
    <3>2. CASE n # 0
      <4> n \in Ids /\ t.left[n] = 0 /\ t.right[n] \in Node
        BY <3>2
      <4>1. w[t.right[n]] \in Seq(Ids) /\ <<n>> \in Seq(Ids)
        OBVIOUS
      <4>2. From(w)[n] = <<n>> \o <<>> \o w[t.right[n]]
        BY <1>2, <3>2
      <4>3. <<n>> \o <<>> = <<n>>
        BY <4>1
      <4>4. QED
        BY <1>2, <3>2, <4>2, <4>3
    <3>3. QED
      BY <3>1, <3>2
  <2> HIDE DEF From
  <2>2. From(w) = [n \in Node |-> From(w)[n]]
    BY DEF From
  <2>3. w = [n \in Node |-> w[n]]
    OBVIOUS
  <2>4. QED
    BY <2>1, <2>2, <2>3
<1> HIDE DEF From
<1>4. from = From(from)
  BY <1>3
<1> HIDE DEF from
<1>5. from[0] = <<>> /\ \A n \in Ids : from[n] = <<n>> \o from[0] \o from[t.right[n]]
  <2>1. \A n \in Node : from[n] = IF n = 0 THEN <<>>
                                   ELSE <<n>> \o from[t.left[n]] \o from[t.right[n]]
    BY <1>4 DEF From
  <2>2. \A n \in Ids : n \in Node /\ n # 0 /\ t.left[n] = 0
    OBVIOUS
  <2>3. 0 \in Node
    OBVIOUS
  <2>4. QED
    BY <2>1, <2>2, <2>3
<1>6. \A n \in Ids : from[n] = <<n>> \o from[t.right[n]]
  <2>1. \A n \in Ids : <<n>> \o <<>> = <<n>>
    OBVIOUS
  <2>2. QED
    BY <1>5, <2>1
<1>7. Walker(from, t)
  BY <1>5, <1>6 DEF Walker
<1>8. QED
  BY <1>1, <1>7, WalkOf, Zenon

(* The roots that are found in a chain are those it was built of.          *)
LEMMA RootsIs ==
  ASSUME NEW t \in RBRoot, NEW N, IsChain(t, N)
  PROVE  Roots(t) = N
BY InOrderIs, Zenon DEF Roots, Walk

(* A key is an id and a parent, and keys are in the order of the ids. *)
LEMMA DivMod ==
  ASSUME NEW w \in Nat, w > 0, NEW i \in Nat, NEW p \in 0 .. (w - 1)
  PROVE  (i * w + p) \div w = i /\ (i * w + p) % w = p
<1> DEFINE k == i * w + p
           q == k \div w
           r == k % w
<1>1. k \in Nat
  OBVIOUS
<1>2. q \in Int /\ r \in 0 .. (w - 1) /\ k = w * q + r
  BY <1>1
<1>3. k = i * w + p
  OBVIOUS
<1> HIDE DEF k, q, r
<1>4. w * (q - i) = p - r /\ p - r < w /\ r - p < w
  BY <1>2, <1>3
<1>5. ~(q >= i + 1)
  BY <1>2, <1>4
<1>6. ~(q <= i - 1)
  BY <1>2, <1>4
<1>7. q = i
  BY <1>2, <1>5, <1>6
<1>8. r = p
  BY <1>2, <1>4, <1>7
<1>9. QED
  BY <1>7, <1>8 DEF k, q, r

(* A key has the id and the parent it was made of.                         *)
LEMMA KeyIs ==
  ASSUME NEW i \in Nat, NEW p \in Node
  PROVE  KeyOf(i, p) \in Nat /\ IdOf(KeyOf(i, p)) = i /\ ParentOf(KeyOf(i, p)) = p
<1>1. MaxRoots + 1 \in Nat /\ MaxRoots + 1 > 0 /\ p \in 0 .. ((MaxRoots + 1) - 1) /\ i * (MaxRoots + 1) + p \in Nat
  BY TreeAssumption DEF Node
<1>2. QED
  BY <1>1, DivMod DEF KeyOf, IdOf, ParentOf

(* Keys are in the order of the ids and, for one id, of the parents.       *)
LEMMA KeyOrder ==
  ASSUME NEW i \in Nat, NEW j \in Nat, NEW p \in Node, NEW q \in Node
  PROVE  KeyOf(i, p) < KeyOf(j, q) <=> i < j \/ (i = j /\ p < q)
<1> DEFINE w == MaxRoots + 1
<1>1. w \in Nat /\ w > 0 /\ p \in Nat /\ q \in Nat /\ p < w /\ q < w
  BY TreeAssumption DEF Node
<1>2. KeyOf(i, p) = i * w + p /\ KeyOf(j, q) = j * w + q
  BY DEF KeyOf
<1> HIDE DEF w
<1>3. ASSUME i < j PROVE i * w + p < j * w + q
  <2>1. (i + 1) * w <= j * w
    BY <1>1, <1>3
  <2>2. QED
    BY <1>1, <2>1
<1>4. ASSUME j < i PROVE j * w + q < i * w + p
  <2>1. (j + 1) * w <= i * w
    BY <1>1, <1>4
  <2>2. QED
    BY <1>1, <2>1
<1>5. i * w + p \in Nat /\ j * w + q \in Nat
  BY <1>1
<1>6. QED
  BY <1>1, <1>2, <1>3, <1>4, <1>5

(* Division with remainder takes a number apart.                           *)
LEMMA DivModOnto ==
  ASSUME NEW w \in Nat, w > 0, NEW k \in Nat
  PROVE  k \div w \in Nat /\ k % w \in 0 .. (w - 1) /\ k = (k \div w) * w + (k % w)
<1> DEFINE q == k \div w
           r == k % w
<1>1. q \in Int /\ r \in 0 .. (w - 1) /\ k = w * q + r
  OBVIOUS
<1> HIDE DEF q, r
<1>2. ~(q <= -1)
  BY <1>1
<1>3. q \in Nat /\ w * q = q * w
  BY <1>1, <1>2
<1>4. q \in Nat /\ r \in 0 .. (w - 1) /\ k = q * w + r
  BY <1>1, <1>3
<1>5. QED
  BY <1>4 DEF q, r

(* Every number is the key of its id and its parent.                       *)
LEMMA KeyOnto ==
  ASSUME NEW k \in Nat
  PROVE  IdOf(k) \in Nat /\ ParentOf(k) \in Node /\ k = KeyOf(IdOf(k), ParentOf(k))
<1>1. MaxRoots + 1 \in Nat /\ MaxRoots + 1 > 0 /\ Node = 0 .. ((MaxRoots + 1) - 1)
  BY TreeAssumption DEF Node
<1>2. QED
  BY <1>1, DivModOnto DEF IdOf, ParentOf, KeyOf

(* A key is put into the tree whatever its links are. *)
LEMMA InsertRootType ==
  ASSUME NEW t \in RBRoot, NEW i \in Ids
  PROVE  InsertRoot(t, i) \in RBRoot /\ InsertRoot(t, i).info = t.info
<1>1. i \in Node /\ t.root \in Node /\ t.left \in [Ids -> Node] /\ t.right \in [Ids -> Node]
      /\ t.info \in [Ids -> RootInfo]
      /\ t = [root |-> t.root, left |-> t.left, right |-> t.right, info |-> t.info]
  BY DEF RBRoot, Ids, Node
<1>2. ASSUME NEW r PROVE Link(t, i, r) \in RBRoot /\ Link(t, i, r).info = t.info
  <2> DEFINE l == [n \in Ids |-> IF n \in r /\ i < n /\ t.left[n] = 0 THEN i ELSE t.left[n]]
             g == [n \in Ids |->
                     IF n \in r /\ t.right[n] = 0 /\ ~(i < n /\ t.left[n] = 0) THEN i ELSE t.right[n]]
  <2>1. Link(t, i, r) = [root |-> t.root, left |-> l, right |-> g, info |-> t.info]
    <3>0. PICK u : u = Link(t, i, r)
      OBVIOUS
    <3>1. /\ u.root = t.root /\ u.info = t.info /\ u.left = l /\ u.right = g
          /\ u = [root |-> t.root, left |-> u.left, right |-> u.right, info |-> t.info]
      BY <3>0 DEF Link, RBRoot
    <3> HIDE DEF l, g
    <3>2. u = [root |-> t.root, left |-> l, right |-> g, info |-> t.info]
      BY <3>1
    <3>3. QED
      BY <3>0, <3>2
  <2>2. l \in [Ids -> Node] /\ g \in [Ids -> Node]
    BY <1>1
  <2> HIDE DEF l, g
  <2>3. QED
    BY <1>1, <2>1, <2>2 DEF RBRoot
<1>3. [t EXCEPT !.root = i] \in RBRoot /\ [t EXCEPT !.root = i].info = t.info
  BY <1>1 DEF RBRoot
<1>4. QED
  BY <1>2, <1>3 DEF InsertRoot

(* UpdateRoot keeps the type of the information on a root.                 *)
LEMMA FieldsType ==
  ASSUME NEW k \in Nat, IdOf(k) \in Ids, fs \in [Ids -> Root], NEW info \in RootInfo
  PROVE  Fields(info, k) \in RootInfo
<1>1. fs[IdOf(k)] \in Root /\ ParentOf(k) \in Node
  BY KeyOnto
<1>2. QED
  BY <1>1 DEF Fields, Root, RootInfo

(* The information on a new root has its type.                             *)
LEMMA NoInfoType == NoInfo \in RootInfo
<1>1. 0 \in Node
  BY TreeAssumption DEF Node
<1>2. <<>> \in Seq(STRING)
  OBVIOUS
<1>3. NoName \in STRING
  BY NamesAssumption
<1>4. NoDir \in Dir
  BY <1>1, <1>2 DEF NoDir, Dir
<1>5. QED
  BY <1>1, <1>2, <1>3, <1>4 DEF NoInfo, RootInfo

(* An item keeps the type of the search tree.                              *)
LEMMA PutType ==
  ASSUME NEW t \in RBRoot, NEW k \in Nat, IdOf(k) \in Ids, fs \in [Ids -> Root]
  PROVE  Put(t, k) \in RBRoot
<1> DEFINE i == IdOf(k)
<1>1. \A u \in RBRoot : \A info \in RootInfo : [u EXCEPT !.info[i] = info] \in RBRoot
  BY DEF RBRoot
<1>2. t.info[i] \in RootInfo
  BY DEF RBRoot
<1>3. Fields(t.info[i], k) \in RootInfo /\ Fields(NoInfo, k) \in RootInfo
  BY <1>2, FieldsType, NoInfoType
<1>4. InsertRoot(t, i) \in RBRoot
  BY InsertRootType
<1> HIDE DEF i
<1>5. Put(t, k) = IF LookupRoot(t, i) # 0
                  THEN [t EXCEPT !.info[i] = Fields(t.info[i], k)]
                  ELSE [InsertRoot(t, i) EXCEPT !.info[i] = Fields(NoInfo, k)]
  BY DEF Put, i
<1>6. QED
  BY <1>1, <1>3, <1>4, <1>5

(* Keys that come in order are put behind those of a chain. *)
LEMMA PutIs ==
  ASSUME NEW t \in RBRoot, NEW N, IsChain(t, N), NEW k \in Nat, IdOf(k) \in Ids,
         fs \in [Ids -> Root], \A j \in N : j <= IdOf(k), \A j \in Ids \ N : t.info[j] = NoInfo
  PROVE  /\ IsChain(Put(t, k), N \cup {IdOf(k)})
         /\ Put(t, k).info = [t.info EXCEPT ![IdOf(k)] = Fields(@, k)]
<1> DEFINE i == IdOf(k)
<1>0. IsChain(t, N) /\ N \subseteq Ids /\ i \in Ids /\ i # 0 /\ i \in Node /\ i \in Nat
  BY TreeAssumption, ChainLinks DEF Ids, Node
<1>1. LookupRoot(t, i) = IF i \in N THEN i ELSE 0
  BY <1>0, LookupRootIs
<1>2. Put(t, k) = IF LookupRoot(t, i) # 0
                  THEN [t EXCEPT !.info[i] = Fields(t.info[i], k)]
                  ELSE [InsertRoot(t, i) EXCEPT !.info[i] = Fields(NoInfo, k)]
  BY DEF Put
<1>3. t.info \in [Ids -> RootInfo] /\ t = [root |-> t.root, left |-> t.left, right |-> t.right, info |-> t.info]
  BY DEF RBRoot
<1>4. \A j \in N : j <= i
  OBVIOUS
<1>5. i \notin N => t.info[i] = NoInfo
  BY <1>0
<1> HIDE DEF i
<1>6. CASE i \in N
  <2> DEFINE u == [t EXCEPT !.info[i] = Fields(t.info[i], k)]
  <2>1. Put(t, k) = u
    BY <1>0, <1>1, <1>2, <1>6
  <2>2. u.root = t.root /\ u.left = t.left /\ u.right = t.right
        /\ u.info = [t.info EXCEPT ![i] = Fields(t.info[i], k)]
    BY <1>3
  <2> HIDE DEF u
  <2>3. N \cup {i} = N
    BY <1>6
  <2>4. IsChain(u, N)
    BY <1>0, <2>2 DEF IsChain
  <2>5. QED
    BY <1>0, <1>3, <2>1, <2>2, <2>3, <2>4 DEF i
<1>7. CASE i \notin N
  <2> DEFINE v == InsertRoot(t, i)
             u == [v EXCEPT !.info[i] = Fields(NoInfo, k)]
  <2>1. \A j \in N : j < i
    <3>1. \A j \in N : j \in Nat /\ j # i
      BY <1>0, <1>7 DEF Ids
    <3>2. QED
      BY <1>0, <1>4, <3>1
  <2>2. v \in RBRoot /\ v.info = t.info /\ IsChain(v, N \cup {i})
    BY <1>0, <2>1, InsertRootIs
  <2>3. Put(t, k) = u
    BY <1>0, <1>1, <1>2, <1>7
  <2>4. v = [root |-> v.root, left |-> v.left, right |-> v.right, info |-> t.info]
    BY <2>2 DEF RBRoot
  <2> HIDE DEF v
  <2>5. u.root = v.root /\ u.left = v.left /\ u.right = v.right
        /\ u.info = [t.info EXCEPT ![i] = Fields(NoInfo, k)]
    BY <1>3, <2>4
  <2> HIDE DEF u
  <2>6. IsChain(u, N \cup {i})
    BY <2>2, <2>5 DEF IsChain
  <2>7. u.info = [t.info EXCEPT ![i] = Fields(t.info[i], k)]
    BY <1>5, <1>7, <2>5
  <2>8. QED
    BY <1>0, <1>3, <2>3, <2>6, <2>7 DEF i
<1>8. QED
  BY <1>6, <1>7

(* What a batch says of the root j: its items in the tree.                 *)
HasRef(j, items) == \E p \in Ids : KeyOf(j, p) \in items
Absorb(info, j, items) ==
  [info EXCEPT !.origin = IF KeyOf(j, 0) \in items THEN fs[j].origin ELSE @,
               !.ref = IF HasRef(j, items) THEN fs[j].dir.in ELSE @,
               !.dir = IF HasRef(j, items) THEN fs[j].dir ELSE @,
               !.name = IF HasRef(j, items) THEN fs[j].name ELSE @]
IdsOf(items) == {IdOf(k) : k \in items}
ItemsOf(items) == items \subseteq Keys /\ \A k \in items : IsItem(k)
UpToKey(items, k) == {m \in items : m <= k}

(* The keys there are.                                                     *)
LEMMA LastKeyIs == KeyOf(MaxRoots, MaxRoots) \in Nat /\ Keys = 1 .. KeyOf(MaxRoots, MaxRoots)
<1>1. MaxRoots \in Nat /\ MaxRoots \in Node
  BY TreeAssumption DEF Node
<1>2. QED
  BY <1>1, KeyIs DEF Keys

(* One more item: the root of the last one has it too.                     *)
AbsorbsOne(info, a, k) ==
  \A j \in Ids : Absorb(info[j], j, a \cup {k}) =
     IF j = IdOf(k) THEN Fields(Absorb(info[j], j, a), k) ELSE Absorb(info[j], j, a)
(* One more item of a batch: its fields are copied, the others stay.       *)
LEMMA AbsorbOne ==
  ASSUME NEW items, ItemsOf(items), NEW a, a \subseteq items, NEW k, k \in items, k \notin a,
         fs \in [Ids -> Root], NEW info, info \in [Ids -> RootInfo]
  PROVE  AbsorbsOne(info, a, k)
<1> DEFINE i == IdOf(k)
           p == ParentOf(k)
           b == a \cup {k}
<1>1. k \in Nat /\ i \in Ids /\ i \in Nat /\ p \in Node /\ k = KeyOf(i, p)
  <2>1. k \in Nat /\ i \in Ids
    BY LastKeyIs DEF ItemsOf, IsItem
  <2>2. QED
    BY <2>1, KeyOnto
<1>2. p # 0 => fs[i].dir.in = p /\ p \in Ids
  BY <1>1 DEF ItemsOf, IsItem, Node, Ids
<1>3. \A j \in Ids : \A q \in Node : KeyOf(j, q) = k <=> j = i /\ q = p
  <2>1. ASSUME NEW j \in Ids, NEW q \in Node PROVE KeyOf(j, q) = k <=> j = i /\ q = p
    <3>1. j \in Nat
      BY DEF Ids
    <3>2. IdOf(KeyOf(j, q)) = j /\ ParentOf(KeyOf(j, q)) = q
      BY <3>1, KeyIs
    <3>3. QED
      BY <1>1, <3>2, Zenon
  <2>2. QED
    BY <2>1
<1>4. Ids \subseteq Node /\ 0 \in Node /\ 0 \notin Ids
  BY TreeAssumption DEF Ids, Node
<1>5. \A j \in Ids : KeyOf(j, 0) \in b <=> KeyOf(j, 0) \in a \/ (j = i /\ p = 0)
  BY <1>3, <1>4
<1>6. \A j \in Ids : HasRef(j, b) <=> HasRef(j, a) \/ (j = i /\ p # 0)
  BY <1>2, <1>3, <1>4 DEF HasRef
<1>7. \A j \in Ids : info[j] \in RootInfo
  OBVIOUS
<1>8. ASSUME NEW j \in Ids, j # i PROVE Absorb(info[j], j, b) = Absorb(info[j], j, a)
  BY <1>5, <1>6, <1>8 DEF Absorb
<1>9. Absorb(info[i], i, b) = Fields(Absorb(info[i], i, a), k)
  <2>1. CASE p = 0
    <3>1. HasRef(i, b) <=> HasRef(i, a)
      BY <1>1, <1>6, <2>1
    <3>2. KeyOf(i, 0) \in b
      BY <1>1, <2>1
    <3>3. Fields(Absorb(info[i], i, a), k) = [Absorb(info[i], i, a) EXCEPT !.origin = fs[i].origin]
      BY <2>1 DEF Fields
    <3> HIDE DEF b
    <3>4. QED
      BY <1>1, <1>7, <3>1, <3>2, <3>3 DEF Absorb, RootInfo
  <2>2. CASE p # 0
    <3>1. HasRef(i, b)
      BY <1>1, <1>6, <2>2
    <3>2. KeyOf(i, 0) \in b <=> KeyOf(i, 0) \in a
      BY <1>1, <1>5, <2>2
    <3>3. Fields(Absorb(info[i], i, a), k) =
            [Absorb(info[i], i, a) EXCEPT !.ref = fs[i].dir.in, !.dir = fs[i].dir, !.name = fs[i].name]
      BY <1>2, <2>2 DEF Fields
    <3> HIDE DEF b
    <3>4. QED
      BY <1>1, <1>7, <3>1, <3>2, <3>3 DEF Absorb, RootInfo
  <2>3. QED
    BY <2>1, <2>2
<1> HIDE DEF i, b
<1>10. \A j \in Ids : Absorb(info[j], j, b) =
          IF j = i THEN Fields(Absorb(info[j], j, a), k) ELSE Absorb(info[j], j, a)
  BY <1>8, <1>9
<1>11. QED
  BY <1>10 DEF AbsorbsOne, i, b

(* PutAll: a batch that comes after what is in the tree. *)
LEMMA PutAllIs ==
  ASSUME NEW t \in RBRoot, NEW N, IsChain(t, N), NEW items, ItemsOf(items),
         fs \in [Ids -> Root], \A j \in N : \A k \in items : j <= IdOf(k),
         \A j \in Ids \ N : t.info[j] = NoInfo
  PROVE  /\ PutAll(t, items) \in RBRoot
         /\ IsChain(PutAll(t, items), N \cup IdsOf(items))
         /\ PutAll(t, items).info = [j \in Ids |-> Absorb(t.info[j], j, items)]
<1> DEFINE K == KeyOf(MaxRoots, MaxRoots)
           put(n) == [x \in RBRoot |-> IF n \in items THEN Put(x, n) ELSE x]
           Up(f) == [k \in 0 .. K |-> IF k = 0 THEN t ELSE put(k)[f[k - 1]]]
           upTo == CHOOSE f : f = Up(f)
<1>1. PutAll(t, items) = upTo[K]
  BY DEF PutAll
<1>2. K \in Nat /\ Keys = 1 .. K /\ items \subseteq 1 .. K
  BY LastKeyIs DEF ItemsOf
<1>3. \A k \in items : k \in Nat /\ 0 < k /\ k <= K /\ IdOf(k) \in Ids
  BY <1>2 DEF ItemsOf, IsItem
<1> HIDE DEF K
<1>4. \A n \in 1 .. K : put(n) \in [RBRoot -> RBRoot]
  <2>1. \A n \in items : \A x \in RBRoot : Put(x, n) \in RBRoot
    BY <1>3, PutType
  <2>2. QED
    BY <2>1
<1>5. upTo = Up(upTo)
  <2> DEFINE next == [n \in 1 .. K |-> put(n)]
  <2>1. Steps(next, K, RBRoot) /\ K \in Nat
    BY <1>2, <1>4 DEF Steps
  <2>2. \A n \in 1 .. K : next[n] = put(n)
    OBVIOUS
  <2> HIDE DEF next, put
  <2>0. PICK f : Iterates(f, K, RBRoot, t, next)
    BY <2>1, RecursionUp, Zenon
  <2>3. f \in [0 .. K -> RBRoot] /\ f[0] = t /\ \A n \in 1 .. K : f[n] = next[n][f[n - 1]]
    BY <2>0 DEF Iterates
  <2>4. \A n \in 0 .. K : n = 0 \/ n \in 1 .. K
    BY <1>2
  <2>5. f = Up(f)
    BY <2>2, <2>3, <2>4
  <2> HIDE DEF Up
  <2>6. QED
    BY <2>5
<1> DEFINE Good(u, k) == /\ u \in RBRoot
                         /\ IsChain(u, N \cup IdsOf(UpToKey(items, k)))
                         /\ u.info = [j \in Ids |-> Absorb(t.info[j], j, UpToKey(items, k))]
           P == {k \in 0 .. K : Good(upTo[k], k)}
<1>6. upTo[0] = t
  <2>1. 0 \in 0 .. K
    BY <1>2
  <2> HIDE DEF upTo, put
  <2>2. QED
    BY <1>5, <2>1
<1>7. \A k \in 1 .. K : upTo[k] = put(k)[upTo[k - 1]]
  <2>1. \A k \in 1 .. K : k \in 0 .. K /\ k # 0
    OBVIOUS
  <2> HIDE DEF upTo, put
  <2>2. QED
    BY <1>5, <2>1
<1> HIDE DEF upTo, Up
<1>8. t.info \in [Ids -> RootInfo]
  BY DEF RBRoot
<1>9. 0 \in P
  <2>1. UpToKey(items, 0) = {}
    BY <1>3 DEF UpToKey
  <2>2. IdsOf({}) = {} /\ N \cup {} = N
    BY DEF IdsOf
  <2>3. \A j \in Ids : Absorb(t.info[j], j, {}) = t.info[j]
    BY <1>8 DEF Absorb, HasRef, RootInfo
  <2>4. t.info = [j \in Ids |-> Absorb(t.info[j], j, {})]
    BY <1>8, <2>3
  <2>5. Good(t, 0)
    BY <2>1, <2>2, <2>4
  <2> HIDE DEF Good
  <2>6. QED
    BY <1>2, <1>6, <2>5
<1>10. ASSUME NEW k \in P, k < K PROVE k + 1 \in P
  <2> DEFINE n == k + 1
             u == upTo[k]
             a == UpToKey(items, k)
             b == UpToKey(items, n)
  <2>1. n \in 1 .. K /\ n \in 0 .. K /\ n \in Nat /\ n - 1 = k /\ k \in Nat
    BY <1>2, <1>10
  <2>2. Good(u, k)
    OBVIOUS
  <2>3. upTo[n] = IF n \in items THEN Put(u, n) ELSE u
    <3>1. u \in RBRoot
      BY <2>2
    <3>2. upTo[n] = put(n)[u]
      BY <1>7, <2>1
    <3>3. QED
      BY <3>1, <3>2
  <2> HIDE DEF u
  <2>4. CASE n \notin items
    <3>1. a = b
      BY <1>3, <2>1, <2>4 DEF UpToKey
    <3>2. Good(u, n)
      BY <2>2, <3>1
    <3> HIDE DEF Good
    <3>3. QED
      BY <2>1, <2>3, <2>4, <3>2
  <2>5. CASE n \in items
    <3>1. b = a \cup {n} /\ n \notin a /\ a \subseteq items
      <4>1. \A m \in items : m <= n <=> m <= k \/ m = n
        BY <1>3, <2>1
      <4>2. ~(n <= k)
        BY <2>1
      <4>3. QED
        BY <2>5, <4>1, <4>2 DEF UpToKey
    <3>2. IdsOf(b) = IdsOf(a) \cup {IdOf(n)}
      BY <3>1 DEF IdsOf
    <3> DEFINE M == N \cup IdsOf(a)
               info == t.info
    <3>3. u \in RBRoot /\ IsChain(u, M) /\ u.info = [j \in Ids |-> Absorb(info[j], j, a)]
      BY <2>2
    <3>4. \A j \in M : j <= IdOf(n)
      <4>1. ASSUME NEW m \in a PROVE IdOf(m) <= IdOf(n)
        <5>1. m \in Nat /\ m <= n /\ IdOf(m) \in Nat /\ IdOf(n) \in Nat
          BY <1>3, <2>1, <2>5, <3>1, <4>1 DEF UpToKey, Ids
        <5>2. ~(n < m)
          BY <2>1, <5>1
        <5>3. n < m <=> \/ IdOf(n) < IdOf(m)
                        \/ IdOf(n) = IdOf(m) /\ ParentOf(n) < ParentOf(m)
          <6>1. /\ ParentOf(n) \in Node /\ n = KeyOf(IdOf(n), ParentOf(n))
                /\ ParentOf(m) \in Node /\ m = KeyOf(IdOf(m), ParentOf(m))
            BY <2>1, <5>1, KeyOnto
          <6>2. QED
            BY <5>1, <6>1, KeyOrder
        <5>4. QED
          BY <5>1, <5>2, <5>3
      <4>2. QED
        BY <2>5, <4>1 DEF IdsOf
    <3>5. \A j \in Ids \ M : u.info[j] = NoInfo
      <4> SUFFICES ASSUME NEW j \in Ids \ M PROVE u.info[j] = NoInfo
        OBVIOUS
      <4>1. info[j] = NoInfo /\ NoInfo \in RootInfo
        BY NoInfoType
      <4>2. \A p \in Node : KeyOf(j, p) \notin a
        <5>1. j \in Nat
          BY DEF Ids
        <5>2. \A m \in a : IdOf(m) # j
          BY DEF IdsOf
        <5>3. QED
          BY <5>1, <5>2, KeyIs
      <4>3. KeyOf(j, 0) \notin a /\ ~HasRef(j, a)
        BY <4>2, TreeAssumption DEF HasRef, Node, Ids
      <4>4. Absorb(info[j], j, a) = info[j]
        BY <4>1, <4>3 DEF Absorb, RootInfo
      <4> HIDE DEF info
      <4>5. QED
        BY <3>3, <4>1, <4>4
    <3>6. IdOf(n) \in Ids
      BY <1>3, <2>5
    <3>7. Put(u, n) \in RBRoot
      BY <2>1, <3>3, <3>6, PutType
    <3> HIDE DEF M, info
    <3>8. /\ IsChain(Put(u, n), M \cup {IdOf(n)})
          /\ Put(u, n).info = [u.info EXCEPT ![IdOf(n)] = Fields(@, n)]
      BY <2>1, <3>3, <3>4, <3>5, <3>6, PutIs
    <3>9. AbsorbsOne(info, a, n)
      <4>1. a \subseteq items /\ n \in items /\ n \notin a /\ info \in [Ids -> RootInfo]
        BY <1>8, <2>5, <3>1 DEF info
      <4> HIDE DEF a, n
      <4>2. QED
        BY <4>1, AbsorbOne, Zenon
    <3>10. Put(u, n).info = [j \in Ids |-> Absorb(info[j], j, b)]
      BY <3>1, <3>3, <3>6, <3>8, <3>9 DEF AbsorbsOne
    <3>11. M \cup {IdOf(n)} = N \cup IdsOf(b)
      BY <3>2 DEF M
    <3>12. Good(Put(u, n), n)
      BY <3>7, <3>8, <3>10, <3>11 DEF info
    <3> HIDE DEF Good
    <3>13. QED
      BY <2>1, <2>3, <2>5, <3>12
  <2>6. QED
    BY <2>4, <2>5
<1>11. Good(upTo[K], K)
  <2>1. P \subseteq 0 .. K
    OBVIOUS
  <2> HIDE DEF P
  <2>2. P = 0 .. K
    BY <1>2, <1>9, <1>10, <2>1, UpTo
  <2> HIDE DEF Good
  <2>3. QED
    BY <1>2, <2>2 DEF P
<1>12. UpToKey(items, K) = items
  BY <1>3 DEF UpToKey
<1>13. QED
  BY <1>1, <1>11, <1>12

(* One search returns the first items from a key on, and at least one.     *)
LEMMA FoundIs ==
  ASSUME NEW from \in Nat
  PROVE  /\ ItemsOf(Found(from))
         /\ \A k \in Found(from) : from <= k
         /\ \A k \in Keys : IsItem(k) /\ from <= k /\ (\E j \in Found(from) : k <= j) => k \in Found(from)
         /\ Found(from) = {} => \A k \in Keys : from <= k => ~IsItem(k)
<1> DEFINE I == Items(from)
           Before(k) == {j \in I : j < k}
<1>1. I \subseteq Keys /\ \A k \in Keys : k \in I <=> from <= k /\ IsItem(k)
  <2>1. \A k \in Keys : k \in Nat
    BY LastKeyIs
  <2>2. QED
    BY <2>1 DEF Items
<1>2. IsFiniteSet(I) /\ I \subseteq Nat
  <2>1. IsFiniteSet(Keys) /\ Keys \subseteq Nat
    BY LastKeyIs, FS_Interval
  <2>2. QED
    BY <1>1, <2>1, FS_Subset
<1>3. Found(from) = {k \in I : Cardinality(Before(k)) < Batch}
  BY DEF Found
<1> HIDE DEF I
<1>4. \A k \in I : IsFiniteSet(Before(k)) /\ Cardinality(Before(k)) \in Nat
  <2>1. ASSUME NEW k \in I PROVE IsFiniteSet(Before(k)) /\ Cardinality(Before(k)) \in Nat
    <3>1. Before(k) \subseteq I
      OBVIOUS
    <3> HIDE DEF Before
    <3>2. IsFiniteSet(Before(k))
      BY <1>2, <3>1, FS_Subset
    <3>3. QED
      BY <3>2, FS_CardinalityType
  <2>2. QED
    BY <2>1
<1>5. ASSUME NEW k \in I, NEW j \in Found(from), k <= j PROVE k \in Found(from)
  <2>1. j \in I /\ Cardinality(Before(j)) < Batch
    BY <1>3
  <2>2. Before(k) \subseteq Before(j)
    <3>1. \A x \in I : x \in Nat
      BY <1>2
    <3>2. \A x \in I : x < k => x < j
      BY <1>5, <2>1, <3>1
    <3>3. QED
      BY <3>2
  <2>3. Cardinality(Before(k)) <= Cardinality(Before(j))
    <3> HIDE DEF Before
    <3>1. QED
      BY <1>4, <2>1, <2>2, FS_Subset
  <2>4. Cardinality(Before(k)) < Batch
    <3> HIDE DEF Before
    <3>1. QED
      BY <1>4, <2>1, <2>3, TreeAssumption
  <2>5. QED
    BY <1>3, <2>4
<1>6. ASSUME I # {} PROVE Found(from) # {}
  <2>1. PICK m \in I : \A k \in I : m <= k
    BY <1>2, <1>6, LeastIs
  <2>2. Before(m) = {}
    <3>1. \A x \in I : x \in Nat
      BY <1>2
    <3>2. \A x \in I : ~(x < m)
      BY <2>1, <3>1
    <3>3. QED
      BY <3>2
  <2>3. Cardinality(Before(m)) < Batch
    BY <2>2, FS_EmptySet, TreeAssumption
  <2>4. QED
    BY <1>3, <2>3
<1>7. Found(from) \subseteq I
  BY <1>3
<1> HIDE DEF Before
<1>8. QED
  BY <1>1, <1>5, <1>6, <1>7 DEF ItemsOf

(* A climb is made step by step. *)
Stage == [at : Node, names : Seq(STRING)]
Graph(known, parent, name) ==
  known \subseteq Ids /\ parent \in [Ids -> Node] /\ name \in [Ids -> STRING]
StepUp(m, known, parent, name) ==
  IF m.at \in known THEN [at |-> parent[m.at], names |-> <<name[m.at]>> \o m.names] ELSE m
Climbs(f, n, known, parent, name) ==
  /\ f \in [Node -> Stage] /\ f[0] = [at |-> n, names |-> <<>>]
  /\ \A k \in Ids : f[k] = StepUp(f[k - 1], known, parent, name)

(* A climb is its last step.                                               *)
LEMMA ClimbIs ==
  ASSUME NEW n, n \in Node, NEW known, NEW parent, NEW name, Graph(known, parent, name)
  PROVE  \E f : Climbs(f, n, known, parent, name) /\ Climb(n, known, parent, name) = f[MaxRoots]
<1> DEFINE first == [at |-> n, names |-> <<>>]
           Step(f) == [k \in Node |-> IF k = 0 THEN first
                                      ELSE LET m == f[k - 1]
                                           IN IF m.at \in known
                                                THEN [at |-> parent[m.at], names |-> <<name[m.at]>> \o m.names]
                                                ELSE m]
           step == CHOOSE f : f = Step(f)
           next == [k \in 1 .. MaxRoots |-> [m \in Stage |-> StepUp(m, known, parent, name)]]
<1>1. Climb(n, known, parent, name) = step[MaxRoots]
  BY DEF Climb
<1>2. MaxRoots \in Nat /\ Node = 0 .. MaxRoots /\ Ids = 1 .. MaxRoots
  BY TreeAssumption DEF Node, Ids
<1>3. Steps(next, MaxRoots, Stage)
  <2>1. ASSUME NEW m \in Stage PROVE StepUp(m, known, parent, name) \in Stage
    <3>1. CASE m.at \in known
      <4>1. parent[m.at] \in Node /\ name[m.at] \in STRING /\ m.names \in Seq(STRING)
        BY <3>1 DEF Graph, Stage
      <4>2. <<name[m.at]>> \o m.names \in Seq(STRING)
        BY <4>1
      <4>3. QED
        BY <3>1, <4>1, <4>2 DEF StepUp, Stage
    <3>2. CASE m.at \notin known
      BY <3>2 DEF StepUp
    <3>3. QED
      BY <3>1, <3>2
  <2>2. QED
    BY <2>1 DEF Steps
<1>4. first \in Stage
  BY DEF Stage
<1> HIDE DEF next, first
<1>5. PICK f : Iterates(f, MaxRoots, Stage, first, next)
  BY <1>2, <1>3, <1>4, RecursionUp, Zenon
<1>6. f \in [Node -> Stage] /\ f[0] = first /\ \A k \in Ids : f[k] = next[k][f[k - 1]]
  BY <1>2, <1>5 DEF Iterates
<1>7. \A k \in Ids : k - 1 \in Node /\ k # 0 /\ k \in Node
  BY <1>2
<1>8. \A k \in Ids : f[k] = StepUp(f[k - 1], known, parent, name)
  <2>1. ASSUME NEW k \in Ids PROVE f[k] = StepUp(f[k - 1], known, parent, name)
    <3>1. f[k - 1] \in Stage
      BY <1>6, <1>7
    <3>2. \A m \in Stage : next[k][m] = StepUp(m, known, parent, name)
      BY <1>2 DEF next
    <3>3. QED
      BY <1>6, <3>1, <3>2
  <2>2. QED
    BY <2>1
<1>9. f = Step(f)
  <2>1. ASSUME NEW k \in Node PROVE f[k] = Step(f)[k]
    <3>1. k = 0 \/ k \in Ids
      BY <1>2
    <3>2. CASE k = 0
      BY <1>6, <3>2
    <3>3. CASE k \in Ids
      BY <1>7, <1>8, <3>3 DEF StepUp
    <3>4. QED
      BY <3>1, <3>2, <3>3
  <2>2. Step(f) = [k \in Node |-> Step(f)[k]]
    OBVIOUS
  <2> HIDE DEF Step
  <2>3. f = [k \in Node |-> f[k]]
    BY <1>6
  <2>4. QED
    BY <2>1, <2>2, <2>3
<1>10. step = Step(step)
  <2> HIDE DEF Step
  <2>1. QED
    BY <1>9
<1> HIDE DEF step
<1>11. \A k \in Node : step[k] = IF k = 0 THEN first ELSE StepUp(step[k - 1], known, parent, name)
  BY <1>10 DEF StepUp
<1> HIDE DEF Step
<1>12. step[0] = first /\ \A k \in Ids : step[k] = StepUp(step[k - 1], known, parent, name)
  BY <1>2, <1>7, <1>11
<1>13. step[MaxRoots] = f[MaxRoots]
  <2> DEFINE P == {k \in Node : step[k] = f[k]}
  <2>1. P \in SUBSET (0 .. MaxRoots) /\ 0 \in P
    BY <1>2, <1>6, <1>12
  <2>2. ASSUME NEW k \in P, k < MaxRoots PROVE k + 1 \in P
    <3>1. k + 1 \in Ids /\ k + 1 \in Node /\ (k + 1) - 1 = k
      BY <1>2, <2>2
    <3>2. step[k + 1] = StepUp(step[k], known, parent, name) /\ f[k + 1] = StepUp(f[k], known, parent, name)
      BY <1>8, <1>12, <3>1
    <3>3. QED
      BY <3>1, <3>2
  <2>3. MaxRoots \in P
    <3> HIDE DEF P
    <3>1. P = 0 .. MaxRoots
      BY <1>2, <2>1, <2>2, UpTo
    <3>2. QED
      BY <1>2, <3>1
  <2>4. QED
    BY <2>3
<1>14. QED
  BY <1>1, <1>6, <1>8, <1>13 DEF Climbs, first

(* A climb ends at a subvolume, or at none, with names.                    *)
LEMMA ClimbType ==
  ASSUME NEW n, n \in Node, NEW known, NEW parent, NEW name, Graph(known, parent, name)
  PROVE  Climb(n, known, parent, name) \in Stage
<1>1. PICK f : Climbs(f, n, known, parent, name) /\ Climb(n, known, parent, name) = f[MaxRoots]
  BY ClimbIs, Zenon
<1>2. MaxRoots \in Node
  BY TreeAssumption DEF Node
<1>3. QED
  BY <1>1, <1>2 DEF Climbs

(* Two climbs that have the same parents and names to go by, as far as     *)
(* they come, are the same.                                                *)
Agree(A, known, parent, name, known2, parent2, name2) ==
  \A m \in A : /\ m \in known <=> m \in known2
               /\ m \in known => parent[m] \in A /\ parent[m] = parent2[m] /\ name[m] = name2[m]
Alike(n, A, known, parent, name, known2, parent2, name2) ==
  /\ n \in Node /\ n \in A
  /\ Graph(known, parent, name) /\ Graph(known2, parent2, name2)
  /\ Agree(A, known, parent, name, known2, parent2, name2)
SameClimb(n, known, parent, name, known2, parent2, name2) ==
  Climb(n, known, parent, name) = Climb(n, known2, parent2, name2)
(* Two climbs that agree on a set they do not leave are the same.          *)
LEMMA ClimbSame ==
  ASSUME NEW n, NEW A, NEW known, NEW parent, NEW name, NEW known2, NEW parent2, NEW name2,
         Alike(n, A, known, parent, name, known2, parent2, name2)
  PROVE  SameClimb(n, known, parent, name, known2, parent2, name2)
<1>0. /\ n \in Node /\ n \in A
      /\ Graph(known, parent, name) /\ Graph(known2, parent2, name2)
      /\ Agree(A, known, parent, name, known2, parent2, name2)
  BY DEF Alike
<1>1. PICK f : Climbs(f, n, known, parent, name) /\ Climb(n, known, parent, name) = f[MaxRoots]
  BY <1>0, ClimbIs, Zenon
<1>2. PICK g : Climbs(g, n, known2, parent2, name2) /\ Climb(n, known2, parent2, name2) = g[MaxRoots]
  BY <1>0, ClimbIs, Zenon
<1>3. MaxRoots \in Nat /\ Node = 0 .. MaxRoots /\ Ids = 1 .. MaxRoots
  BY TreeAssumption DEF Node, Ids
<1> DEFINE P == {k \in Node : f[k] = g[k] /\ f[k].at \in A}
<1>4. P \in SUBSET (0 .. MaxRoots) /\ 0 \in P
  BY <1>0, <1>1, <1>2, <1>3 DEF Climbs
<1>5. ASSUME NEW k \in P, k < MaxRoots PROVE k + 1 \in P
  <2>1. k + 1 \in Ids /\ k + 1 \in Node /\ (k + 1) - 1 = k
    BY <1>3, <1>5
  <2>2. f[k + 1] = StepUp(f[k], known, parent, name) /\ g[k + 1] = StepUp(g[k], known2, parent2, name2)
    BY <1>1, <1>2, <2>1 DEF Climbs
  <2>3. f[k] = g[k] /\ f[k].at \in A
    OBVIOUS
  <2>4. CASE f[k].at \in known
    <3> DEFINE m == f[k].at
    <3>1. m \in known2 /\ parent[m] \in A /\ parent[m] = parent2[m] /\ name[m] = name2[m]
      BY <1>0, <2>3, <2>4 DEF Agree
    <3>2. f[k + 1] = [at |-> parent[m], names |-> <<name[m]>> \o f[k].names]
      BY <2>2, <2>4 DEF StepUp
    <3>3. g[k + 1] = [at |-> parent2[m], names |-> <<name2[m]>> \o g[k].names]
      BY <2>2, <2>3, <3>1 DEF StepUp
    <3> HIDE DEF m
    <3>4. QED
      BY <2>1, <2>3, <3>1, <3>2, <3>3
  <2>5. CASE f[k].at \notin known
    BY <1>0, <2>1, <2>2, <2>3, <2>5 DEF StepUp, Agree
  <2>6. QED
    BY <2>4, <2>5
<1>6. MaxRoots \in P
  <2> HIDE DEF P
  <2>1. P = 0 .. MaxRoots
    BY <1>3, <1>4, <1>5, UpTo
  <2>2. QED
    BY <1>3, <2>1
<1>7. QED
  BY <1>1, <1>2, <1>6 DEF SameClimb

(* What is known of a chain, and what is above a subvolume in it. *)
LEMMA KnownIs ==
  ASSUME NEW t \in RBRoot, NEW N, IsChain(t, N)
  PROVE  /\ Known(t) = {n \in N \ {Top, site.mount} : t.info[n].ref # 0}
         /\ Graph(Known(t), [i \in Ids |-> t.info[i].ref], [i \in Ids |-> t.info[i].name])
<1>1. \A n \in Ids : LookupRoot(t, n) # 0 <=> n \in N
  <2>1. \A n \in Ids : n \in Node /\ n # 0
    BY DEF Ids, Node
  <2>2. QED
    BY <2>1, LookupRootIs
<1>2. N \subseteq Ids
  BY DEF IsChain
<1>3. t.info \in [Ids -> RootInfo]
  BY DEF RBRoot
<1>4. \A n \in Ids : t.info[n].ref \in Node /\ t.info[n].name \in STRING
  BY <1>3 DEF RootInfo
<1>5. Known(t) = {n \in N \ {Top, site.mount} : t.info[n].ref # 0}
  BY <1>1, <1>2 DEF Known
<1>6. QED
  BY <1>2, <1>4, <1>5 DEF Graph

(* A path is of names.                                                     *)
LEMMA AboveType ==
  ASSUME NEW t \in RBRoot, NEW N, IsChain(t, N), NEW n \in Node
  PROVE  Above(t, n) \in Seq(STRING)
<1>1. Graph(Known(t), [i \in Ids |-> t.info[i].ref], [i \in Ids |-> t.info[i].name])
  BY KnownIs
<1>2. FollowRefTree(t, n) \in Stage
  BY <1>1, ClimbType, Zenon DEF FollowRefTree
<1>3. QED
  BY <1>2 DEF Above, Stage

(* What holds a linked subvolume is linked, up to the top. *)
LEMMA AboveIs ==
  ASSUME fs \in [Ids -> Root], Hierarchy, NEW n \in Ids, Linked(n)
  PROVE  /\ IsAbove(n, n)
         /\ \A j \in Ids : IsAbove(j, n) =>
              Linked(j) /\ (j # Top => fs[j].dir.in \in Ids /\ IsAbove(fs[j].dir.in, n))
<1>1. IsAbove(n, n)
  BY DEF IsAbove
<1> DEFINE L == {j \in Ids : Linked(j)}
<1>2. L \in SUBSET Ids /\ n \in L /\ \A j \in L \ {Top} : fs[j].dir.in \in L
  BY DEF Hierarchy
<1>3. \A j \in Ids : IsAbove(j, n) => j \in L
  <2> HIDE DEF L
  <2>1. QED
    BY <1>2 DEF IsAbove
<1>4. ASSUME NEW j \in Ids \ {Top}, IsAbove(j, n) PROVE IsAbove(fs[j].dir.in, n)
  BY <1>4 DEF IsAbove
<1>5. QED
  BY <1>1, <1>2, <1>3, <1>4

(* What is above the subvolume looked up stays in place as long as it is   *)
(* there itself.                                                           *)
LEMMA HolderStays ==
  ASSUME fs \in [Ids -> Root], Hierarchy, NEW n \in Ids, Linked(n), NEW i \in Ids, i # n,
         i # Top, Within(i) = {}
  PROVE  ~IsAbove(i, n)
<1> DEFINE A == {j \in Ids : IsAbove(j, n) /\ j # i}
<1>1. n \in A
  BY AboveIs
<1>2. \A j \in A \ {Top} : fs[j].dir.in \in A
  <2>1. \A j \in A \ {Top} : Linked(j) /\ fs[j].dir.in \in Ids /\ IsAbove(fs[j].dir.in, n)
    BY AboveIs
  <2>2. \A j \in A \ {Top} : fs[j].dir.in # i
    BY <2>1 DEF Within
  <2>3. QED
    BY <2>1, <2>2
<1>3. A \in SUBSET Ids /\ i \notin A
  OBVIOUS
<1> HIDE DEF A
<1>4. QED
  BY <1>1, <1>2, <1>3 DEF IsAbove

(* A step of the others changes one root at most.                          *)
Changes(i) ==
  /\ \A j \in Ids \ {i} : fs'[j] = fs[j]
  /\ fs[i].state # "free" => fs'[i].origin = fs[i].origin /\ fs'[i].state # "free"
  /\ fs[i].state # "free" /\ ~Linked(i) => fs'[i].state # "linked"
  /\ Linked(Vol) /\ fs'[Vol].state = "linked" /\ i # Top /\ IsAbove(i, Vol) => fs'[i] = fs[i]
Traced ==
  /\ changes' \in 0 .. MaxChanges
  /\ stable' = IF Looking THEN stable \cap There(fs') ELSE stable
  /\ seen' = IF Looking THEN seen \cup {[g EXCEPT ![i] = PlaceOf(fs', i)] : g \in seen, i \in Ids}
             ELSE seen
  /\ UNCHANGED <<site, lpc, tries, key, tree, unresolved, list>>
Disturbed ==
  /\ fs' \in [Ids -> Root] /\ dirs' \subseteq Dir
  /\ \E i \in Ids : Changes(i)
  /\ Traced

(* The ids there are.                                                      *)
LEMMA IdsType == 0 \in Node /\ Top \in Ids /\ Vol \in Ids /\ Ids \subseteq Node /\ 0 \notin Ids /\ Ids \subseteq Nat
BY TreeAssumption DEF Top, Vol, Ids, Node

(* A change of the filesystem leaves its trace in the history.             *)
LEMMA ChangeIs ==
  ASSUME TreeTypeOK, NEW f, Change(f), f \in [Ids -> Root]
  PROVE  fs' = f /\ Traced
BY TreeAssumption DEF TreeTypeOK, Change, Traced

(* A new subvolume or snapshot is one change, and is in a directory there  *)
(* is.                                                                     *)
LEMMA NewSubvolumeIs ==
  ASSUME TreeTypeOK, Hierarchy, NEW origin \in {0, Vol}, NEW d \in dirs, NEW name \in Managed,
         NewSubvolume(origin, d, name)
  PROVE  Disturbed /\ Hierarchy'
<1> DEFINE r == [state |-> "linked", origin |-> origin, dir |-> d, name |-> name]
<1>1. PICK i \in Free : Change([fs EXCEPT ![i] = r])
  BY DEF NewSubvolume
<1>2. i \in Ids /\ fs[i].state = "free" /\ fs \in [Ids -> Root] /\ dirs \subseteq Dir /\ d \in Dir
  BY <1>1 DEF Free, TreeTypeOK
<1>3. r \in Root
  BY <1>2, IdsType, NamesAssumption DEF Root
<1>4. [fs EXCEPT ![i] = r] \in [Ids -> Root]
  BY <1>2, <1>3
<1>5. fs' = [fs EXCEPT ![i] = r]
  BY <1>1, <1>4, ChangeIs
<1>6. HasDir(d) /\ dirs' = dirs
  BY DEF NewSubvolume
<1>7. Linked(Vol) => ~IsAbove(i, Vol)
  BY <1>2, AboveIs, IdsType DEF Linked
<1>8. Changes(i)
  BY <1>2, <1>5, <1>7 DEF Changes
<1>9. Disturbed
  BY <1>1, <1>2, <1>4, <1>6, <1>8, ChangeIs DEF Disturbed
<1> HIDE DEF r
<1>10. Hierarchy'
  <2>1. r.state = "linked" /\ r.dir = d
    BY DEF r
  <2>2. \A j \in Ids : fs'[j] = IF j = i THEN r ELSE fs[j]
    BY <1>2, <1>5
  <2>3. fs[d.in].state = "linked" /\ d.in \in Ids /\ d.in # i /\ Top # i
    BY <1>2, <1>6 DEF HasDir, Linked, Hierarchy
  <2>4. \A j \in Ids : fs[j].state = "linked" => fs'[j] = fs[j]
    BY <1>2, <2>2
  <2>5. fs'[Top].state = "linked"
    BY <2>4, IdsType DEF Hierarchy
  <2>6. ASSUME NEW j \in Ids \ {Top}, fs'[j].state = "linked"
        PROVE  fs'[j].dir \in dirs /\ fs'[fs'[j].dir.in].state = "linked"
    <3>1. CASE j = i
      BY <1>6, <2>1, <2>2, <2>3, <2>4, <3>1 DEF HasDir
    <3>2. CASE j # i
      BY <2>2, <2>4, <2>6, <3>2 DEF Hierarchy, Linked
    <3>3. QED
      BY <3>1, <3>2
  <2>7. QED
    BY <1>6, <2>5, <2>6 DEF Hierarchy, Linked
<1>11. QED
  BY <1>9, <1>10

(* Deleting a subvolume with none in it is one change.                     *)
LEMMA DeleteIs ==
  ASSUME TreeTypeOK, Hierarchy, NEW i \in Ids, Delete(i)
  PROVE  Disturbed /\ Hierarchy'
<1> DEFINE f == [fs EXCEPT ![i].state = "dying"]
<1>1. fs \in [Ids -> Root] /\ dirs \subseteq Dir
  BY DEF TreeTypeOK
<1>2. f \in [Ids -> Root]
  BY <1>1 DEF Root
<1>3. i # Top /\ fs[i].state = "linked" /\ Within(i) = {} /\ Change(f) /\ dirs' = dirs
  BY DEF Delete, Linked
<1>4. fs' = f /\ Traced
  <2> HIDE DEF f
  <2>1. QED
    BY <1>2, <1>3, ChangeIs, Zenon
<1>5. \A j \in Ids : j # i => fs'[j] = fs[j]
  BY <1>1, <1>4
<1>6. fs'[i].state = "dying" /\ fs'[i].origin = fs[i].origin
  BY <1>1, <1>4 DEF Root
<1>7. fs' \in [Ids -> Root]
  BY <1>2, <1>4
<1> HIDE DEF f
<1>8. ASSUME Linked(Vol), fs'[Vol].state = "linked" PROVE ~IsAbove(i, Vol)
  <2>1. i # Vol
    BY <1>6, <1>8
  <2>2. QED
    BY <1>1, <1>3, <1>8, <2>1, HolderStays, IdsType
<1>9. Changes(i)
  BY <1>3, <1>5, <1>6, <1>8 DEF Changes, Linked
<1>10. Disturbed
  BY <1>1, <1>3, <1>4, <1>7, <1>9 DEF Disturbed
<1>11. Hierarchy'
  <2>1. fs'[Top].state = "linked"
    BY <1>3, <1>5, IdsType DEF Hierarchy
  <2>2. ASSUME NEW j \in Ids \ {Top}, fs'[j].state = "linked"
        PROVE  fs'[j].dir \in dirs /\ fs'[fs'[j].dir.in].state = "linked"
    <3>1. j # i
      BY <1>6, <2>2
    <3>2. fs'[j] = fs[j] /\ fs[j].state = "linked"
      BY <1>5, <2>2, <3>1
    <3>3. fs[j].dir \in dirs /\ fs[j].dir.in \in Ids /\ fs[fs[j].dir.in].state = "linked"
      BY <3>2 DEF Hierarchy, Linked
    <3>4. fs[j].dir.in # i
      BY <1>3, <3>2 DEF Within, Linked
    <3>5. QED
      BY <1>5, <3>2, <3>3, <3>4
  <2>3. QED
    BY <1>3, <2>1, <2>2 DEF Hierarchy, Linked
<1>12. QED
  BY <1>10, <1>11

(* The cleaner makes one change, to what is linked nowhere.                *)
LEMMA CleanIs ==
  ASSUME TreeTypeOK, Hierarchy, NEW i \in Ids, Clean(i)
  PROVE  Disturbed /\ Hierarchy'
<1> DEFINE f == [fs EXCEPT ![i].state = "gone"]
<1>1. fs \in [Ids -> Root] /\ dirs \subseteq Dir
  BY DEF TreeTypeOK
<1>2. f \in [Ids -> Root]
  BY <1>1 DEF Root
<1>3. fs[i].state = "dying" /\ Change(f) /\ dirs' = dirs
  BY DEF Clean
<1>4. fs' = f /\ Traced
  <2> HIDE DEF f
  <2>1. QED
    BY <1>2, <1>3, ChangeIs, Zenon
<1>5. \A j \in Ids : j # i => fs'[j] = fs[j]
  BY <1>1, <1>4
<1>6. fs'[i].state = "gone" /\ fs'[i].origin = fs[i].origin
  BY <1>1, <1>4 DEF Root
<1>7. fs' \in [Ids -> Root]
  BY <1>2, <1>4
<1> HIDE DEF f
<1>8. Linked(Vol) => ~IsAbove(i, Vol)
  BY <1>1, <1>3, AboveIs, IdsType DEF Linked
<1>9. Changes(i)
  BY <1>3, <1>5, <1>6, <1>8 DEF Changes, Linked
<1>10. Disturbed
  BY <1>1, <1>3, <1>4, <1>7, <1>9 DEF Disturbed
<1>11. Hierarchy'
  <2>1. fs'[Top].state = "linked"
    BY <1>3, <1>5, IdsType DEF Hierarchy
  <2>2. ASSUME NEW j \in Ids \ {Top}, fs'[j].state = "linked"
        PROVE  fs'[j].dir \in dirs /\ fs'[fs'[j].dir.in].state = "linked"
    <3>1. j # i
      BY <1>6, <2>2
    <3>2. fs'[j] = fs[j] /\ fs[j].state = "linked"
      BY <1>5, <2>2, <3>1
    <3>3. fs[j].dir \in dirs /\ fs[j].dir.in \in Ids /\ fs[fs[j].dir.in].state = "linked"
      BY <3>2 DEF Hierarchy, Linked
    <3>4. fs[j].dir.in # i
      BY <1>3, <3>3
    <3>5. QED
      BY <1>5, <3>2, <3>3, <3>4
  <2>3. QED
    BY <1>3, <2>1, <2>2 DEF Hierarchy, Linked
<1>12. QED
  BY <1>10, <1>11

(* A move is one change, and leads no subvolume into itself.               *)
LEMMA MoveIs ==
  ASSUME TreeTypeOK, Hierarchy, NEW i \in Ids, NEW d \in dirs, NEW name \in Managed \cup OtherNames,
         Move(i, d, name)
  PROVE  Disturbed /\ Hierarchy'
<1> DEFINE f == [fs EXCEPT ![i].dir = d, ![i].name = name]
<1>1. fs \in [Ids -> Root] /\ dirs \subseteq Dir /\ d \in Dir /\ name \in STRING
  BY NamesAssumption DEF TreeTypeOK
<1>2. f \in [Ids -> Root]
  BY <1>1 DEF Root
<1>3. /\ i # Top /\ fs[i].state = "linked" /\ fs[d.in].state = "linked" /\ ~IsAbove(i, Vol)
      /\ Change(f) /\ dirs' = dirs
  BY DEF Move, Linked, HasDir
<1>4. fs' = f /\ Traced
  <2> HIDE DEF f
  <2>1. QED
    BY <1>2, <1>3, ChangeIs, Zenon
<1>5. \A j \in Ids : j # i => fs'[j] = fs[j]
  BY <1>1, <1>4
<1>6. fs'[i].state = "linked" /\ fs'[i].origin = fs[i].origin /\ fs'[i].dir = d
  BY <1>1, <1>3, <1>4 DEF Root
<1>7. fs' \in [Ids -> Root]
  BY <1>2, <1>4
<1> HIDE DEF f
<1>9. Changes(i)
  BY <1>3, <1>5, <1>6 DEF Changes, Linked
<1>10. Disturbed
  BY <1>1, <1>3, <1>4, <1>7, <1>9 DEF Disturbed
<1>11. Hierarchy'
  <2>0. \A j \in Ids : fs[j].state = "linked" => fs'[j].state = "linked"
    BY <1>5, <1>6
  <2>1. fs'[Top].state = "linked"
    BY <2>0, IdsType DEF Hierarchy
  <2>2. ASSUME NEW j \in Ids \ {Top}, fs'[j].state = "linked"
        PROVE  fs'[j].dir \in dirs /\ fs'[fs'[j].dir.in].state = "linked"
    <3>1. CASE j = i
      <4>1. d.in \in Ids
        BY DEF Hierarchy
      <4>2. QED
        BY <1>3, <1>6, <2>0, <3>1, <4>1
    <3>2. CASE j # i
      <4>1. fs'[j] = fs[j] /\ fs[j].state = "linked"
        BY <1>5, <2>2, <3>2
      <4>2. fs[j].dir \in dirs /\ fs[j].dir.in \in Ids /\ fs[fs[j].dir.in].state = "linked"
        BY <4>1 DEF Hierarchy, Linked
      <4>3. QED
        BY <2>0, <4>1, <4>2
    <3>3. QED
      BY <3>1, <3>2
  <2>3. QED
    BY <1>3, <2>1, <2>2 DEF Hierarchy, Linked
<1>12. QED
  BY <1>10, <1>11

(* A directory is removed when no subvolume is in it.                      *)
LEMMA RemoveDirIs ==
  ASSUME TreeTypeOK, Hierarchy, NEW d \in dirs, RemoveDir(d)
  PROVE  Disturbed /\ Hierarchy'
<1>1. fs \in [Ids -> Root] /\ dirs \subseteq Dir
  BY DEF TreeTypeOK
<1>2. /\ \A i \in Ids \ {Top} : Linked(i) => fs[i].dir # d
      /\ Change(fs) /\ dirs' = dirs \ {d}
  BY DEF RemoveDir
<1>3. fs' = fs /\ Traced
  BY <1>1, <1>2, ChangeIs, Zenon
<1>4. Changes(Top)
  BY <1>3 DEF Changes, Linked
<1>5. Disturbed
  BY <1>1, <1>2, <1>3, <1>4, IdsType DEF Disturbed
<1>6. Hierarchy'
  BY <1>2, <1>3 DEF Hierarchy, Linked
<1>7. QED
  BY <1>5, <1>6

(* So all that the others do is one change of a filesystem that stays one. *)
LEMMA OthersIs ==
  ASSUME TreeTypeOK, Hierarchy, Others
  PROVE  Disturbed /\ Hierarchy'
<1>1. CASE \E d \in dirs, name \in Managed, origin \in {0, Vol} : NewSubvolume(origin, d, name)
  BY <1>1, NewSubvolumeIs, Zenon
<1>2. CASE \E d \in dirs, name \in Managed \cup OtherNames, i \in Ids : Move(i, d, name)
  BY <1>2, MoveIs, Zenon
<1>3. CASE \E i \in Ids : Delete(i) \/ Clean(i)
  BY <1>3, DeleteIs, CleanIs, Zenon
<1>4. CASE \E d \in dirs : RemoveDir(d)
  BY <1>4, RemoveDirIs, Zenon
<1>5. QED
  BY <1>1, <1>2, <1>3, <1>4 DEF Others

(* Places are a directory and a name.                                      *)
LEMMA PlacesType ==
  ASSUME NEW f \in [Ids -> Root]
  PROVE  Places(f) \in [Ids -> Place] /\ \A i \in Ids : PlaceOf(f, i) \in Place
<1>1. NoPlace \in Place
  BY NoInfoType DEF NoPlace, Place, NoInfo, RootInfo
<1>2. \A i \in Ids : PlaceOf(f, i) \in Place
  BY <1>1 DEF PlaceOf, Place, Root
<1>3. QED
  BY <1>2 DEF Places

(* What a change by others keeps: the types,                               *)
LEMMA TypeKept ==
  ASSUME TreeTypeOK, Disturbed
  PROVE  TreeTypeOK'
<1>1. UNCHANGED <<site, lpc, tries, key, tree, unresolved, list>> /\ changes' \in 0 .. MaxChanges
      /\ fs' \in [Ids -> Root] /\ dirs' \subseteq Dir
  BY DEF Disturbed, Traced
<1>2. stable' \subseteq Ids
  BY DEF Disturbed, Traced, TreeTypeOK
<1>3. seen' \subseteq [Ids -> Place]
  <2>1. seen \subseteq [Ids -> Place]
    BY DEF TreeTypeOK
  <2>2. \A g \in seen : \A i \in Ids : [g EXCEPT ![i] = PlaceOf(fs', i)] \in [Ids -> Place]
    BY <1>1, <2>1, PlacesType
  <2>3. QED
    BY <2>1, <2>2 DEF Disturbed, Traced
<1>4. Roots(tree) \subseteq Ids => (Roots(tree) \subseteq Ids)'
  BY <1>1
<1>5. QED
  BY <1>1, <1>2, <1>3, <1>4 DEF TreeTypeOK

(* where the lookup is,                                                    *)
LEMMA ProgressKept ==
  ASSUME TreeTypeOK, Progress, Disturbed
  PROVE  Progress'
<1>1. UNCHANGED <<site, lpc, tries, key, tree, unresolved, list>>
  BY DEF Disturbed, Traced
<1>2. PICK i \in Ids : Changes(i)
  BY DEF Disturbed
<1>3. fs[Vol].state # "free" => fs'[Vol].state # "free"
  BY <1>2, IdsType DEF Changes
<1>4. (\A j \in Roots(tree) : IsManaged(tree.info[j]) = IsManaged(tree.info[j])')
  BY <1>1 DEF IsManaged, InDirectory
<1>5. Roots(tree)' = Roots(tree)
  BY <1>1
<1>6. lpc = "done" => list = {j \in Roots(tree) : IsManaged(tree.info[j])'}
  BY <1>4 DEF Progress
<1>7. QED
  BY <1>1, <1>3, <1>5, <1>6 DEF Progress, Looking

(* the search tree and what is known of each root,                         *)
LEMMA GrownKept ==
  ASSUME TreeTypeOK, Grown, Disturbed
  PROVE  Grown'
<1>1. UNCHANGED <<site, lpc, tries, key, tree, unresolved, list>>
  BY DEF Disturbed, Traced
<1>2. PICK i \in Ids : Changes(i)
  BY DEF Disturbed
<1>3. \A j \in Ids : fs[j].state # "free" => fs'[j].origin = fs[j].origin /\ fs'[j].state # "free"
  BY <1>2 DEF Changes
<1>4. IsChain(tree, Roots(tree))' /\ Roots(tree)' = Roots(tree)
  BY <1>1 DEF Grown
<1>5. QED
  BY <1>1, <1>3, <1>4 DEF Grown

(* (the subvolume is there only if it was before)                          *)
LEMMA LinkedBefore ==
  ASSUME Progress, Disturbed, Looking, fs'[Vol].state = "linked"
  PROVE  Linked(Vol)
BY IdsType DEF Disturbed, Changes, Progress, Linked

(* what was read of the subvolumes above,                                  *)
LEMMA InPlaceKept ==
  ASSUME TreeTypeOK, Hierarchy, Progress, InPlace, Disturbed
  PROVE  InPlace'
<1>1. UNCHANGED <<site, lpc, tries, key, tree, unresolved, list>>
  BY DEF Disturbed, Traced
<1>2. PICK i \in Ids : Changes(i)
  BY DEF Disturbed
<1> SUFFICES ASSUME Looking, fs'[Vol].state = "linked", NEW j \in Ids \ {Top}, IsAbove(j, Vol)',
                    j >= site.mount, Read(KeyOf(j, fs'[j].dir.in))
             PROVE  j \in Roots(tree) /\ tree.info[j].ref = fs'[j].dir.in /\ tree.info[j].name = fs'[j].name
  <2>1. Roots(tree)' = Roots(tree) /\ Looking' = Looking /\ Linked(Vol)' = (fs'[Vol].state = "linked")
    BY <1>1 DEF Looking, Linked
  <2>2. \A j \in Ids : Read(KeyOf(j, fs[j].dir.in))' = Read(KeyOf(j, fs'[j].dir.in))
    BY <1>1 DEF Read, KeyOf
  <2>3. QED
    BY <1>1, <2>1, <2>2 DEF InPlace
<1>3. Linked(Vol)
  BY LinkedBefore
<1> DEFINE A == {m \in Ids : IsAbove(m, Vol)}
<1>4. A \in SUBSET Ids /\ Vol \in A /\ \A m \in A \ {Top} : Linked(m) /\ fs[m].dir.in \in A
  BY <1>3, AboveIs, IdsType DEF TreeTypeOK
<1>5. \A m \in A \ {Top} : fs'[m] = fs[m]
  BY <1>2, <1>3 DEF Changes
<1>6. j \in A
  <2>1. \A m \in A \ {Top} : fs'[m].dir.in \in A
    BY <1>4, <1>5
  <2> HIDE DEF A
  <2>2. QED
    BY <1>4, <2>1 DEF IsAbove
<1>7. fs'[j] = fs[j] /\ IsAbove(j, Vol)
  BY <1>5, <1>6
<1>8. QED
  BY <1>3, <1>7 DEF InPlace

(* what was read of the snapshots that are still there,                    *)
LEMMA SteadyKept ==
  ASSUME TreeTypeOK, Steady, Disturbed
  PROVE  Steady'
<1>1. UNCHANGED <<site, lpc, tries, key, tree, unresolved, list>>
  BY DEF Disturbed, Traced
<1>2. Looking => stable' \subseteq stable /\ stable' \subseteq There(fs')
  BY DEF Disturbed, Traced
<1>3. There(fs)' = There(fs')
  BY <1>1 DEF There, NamesAbove, InDirectory, Places, PlaceOf
<1>4. Roots(tree)' = Roots(tree) /\ Looking' = Looking
  BY <1>1 DEF Looking
<1>5. \A i \in Ids : /\ Read(KeyOf(i, 0))' = Read(KeyOf(i, 0))
                     /\ Read(KeyOf(i, Vol))' = Read(KeyOf(i, Vol))
                     /\ InDirectory(tree.info[i].dirname)' = InDirectory(tree.info[i].dirname)
  BY <1>1 DEF Read, InDirectory
<1>6. stable' \subseteq Ids
  BY TypeKept DEF TreeTypeOK
<1>7. QED
  BY <1>1, <1>2, <1>3, <1>4, <1>5, <1>6 DEF Steady

(* that what was read is of moments of the try,                            *)
LEMMA ComposedKept ==
  ASSUME TreeTypeOK, Composed, Disturbed
  PROVE  Composed'
<1>1. UNCHANGED <<site, lpc, tries, key, tree, unresolved, list>>
  BY DEF Disturbed, Traced
<1>2. PICK i \in Ids : Changes(i)
  BY DEF Disturbed
<1>3. \A j \in Ids : j # i => fs'[j] = fs[j]
  BY <1>2 DEF Changes
<1>4. \A j \in Ids : Passed(j)' = Passed(j) /\ InfoPlace(j)' = InfoPlace(j)
  BY <1>1 DEF Passed, Read, InfoPlace
<1>5. \A j \in Ids : j # i => PlaceOf(fs, j)' = PlaceOf(fs, j)
  BY <1>3 DEF PlaceOf
<1>6. PlaceOf(fs, i)' = PlaceOf(fs', i)
  BY DEF PlaceOf
<1>7. Pasted' = Pasted \/ Pasted' = [Pasted EXCEPT ![i] = PlaceOf(fs', i)]
  BY <1>4, <1>5, <1>6 DEF Pasted
<1>8. Shown' = Shown \/ Shown' = [Shown EXCEPT ![i] = PlaceOf(fs', i)]
  BY <1>1, <1>4, <1>5, <1>6 DEF Shown
<1>9. Looking' = Looking
  BY <1>1 DEF Looking
<1>10. Looking => Pasted' \in seen' /\ Shown' \in seen'
  BY <1>7, <1>8 DEF Composed, Disturbed, Traced
<1>11. QED
  BY <1>1, <1>9, <1>10 DEF Composed

(* the paths put together so far,                                          *)
LEMMA ResolvedKept ==
  ASSUME Resolved, Disturbed
  PROVE  Resolved'
<1>1. UNCHANGED <<site, lpc, tries, key, tree, unresolved, list>>
  BY DEF Disturbed, Traced
<1>3. Known(tree)' = Known(tree)
  BY <1>1 DEF Known
<1>4. Roots(tree)' = Roots(tree)
  BY <1>1
<1>5. ASSUME NEW i PROVE Above(tree, tree.info[i].ref)' = Above(tree, tree.info[i].ref)
  BY <1>1, <1>3 DEF Above, FollowRefTree
<1>6. QED
  BY <1>1, <1>4, <1>5 DEF Resolved

(* and the list.                                                           *)
LEMMA ListKept ==
  ASSUME TreeTypeOK, Progress, Grown, ListExact, Disturbed
  PROVE  ListExact'
<1>1. UNCHANGED <<site, lpc, tries, key, tree, unresolved, list>>
  BY DEF Disturbed, Traced
<1>2. PICK i \in Ids : Changes(i)
  BY DEF Disturbed
<1> SUFFICES ASSUME lpc = "done" PROVE ListExact'
  BY <1>1 DEF ListExact
<1>3. stable' = stable /\ seen' = seen
  BY DEF Disturbed, Traced, Looking
<1>4. \A j \in list : fs[j].origin = Vol /\ fs[j].state # "free" /\ j \in Ids
  BY DEF Progress, Grown, IsManaged, TreeTypeOK
<1>5. \A j \in list : fs'[j].origin = Vol
  BY <1>2, <1>4 DEF Changes
<1>6. ASSUME NEW j \in list, NEW g \in seen, j \in Matching(g) PROVE j \in Matching(g)'
  <2>1. NamesAbove(g, g[j].dir)' = NamesAbove(g, g[j].dir)
    BY <1>1 DEF NamesAbove
  <2>2. InDirectory(NamesAbove(g, g[j].dir))' = InDirectory(NamesAbove(g, g[j].dir))
    BY <1>1, <2>1 DEF InDirectory
  <2>3. QED
    BY <1>5, <1>6, <2>2 DEF Matching, IsSnapshot
<1>7. \A j \in list' : \E g \in seen' : j \in Matching(g)'
  BY <1>1, <1>3, <1>6 DEF ListExact
<1>8. InOrder(tree)' = InOrder(tree)
  BY <1>1
<1>9. QED
  BY <1>1, <1>3, <1>7, <1>8 DEF ListExact

(* Nothing the other users of the filesystem do disturbs the invariant.    *)
LEMMA OthersKeeps ==
  ASSUME TreeInv, Others
  PROVE  TreeInv'
<1>1. Disturbed /\ Hierarchy'
  BY OthersIs DEF TreeInv
<1>2. UNCHANGED <<site, lpc, tries, key, tree, unresolved, list>>
  BY <1>1 DEF Disturbed, Traced
<1>3. TreeTypeOK' /\ Progress' /\ Grown' /\ InPlace' /\ Steady' /\ Composed' /\ Resolved' /\ ListExact'
  BY <1>1, TypeKept, ProgressKept, GrownKept, InPlaceKept, SteadyKept, ComposedKept, ResolvedKept,
     ListKept DEF TreeInv
<1>4. Roots(tree)' = Roots(tree)
  BY <1>2
<1>5. Ahead' /\ Behind'
  BY <1>2, <1>4 DEF TreeInv, Ahead, Behind, Looking, KeyOf
<1>6. QED
  BY <1>1, <1>3, <1>5 DEF TreeInv

(* A new search tree is an empty chain.                                    *)
LEMMA NewIs == NewRBRoot \in RBRoot /\ IsChain(NewRBRoot, {}) /\ Roots(NewRBRoot) = {}
               /\ \A j \in Ids : NewRBRoot.info[j] = NoInfo
<1>1. NewRBRoot \in RBRoot
  BY NoInfoType, IdsType DEF NewRBRoot, RBRoot, Nil
<1>2. IsChain(NewRBRoot, {})
  BY DEF NewRBRoot, IsChain, Nil
<1>3. Roots(NewRBRoot) = {}
  BY <1>1, <1>2, RootsIs
<1>4. QED
  BY <1>1, <1>2, <1>3 DEF NewRBRoot

(* A try begins, or the last one has failed. *)
LEMMA RestartKeeps ==
  ASSUME TreeInv, Call \/ OpenFails \/ LookupFails
  PROVE  TreeInv'
<1>1. /\ lpc' \in {"open", "failed"} /\ tree' = NewRBRoot /\ key' = 0 /\ stable' = {} /\ seen' = {}
      /\ UNCHANGED <<fs, dirs, changes, site>>
      /\ (list' = {} \/ list' = list) /\ unresolved' \in Seq(Ids)
  <2>1. unresolved \in Seq(Ids) /\ <<>> \in Seq(Ids)
    BY DEF TreeInv, TreeTypeOK
  <2>2. CASE Call
    BY <2>1, <2>2 DEF Call, kernel
  <2>3. CASE OpenFails \/ LookupFails
    BY <2>1, <2>3 DEF OpenFails, LookupFails, Fail, kernel
  <2>4. QED
    BY <2>2, <2>3
<1>2. tries' \in 0 .. Tries /\ (lpc' = "open" => tries' < Tries)
  <2>1. tries \in 0 .. Tries /\ (lpc \in {"open", "walk", "paths"} => tries < Tries)
    BY DEF TreeInv, TreeTypeOK, Progress
  <2>2. CASE Call
    BY <2>2, TreeAssumption DEF Call
  <2>3. CASE OpenFails \/ LookupFails
    BY <2>1, <2>3, TreeAssumption DEF OpenFails, LookupFails, Resolving, Fail
  <2>4. QED
    BY <2>2, <2>3
<1>3. Roots(tree)' = {} /\ IsChain(tree, Roots(tree))'
  BY <1>1, NewIs
<1>4. TreeTypeOK'
  <2>1. 0 \in 0 .. KeyOf(MaxRoots, MaxRoots) + 1
    BY LastKeyIs
  <2>2. QED
    BY <1>1, <1>2, <1>3, <2>1, NewIs DEF TreeInv, TreeTypeOK
<1>5. Hierarchy'
  BY <1>1 DEF TreeInv, Hierarchy, Linked
<1>6. Progress'
  BY <1>1, <1>2 DEF Progress, Looking
<1>7. Grown'
  <2>1. \A j \in Ids : tree'.info[j] = NoInfo
    BY <1>1, NewIs
  <2>2. NoInfo.ref = NoInfo.dir.in /\ NoInfo.name = NoName /\ NoInfo.dir = NoDir /\ ~NoInfo.deleted
        /\ NoInfo.origin # Vol
    BY DEF NoInfo, NoDir, Vol
  <2>3. QED
    BY <1>3, <2>1, <2>2 DEF Grown
<1>8. Ahead' /\ Behind' /\ InPlace' /\ Steady' /\ Composed' /\ Resolved' /\ ListExact'
  BY <1>1 DEF Ahead, Behind, InPlace, Steady, Composed, Resolved, ListExact, Looking
<1>9. QED
  BY <1>4, <1>5, <1>6, <1>7, <1>8 DEF TreeInv

(* The walk begins: nothing is read yet. *)
LEMMA ThereType == There(fs) \subseteq Ids
BY DEF There

(* SubvolumeSearch begins.                                                 *)
LEMMA OpenKeeps ==
  ASSUME TreeInv, Open
  PROVE  TreeInv'
<1>1. /\ lpc = "open" /\ Linked(Vol) /\ lpc' = "walk" /\ key' = KeyOf(site.mount, 0)
      /\ stable' = There(fs) /\ seen' = {Places(fs)}
      /\ UNCHANGED <<fs, dirs, changes, site, tries, tree, unresolved, list>>
  BY DEF Open, kernel
<1>2. tree = NewRBRoot /\ Roots(tree) = {} /\ Roots(tree)' = {} /\ (\A j \in Ids : tree.info[j] = NoInfo)
  BY <1>1, NewIs DEF TreeInv, Progress
<1>3. fs \in [Ids -> Root] /\ site.mount \in Ids /\ site.mount \in Nat
  BY IdsType DEF TreeInv, TreeTypeOK
<1>4. \A j \in Ids : \A p \in Node : KeyOf(j, p) < KeyOf(site.mount, 0) <=> j < site.mount
  <2>1. \A p \in Node : ~(p < 0)
    BY DEF Node
  <2>2. QED
    BY <1>3, <2>1, IdsType, KeyOrder
<1>5. \A j \in Ids : \A p \in Node : j >= site.mount => ~Read(KeyOf(j, p))'
  <2>1. \A j \in Ids : j >= site.mount => ~(j < site.mount)
    BY <1>3, IdsType
  <2>2. QED
    BY <1>1, <1>4, <2>1 DEF Read
<1>6. TreeTypeOK'
  <2>1. key' \in 0 .. KeyOf(MaxRoots, MaxRoots) + 1
    <3>1. KeyOf(site.mount, 0) \in Nat /\ MaxRoots \in Node /\ MaxRoots \in Nat /\ site.mount <= MaxRoots
      <4>1. MaxRoots \in Nat /\ MaxRoots \in Node /\ site.mount <= MaxRoots
        BY <1>3, TreeAssumption DEF Node, Ids
      <4>2. QED
        BY <1>3, <4>1, KeyIs, IdsType
    <3>2. ~(KeyOf(MaxRoots, MaxRoots) < KeyOf(site.mount, 0))
      BY <1>3, <3>1, KeyOrder, IdsType DEF Node
    <3>3. QED
      BY <1>1, <3>1, <3>2, LastKeyIs
  <2>2. stable' \subseteq Ids /\ seen' \subseteq [Ids -> Place]
    BY <1>1, <1>3, ThereType, PlacesType
  <2>3. QED
    BY <1>1, <1>2, <2>1, <2>2 DEF TreeInv, TreeTypeOK
<1>7. Hierarchy'
  BY <1>1 DEF TreeInv, Hierarchy, Linked
<1>8. Progress'
  BY <1>1 DEF TreeInv, Progress, Looking, Linked
<1>9. Grown'
  <2>1. IsChain(tree, Roots(tree))'
    BY <1>1 DEF TreeInv, Grown
  <2>2. \A j \in Ids : ~tree.info[j].deleted
    BY <1>2 DEF NoInfo
  <2>3. QED
    BY <1>1, <1>2, <2>1, <2>2 DEF TreeInv, Grown
<1>10. Ahead' /\ Behind'
  <2>1. KeyOf(site.mount, 0) \in Nat
    BY <1>3, KeyIs, IdsType
  <2>2. KeyOf(site.mount, 0)' = KeyOf(site.mount, 0)
    BY <1>1 DEF KeyOf
  <2>3. QED
    BY <1>1, <1>2, <2>1, <2>2 DEF Ahead, Behind
<1>11. InPlace'
  <2>1. \A j \in Ids \ {Top} : IsAbove(j, Vol) => fs[j].dir.in \in Node
    BY <1>1, <1>3, AboveIs, IdsType DEF TreeInv
  <2>2. ASSUME NEW j \in Ids \ {Top}, IsAbove(j, Vol)', j >= site.mount, Read(KeyOf(j, fs[j].dir.in))'
        PROVE  FALSE
    <3>1. IsAbove(j, Vol)
      BY <1>1, <2>2 DEF IsAbove
    <3>2. QED
      BY <1>1, <1>5, <2>1, <2>2, <3>1 DEF Read, KeyOf
  <2>3. QED
    BY <1>1, <2>2 DEF InPlace
<1>12. Steady'
  <2>1. There(fs)' = There(fs)
    BY <1>1 DEF There, NamesAbove, InDirectory, Places, PlaceOf
  <2>2. \A i \in Ids : i >= site.mount => ~Read(KeyOf(i, 0))' /\ ~Read(KeyOf(i, Vol))'
    BY <1>5, IdsType
  <2>3. QED
    BY <1>1, <2>1, <2>2, ThereType DEF Steady
<1>13. Composed'
  <2>1. \A j \in Ids : ~Passed(j)'
    BY <1>1, <1>5, TreeAssumption DEF Passed, Node
  <2>2. \A j \in Ids : PlaceOf(fs, j)' = PlaceOf(fs, j) /\ tree'.info[j].ref = 0
    BY <1>1, <1>2 DEF PlaceOf, NoInfo
  <2>3. Pasted' = Places(fs) /\ Shown' = Places(fs)
    BY <2>1, <2>2 DEF Pasted, Shown, Places
  <2>4. ASSUME NEW j \in Ids, KeyOf(j, 1) < key', j >= site.mount PROVE FALSE
    <3>1. 1 \in Node
      BY IdsType DEF Top
    <3>2. j < site.mount
      BY <1>1, <1>4, <2>4, <3>1
    <3>3. QED
      BY <1>3, <2>4, <3>2, IdsType
  <2>5. \A j \in Ids : KeyOf(j, 1)' = KeyOf(j, 1)
    BY DEF KeyOf
  <2>6. QED
    BY <1>1, <2>3, <2>4, <2>5 DEF Composed
<1>14. Resolved' /\ ListExact'
  BY <1>1 DEF Resolved, ListExact
<1>15. QED
  BY <1>6, <1>7, <1>8, <1>9, <1>10, <1>11, <1>12, <1>13, <1>14 DEF TreeInv

(* What the root tree holds of a root. *)
LEMMA KeyIn ==
  ASSUME NEW j \in Ids, NEW p \in Node
  PROVE  KeyOf(j, p) \in Keys
<1>1. KeyOf(j, p) \in Nat /\ KeyOf(0, 0) \in Nat /\ KeyOf(0, 0) < KeyOf(j, p)
  <2>1. 0 < j /\ j \in Nat
    BY DEF Ids
  <2>2. QED
    BY <2>1, KeyIs, KeyOrder, IdsType
<1>2. ~(KeyOf(MaxRoots, MaxRoots) < KeyOf(j, p))
  <2>1. MaxRoots \in Nat /\ MaxRoots \in Node /\ ~(MaxRoots < j) /\ ~(MaxRoots < p) /\ j \in Nat
    BY TreeAssumption DEF Node, Ids
  <2>2. QED
    BY <2>1, KeyOrder
<1>3. QED
  BY <1>1, <1>2, LastKeyIs

(* A root that is there has its item, one that is linked its back          *)
(* reference.                                                              *)
LEMMA ItemIs ==
  ASSUME fs \in [Ids -> Root], Hierarchy, NEW j \in Ids
  PROVE  /\ HasItem(j) => IsItem(KeyOf(j, 0))
         /\ j # Top /\ Linked(j) => fs[j].dir.in \in Ids /\ IsItem(KeyOf(j, fs[j].dir.in))
<1>1. j \in Nat /\ (\A p \in Node : IdOf(KeyOf(j, p)) = j /\ ParentOf(KeyOf(j, p)) = p)
  BY KeyIs, IdsType
<1>2. j # Top /\ Linked(j) => fs[j].dir.in \in Ids /\ fs[j].dir.in \in Node /\ fs[j].dir.in # 0
  BY IdsType DEF Hierarchy
<1>3. QED
  BY <1>1, <1>2, IdsType DEF IsItem

Walks(items) ==
  /\ ItemsOf(items)
  /\ \A k \in items : key <= k /\ Read(k)'
  /\ \A k \in Keys : IsItem(k) /\ key <= k /\ Read(k)' => k \in items
  /\ lpc = "walk" /\ lpc' \in {"walk", "paths"}
  /\ key' \in Nat /\ key <= key'
  /\ tree' \in RBRoot /\ IsChain(tree', Roots(tree) \cup IdsOf(items))
  /\ tree'.info = [j \in Ids |-> Absorb(tree.info[j], j, items)]
  /\ UNCHANGED <<fs, dirs, site, stable, seen>>

(* What is known of a root after a batch.                                  *)
LEMMA AbsorbedIs ==
  ASSUME TreeInv, NEW items, Walks(items), NEW j \in Ids
  PROVE  /\ HasRef(j, items) =>
              /\ j # Top /\ Linked(j) /\ fs[j].dir.in \in Ids
              /\ KeyOf(j, fs[j].dir.in) \in items
              /\ tree'.info[j].ref = fs[j].dir.in /\ tree'.info[j].dir = fs[j].dir
              /\ tree'.info[j].name = fs[j].name
         /\ ~HasRef(j, items) =>
              /\ tree'.info[j].ref = tree.info[j].ref /\ tree'.info[j].dir = tree.info[j].dir
              /\ tree'.info[j].name = tree.info[j].name
         /\ KeyOf(j, 0) \in items => HasItem(j) /\ tree'.info[j].origin = fs[j].origin
         /\ KeyOf(j, 0) \notin items => tree'.info[j].origin = tree.info[j].origin
         /\ tree'.info[j].deleted = tree.info[j].deleted
         /\ tree'.info[j].dirname = tree.info[j].dirname
<1>1. tree.info[j] \in RootInfo /\ fs \in [Ids -> Root]
  BY DEF TreeInv, TreeTypeOK, RBRoot
<1>2. tree'.info[j] = Absorb(tree.info[j], j, items)
  BY DEF Walks
<1>3. j \in Nat /\ \A p \in Node : IdOf(KeyOf(j, p)) = j /\ ParentOf(KeyOf(j, p)) = p
  BY KeyIs, IdsType
<1>4. ASSUME HasRef(j, items)
      PROVE  /\ j # Top /\ Linked(j) /\ fs[j].dir.in \in Ids
             /\ KeyOf(j, fs[j].dir.in) \in items
  <2>1. PICK p \in Ids : KeyOf(j, p) \in items
    BY <1>4 DEF HasRef
  <2>2. p # 0 /\ p \in Node
    BY IdsType
  <2>3. j # Top /\ Linked(j) /\ fs[j].dir.in = p
    BY <1>3, <2>1, <2>2 DEF Walks, ItemsOf, IsItem
  <2>4. QED
    BY <2>1, <2>3
<1>5. KeyOf(j, 0) \in items => HasItem(j)
  BY <1>3, IdsType DEF Walks, ItemsOf, IsItem
<1>6. QED
  BY <1>1, <1>2, <1>4, <1>5 DEF Absorb, RootInfo

(* The roots of the tree after a batch.                                    *)
LEMMA WalkedRoots ==
  ASSUME TreeInv, NEW items, Walks(items)
  PROVE  /\ Roots(tree)' = Roots(tree) \cup IdsOf(items)
         /\ \A j \in Ids : j \in IdsOf(items) <=> \E p \in Node : KeyOf(j, p) \in items
         /\ \A k \in items : IdOf(k) \in Ids /\ ParentOf(k) \in Node /\ k = KeyOf(IdOf(k), ParentOf(k))
<1>1. Roots(tree)' = Roots(tree) \cup IdsOf(items)
  <2>1. Roots(tree') = Roots(tree) \cup IdsOf(items)
    BY RootsIs DEF Walks
  <2>2. QED
    BY <2>1
<1>2. \A k \in items : IdOf(k) \in Ids /\ ParentOf(k) \in Node /\ k = KeyOf(IdOf(k), ParentOf(k))
  <2>1. \A k \in items : k \in Nat /\ IdOf(k) \in Ids
    BY LastKeyIs DEF Walks, ItemsOf, IsItem
  <2>2. QED
    BY <2>1, KeyOnto
<1>3. \A j \in Ids : \A p \in Node : IdOf(KeyOf(j, p)) = j
  BY KeyIs, IdsType
<1>4. QED
  BY <1>1, <1>2, <1>3 DEF IdsOf

(* The next search begins at a number.                                     *)
LEMMA KeyType == TreeInv => key \in Nat
BY LastKeyIs DEF TreeInv, TreeTypeOK

(* A batch keeps the shape of what is known,                               *)
LEMMA WalksGrown ==
  ASSUME TreeInv, NEW items, Walks(items)
  PROVE  Grown'
<1>1. Roots(tree)' = Roots(tree) \cup IdsOf(items) /\ IsChain(tree, Roots(tree))'
  BY WalkedRoots DEF Walks
<1>2. ASSUME NEW j \in Ids \ Roots(tree)' PROVE tree'.info[j] = NoInfo
  <2>1. \A p \in Node : KeyOf(j, p) \notin items
    BY <1>1, WalkedRoots
  <2>2. ~HasRef(j, items) /\ KeyOf(j, 0) \notin items
    BY <2>1, IdsType DEF HasRef
  <2>3. tree.info[j] = NoInfo
    BY <1>1 DEF TreeInv, Grown
  <2>4. tree'.info[j] = Absorb(tree.info[j], j, items) /\ tree.info[j] \in RootInfo
    BY DEF Walks, TreeInv, TreeTypeOK, RBRoot
  <2>5. QED
    BY <2>2, <2>3, <2>4 DEF Absorb, RootInfo
<1>3. ASSUME NEW j \in Ids
      PROVE  /\ tree'.info[j].ref = tree'.info[j].dir.in
             /\ tree'.info[j].ref = 0 => tree'.info[j].name = NoName /\ tree'.info[j].dir = NoDir
             /\ ~tree'.info[j].deleted
             /\ tree'.info[j].origin = Vol => fs'[j].origin = Vol /\ fs'[j].state # "free"
  <2>1. /\ tree.info[j].ref = tree.info[j].dir.in
        /\ tree.info[j].ref = 0 => tree.info[j].name = NoName /\ tree.info[j].dir = NoDir
        /\ ~tree.info[j].deleted
        /\ tree.info[j].origin = Vol => fs[j].origin = Vol /\ fs[j].state # "free"
    BY DEF TreeInv, Grown, Walks
  <2>2. fs' = fs /\ (HasItem(j) => fs[j].state # "free")
    BY DEF Walks, HasItem
  <2>3. QED
    BY <2>1, <2>2, AbsorbedIs, IdsType
<1>4. QED
  BY <1>1, <1>2, <1>3 DEF Grown

(* what was read of the subvolumes above,                                  *)
LEMMA WalksInPlace ==
  ASSUME TreeInv, NEW items, Walks(items)
  PROVE  InPlace'
<1>1. UNCHANGED <<fs, dirs, site>> /\ lpc = "walk" /\ Looking
  BY DEF Walks, Looking
<1>2. fs \in [Ids -> Root] /\ Hierarchy
  BY DEF TreeInv, TreeTypeOK
<1> SUFFICES ASSUME Linked(Vol), NEW j \in Ids \ {Top}, IsAbove(j, Vol), j >= site.mount,
                    Read(KeyOf(j, fs[j].dir.in))'
             PROVE  j \in Roots(tree)' /\ tree'.info[j].ref = fs[j].dir.in /\ tree'.info[j].name = fs[j].name
  BY <1>1 DEF InPlace, Linked, IsAbove, Read, KeyOf
<1> DEFINE k == KeyOf(j, fs[j].dir.in)
<1>3. Linked(j) /\ fs[j].dir.in \in Ids /\ fs[j].dir.in \in Node
  BY <1>2, AboveIs, IdsType
<1>4. IsItem(k) /\ k \in Keys /\ k \in Nat /\ key \in Nat
  <2>1. IsItem(k)
    BY <1>2, <1>3, ItemIs
  <2>2. k \in Keys /\ k \in Nat
    BY <1>3, KeyIn, KeyIs, IdsType
  <2>3. QED
    BY <2>1, <2>2, KeyType
<1>5. CASE k < key
  <2>1. Read(k)
    BY <1>5 DEF Read
  <2>2. j \in Roots(tree) /\ tree.info[j].ref = fs[j].dir.in /\ tree.info[j].name = fs[j].name
    BY <1>1, <2>1 DEF TreeInv, InPlace
  <2>3. QED
    BY <2>2, AbsorbedIs, WalkedRoots
<1>6. CASE key <= k
  <2>1. k \in items
    BY <1>1, <1>4, <1>6 DEF Walks, Read, KeyOf
  <2>2. HasRef(j, items)
    BY <1>3, <2>1 DEF HasRef
  <2>3. QED
    BY <1>3, <2>1, <2>2, AbsorbedIs, WalkedRoots
<1>7. QED
  BY <1>4, <1>5, <1>6

(* What is linked in the snapshot directory.                               *)
LEMMA ThereIs ==
  ASSUME NEW i, i \in There(fs)
  PROVE  /\ i \in Ids \ {Top} /\ Linked(i) /\ HasItem(i) /\ fs[i].origin = Vol
         /\ fs[i].dir = SnapDir /\ fs[i].dir.in = Vol /\ fs[i].name \in Managed
         /\ InDirectory(NamesAbove(Places(fs), SnapDir))
<1>1. /\ i \in Ids /\ fs[i].origin = Vol /\ PlaceOf(fs, i).dir = SnapDir /\ PlaceOf(fs, i).name \in Managed
      /\ InDirectory(NamesAbove(Places(fs), SnapDir))
  BY DEF There, Places
<1>2. SnapDir.in = Vol /\ NoPlace.dir.in = 0 /\ Vol # 0
  BY DEF SnapDir, NoPlace, NoDir, Vol
<1>3. i # Top /\ Linked(i)
  BY <1>1, <1>2 DEF PlaceOf, Linked
<1>4. QED
  BY <1>1, <1>2, <1>3 DEF PlaceOf, Linked, HasItem

(* and what was read of the snapshots that are still there.                *)
LEMMA WalksSteady ==
  ASSUME TreeInv, NEW items, Walks(items),
         lpc' = "paths" => Roots(tree)' \subseteq ToSet(unresolved')
  PROVE  Steady'
<1>1. UNCHANGED <<fs, dirs, site, stable>> /\ lpc = "walk" /\ Looking
  BY DEF Walks, Looking
<1>2. fs \in [Ids -> Root] /\ Hierarchy /\ key \in Nat
  BY KeyType DEF TreeInv, TreeTypeOK
<1>3. stable \subseteq There(fs) /\ There(fs)' = There(fs)
  <2>1. There(fs)' = There(fs)
    BY <1>1 DEF There, NamesAbove, InDirectory, Places, PlaceOf
  <2>2. QED
    BY <1>1, <2>1 DEF TreeInv, Steady
<1>4. ASSUME NEW i \in stable, i >= site.mount
      PROVE  /\ Read(KeyOf(i, 0))' => i \in Roots(tree)' /\ tree'.info[i].origin = Vol
             /\ Read(KeyOf(i, Vol))' => /\ tree'.info[i].ref = Vol
                                        /\ tree'.info[i].dir = SnapDir /\ tree'.info[i].name \in Managed
             /\ lpc' = "paths" => i \in ToSet(unresolved')
  <2>1. /\ i \in Ids \ {Top} /\ Linked(i) /\ HasItem(i) /\ fs[i].origin = Vol
        /\ fs[i].dir = SnapDir /\ fs[i].dir.in = Vol /\ fs[i].name \in Managed
    BY <1>3, ThereIs
  <2>2. /\ IsItem(KeyOf(i, 0)) /\ KeyOf(i, 0) \in Keys /\ KeyOf(i, 0) \in Nat
        /\ IsItem(KeyOf(i, Vol)) /\ KeyOf(i, Vol) \in Keys /\ KeyOf(i, Vol) \in Nat
    <3>1. IsItem(KeyOf(i, 0)) /\ IsItem(KeyOf(i, Vol))
      BY <1>2, <2>1, ItemIs
    <3>2. QED
      BY <2>1, <3>1, KeyIn, KeyIs, IdsType
  <2>3. Read(KeyOf(i, 0))' => i \in Roots(tree)' /\ tree'.info[i].origin = Vol
    <3>1. CASE KeyOf(i, 0) < key
      <4>1. i \in Roots(tree) /\ tree.info[i].origin = Vol
        BY <1>1, <1>4, <3>1 DEF TreeInv, Steady, Read
      <4>2. QED
        BY <2>1, <4>1, AbsorbedIs, WalkedRoots
    <3>2. CASE key <= KeyOf(i, 0) /\ Read(KeyOf(i, 0))'
      <4>1. KeyOf(i, 0) \in items
        BY <2>2, <3>2 DEF Walks
      <4>2. QED
        BY <2>1, <4>1, AbsorbedIs, WalkedRoots, IdsType
    <3>3. QED
      BY <1>2, <2>2, <3>1, <3>2
  <2>4. Read(KeyOf(i, Vol))' => /\ tree'.info[i].ref = Vol
                                /\ tree'.info[i].dir = SnapDir /\ tree'.info[i].name \in Managed
    <3>1. CASE KeyOf(i, Vol) < key
      <4>1. tree.info[i].ref = Vol /\ tree.info[i].dir = SnapDir /\ tree.info[i].name \in Managed
        BY <1>1, <1>4, <3>1 DEF TreeInv, Steady, Read
      <4>2. QED
        BY <2>1, <4>1, AbsorbedIs
    <3>2. CASE key <= KeyOf(i, Vol) /\ Read(KeyOf(i, Vol))'
      <4>1. KeyOf(i, Vol) \in items
        BY <2>2, <3>2 DEF Walks
      <4>2. HasRef(i, items)
        BY <4>1, IdsType DEF HasRef
      <4>3. QED
        BY <2>1, <4>2, AbsorbedIs
    <3>3. QED
      BY <1>2, <2>2, <3>1, <3>2
  <2>5. lpc' = "paths" => i \in ToSet(unresolved')
    BY <2>3 DEF Read
  <2>6. QED
    BY <2>3, <2>4, <2>5
<1>5. QED
  BY <1>1, <1>3, <1>4 DEF Steady

(* A root whose reading is not finished, but has begun: there is one.      *)
Kept(j) == ~Passed(j) /\ tree.info[j].ref # 0

(* Only the last one read can be such a root.                              *)
LEMMA KeptOnce ==
  ASSUME TreeInv, lpc = "walk", NEW j \in Ids, NEW m \in Ids, Kept(j), Kept(m)
  PROVE  j = m
<1>1. ASSUME NEW x \in Ids, NEW y \in Ids, Kept(x), Kept(y), x < y PROVE FALSE
  <2>1. x \in Roots(tree) /\ y \in Roots(tree)
    BY <1>1 DEF TreeInv, Grown, NoInfo, Kept
  <2>2. KeyOf(y, 0) < key /\ x >= site.mount
    <3>1. site.mount <= x
      BY <2>1 DEF TreeInv, Behind, Looking
    <3>2. site.mount \in Nat
      BY IdsType DEF TreeInv, TreeTypeOK
    <3>3. QED
      BY <2>1, <3>1, <3>2, IdsType DEF TreeInv, Ahead
  <2>3. KeyOf(x, MaxRoots) < KeyOf(y, 0) /\ KeyOf(x, MaxRoots) \in Nat /\ KeyOf(y, 0) \in Nat
    <3>1. MaxRoots \in Node
      BY TreeAssumption DEF Node
    <3>2. QED
      BY <1>1, <3>1, IdsType, KeyOrder, KeyIs
  <2>4. KeyOf(x, MaxRoots) < key
    BY <2>2, <2>3, KeyType
  <2>5. QED
    BY <1>1, <2>2, <2>4 DEF Kept, Passed, Read
<1>2. j \in Nat /\ m \in Nat
  BY IdsType
<1>3. QED
  BY <1>1, <1>2

(* What a batch adds is where it is in the filesystem now. *)
LEMMA WalkedPlace ==
  ASSUME TreeInv, NEW items, Walks(items), NEW j \in Ids
  PROVE  /\ Kept(j) /\ ~HasRef(j, items) => Shown'[j] = Shown[j]
         /\ ~(Kept(j) /\ ~HasRef(j, items)) => Shown'[j] = Pasted[j]
         /\ ~Kept(j) => Shown[j] = Pasted[j]
         /\ Passed(j)' => Pasted'[j] = Shown'[j]
         /\ ~Passed(j)' => Pasted'[j] = Pasted[j]
<1>1. UNCHANGED <<fs, dirs, site, seen>> /\ lpc = "walk" /\ Looking /\ key \in Nat
      /\ fs \in [Ids -> Root] /\ Hierarchy /\ key' \in Nat /\ key <= key'
  BY KeyType DEF Walks, Looking, TreeInv, TreeTypeOK
<1>2. PlaceOf(fs, j)' = PlaceOf(fs, j)
  BY <1>1 DEF PlaceOf
<1>3. /\ Pasted[j] = IF Passed(j) THEN InfoPlace(j) ELSE PlaceOf(fs, j)
      /\ Shown[j] = IF Passed(j) \/ tree.info[j].ref # 0 THEN InfoPlace(j) ELSE PlaceOf(fs, j)
      /\ Pasted'[j] = IF Passed(j)' THEN InfoPlace(j)' ELSE PlaceOf(fs, j)
      /\ Shown'[j] = IF Passed(j)' \/ tree'.info[j].ref # 0 THEN InfoPlace(j)' ELSE PlaceOf(fs, j)
  BY <1>2 DEF Pasted, Shown
<1>4. MaxRoots \in Node /\ \A p \in Node : KeyOf(j, p) \in Nat /\ KeyOf(j, p) <= KeyOf(j, MaxRoots)
  <2>1. MaxRoots \in Node /\ \A p \in Node : ~(MaxRoots < p)
    BY TreeAssumption DEF Node
  <2>2. \A p \in Node : ~(KeyOf(j, MaxRoots) < KeyOf(j, p)) /\ KeyOf(j, p) \in Nat
    BY <2>1, IdsType, KeyOrder, KeyIs
  <2>3. QED
    BY <2>1, <2>2
<1>5. Passed(j) => Passed(j)' /\ ~HasRef(j, items)
  <2> SUFFICES ASSUME Passed(j) PROVE Passed(j)' /\ ~HasRef(j, items)
    OBVIOUS
  <2>1. KeyOf(j, MaxRoots) < key /\ j >= site.mount
    BY <1>1 DEF Passed, Read
  <2>2. KeyOf(j, MaxRoots) < key' /\ KeyOf(j, MaxRoots)' = KeyOf(j, MaxRoots)
    BY <1>1, <1>4, <2>1 DEF KeyOf
  <2>3. Passed(j)'
    BY <1>1, <2>1, <2>2 DEF Passed, Read
  <2>4. \A k \in items : key <= k
    BY DEF Walks
  <2>5. \A p \in Ids : KeyOf(j, p) \notin items
    BY <1>1, <1>4, <2>1, <2>4, IdsType
  <2>6. QED
    BY <2>3, <2>5 DEF HasRef
<1>6. HasRef(j, items) => InfoPlace(j)' = PlaceOf(fs, j) /\ tree'.info[j].ref # 0
  BY AbsorbedIs, IdsType DEF InfoPlace, PlaceOf, Linked
<1>7. ~HasRef(j, items) => InfoPlace(j)' = InfoPlace(j) /\ tree'.info[j].ref = tree.info[j].ref
  BY AbsorbedIs DEF InfoPlace
<1>8. ASSUME ~HasRef(j, items), tree.info[j].ref = 0, ~Passed(j), Passed(j)'
      PROVE  InfoPlace(j) = PlaceOf(fs, j)
  <2>1. InfoPlace(j) = NoPlace
    BY <1>8 DEF TreeInv, Grown, InfoPlace, NoPlace
  <2>2. ASSUME j # Top, Linked(j) PROVE FALSE
    <3>0. PICK k, p : p = fs[j].dir.in /\ k = KeyOf(j, p)
      OBVIOUS
    <3>1. p \in Ids /\ p \in Node /\ IsItem(k) /\ k \in Keys
      BY <1>1, <2>2, <3>0, ItemIs, KeyIn, IdsType
    <3>2. k \in Nat /\ k <= KeyOf(j, MaxRoots) /\ KeyOf(j, MaxRoots) \in Nat
      BY <1>4, <3>0, <3>1
    <3>3. Read(k)'
      <4>1. lpc' = "paths" \/ KeyOf(j, MaxRoots) < key'
        BY <1>8 DEF Passed, Read, KeyOf
      <4>2. lpc' = "paths" \/ k < key'
        BY <1>1, <3>2, <4>1
      <4>3. QED
        BY <4>2 DEF Read
    <3>4. k < key
      <4>1. k \notin items
        BY <1>8, <3>0, <3>1 DEF HasRef
      <4>2. ~(key <= k)
        BY <3>1, <3>3, <4>1 DEF Walks
      <4>3. QED
        BY <1>1, <3>2, <4>2
    <3>5. KeyOf(j, 1) < key
      <4>1. 1 \in Node /\ ~(p < 1)
        BY <3>1, IdsType DEF Top, Node, Ids
      <4>2. j \in Nat /\ ~(j < j)
        BY IdsType
      <4>4. ~(KeyOf(j, p) < KeyOf(j, 1)) /\ KeyOf(j, 1) \in Nat
        BY <3>1, <4>1, <4>2, KeyOrder, KeyIs
      <4>3. QED
        BY <1>1, <3>0, <3>2, <3>4, <4>4
    <3>6. j >= site.mount /\ ~(KeyOf(j, MaxRoots) < key)
      BY <1>1, <1>8 DEF Passed, Read
    <3>7. key <= KeyOf(j, MaxRoots)
      BY <1>1, <3>2, <3>6
    <3>8. QED
      BY <1>1, <1>8, <3>5, <3>6, <3>7 DEF TreeInv, Composed
  <2>3. PlaceOf(fs, j) = NoPlace
    BY <2>2 DEF PlaceOf, Linked
  <2>4. QED
    BY <2>1, <2>3
<1>9. QED
  BY <1>3, <1>5, <1>6, <1>7, <1>8 DEF Kept

(* So what was read, with a batch more, is of moments of the try.          *)
LEMMA WalksComposed ==
  ASSUME TreeInv, NEW items, Walks(items)
  PROVE  Pasted' \in seen' /\ Shown' \in seen'
<1>1. seen' = seen /\ lpc = "walk" /\ Pasted \in seen /\ Shown \in seen
  BY DEF Walks, Looking, TreeInv, Composed
<1>2. Shown' = Shown \/ Shown' = Pasted
  <2>0. /\ Shown' = [j \in Ids |-> Shown'[j]] /\ Shown = [j \in Ids |-> Shown[j]]
        /\ Pasted = [j \in Ids |-> Pasted[j]]
    BY DEF Shown, Pasted
  <2>1. CASE \E j \in Ids : Kept(j) /\ ~HasRef(j, items)
    <3>1. \A j \in Ids : Shown'[j] = Shown[j]
      BY <1>1, <2>1, KeptOnce, WalkedPlace
    <3> HIDE <2>1
    <3>2. QED
      BY <2>0, <3>1
  <2>2. CASE ~\E j \in Ids : Kept(j) /\ ~HasRef(j, items)
    <3>1. \A j \in Ids : Shown'[j] = Pasted[j]
      BY <2>2, WalkedPlace
    <3>2. QED
      BY <2>0, <3>1
  <2>3. QED
    BY <2>1, <2>2
<1>3. Pasted' = Shown \/ Pasted' = Pasted
  <2>0. /\ Pasted' = [j \in Ids |-> Pasted'[j]] /\ Shown = [j \in Ids |-> Shown[j]]
        /\ Pasted = [j \in Ids |-> Pasted[j]]
    BY DEF Shown, Pasted
  <2>1. CASE \E j \in Ids : Kept(j) /\ ~HasRef(j, items) /\ Passed(j)'
    <3>1. \A j \in Ids : Pasted'[j] = Shown[j]
      BY <1>1, <2>1, KeptOnce, WalkedPlace
    <3>2. QED
      BY <2>0, <3>1
  <2>2. CASE ~\E j \in Ids : Kept(j) /\ ~HasRef(j, items) /\ Passed(j)'
    <3>1. \A j \in Ids : Pasted'[j] = Pasted[j]
      BY <2>2, WalkedPlace
    <3>2. QED
      BY <2>0, <3>1
  <2>3. QED
    BY <2>1, <2>2
<1>4. QED
  BY <1>1, <1>2, <1>3

(* A batch is put into the tree in order: its keys come after all before.  *)
LEMMA PutInOrder ==
  ASSUME TreeInv, lpc = "walk", NEW items, ItemsOf(items), \A k \in items : key <= k
  PROVE  /\ PutAll(tree, items) \in RBRoot
         /\ IsChain(PutAll(tree, items), Roots(tree) \cup IdsOf(items))
         /\ PutAll(tree, items).info = [j \in Ids |-> Absorb(tree.info[j], j, items)]
<1> DEFINE N == Roots(tree)
<1>1. tree \in RBRoot /\ IsChain(tree, N) /\ fs \in [Ids -> Root] /\ \A j \in Ids \ N : tree.info[j] = NoInfo
  BY DEF TreeInv, TreeTypeOK, Grown
<1>2. ASSUME NEW j \in N, NEW k \in items PROVE j <= IdOf(k)
  <2>1. j \in Ids /\ j \in Nat /\ KeyOf(j, 0) < key /\ key <= k
    BY IdsType DEF TreeInv, TreeTypeOK, Ahead
  <2>2. k \in Nat /\ IdOf(k) \in Nat /\ ParentOf(k) \in Node /\ k = KeyOf(IdOf(k), ParentOf(k))
    BY LastKeyIs, KeyOnto DEF ItemsOf
  <2>3. KeyOf(j, 0) \in Nat
    BY <2>1, KeyIs, IdsType
  <2>4. KeyOf(j, 0) < KeyOf(IdOf(k), ParentOf(k))
    BY <2>1, <2>2, <2>3, KeyType
  <2>5. QED
    <3>1. j < IdOf(k) \/ (j = IdOf(k) /\ 0 < ParentOf(k))
      BY <2>1, <2>2, <2>4, KeyOrder, IdsType
    <3>2. QED
      BY <2>1, <2>2, <3>1
<1> HIDE DEF N
<1>3. QED
  BY <1>1, <1>2, PutAllIs, Zenon DEF N

(* One search is such a batch.                                             *)
LEMMA BatchWalks ==
  ASSUME TreeInv, WalkBatch
  PROVE  /\ lpc' = "walk" /\ Walks(Found(key))
         /\ key' - 1 \in Found(key) /\ \A k \in Found(key) : k < key'
<1> DEFINE items == Found(key)
<1>1. /\ lpc = "walk" /\ lpc' = "walk" /\ items # {}
      /\ tree' = PutAll(tree, items) /\ key' = Max(items) + 1
      /\ UNCHANGED <<fs, dirs, site, stable, seen>>
  BY DEF WalkBatch, kernel, history
<1>2. /\ ItemsOf(items) /\ \A k \in items : key <= k
      /\ \A k \in Keys : IsItem(k) /\ key <= k /\ (\E j \in items : k <= j) => k \in items
  BY KeyType, FoundIs
<1>3. items \subseteq Nat /\ Max(items) \in items /\ \A k \in items : k <= Max(items)
  <2>1. items \in SUBSET (0 .. KeyOf(MaxRoots, MaxRoots)) /\ KeyOf(MaxRoots, MaxRoots) \in Nat
    BY <1>2, LastKeyIs DEF ItemsOf
  <2> HIDE DEF items
  <2>2. Max(items) \in items /\ \A k \in items : k <= Max(items)
    <3>1. \A k \in items : Max(items) >= k
      BY <1>1, <2>1, Ends, Zenon
    <3>2. Max(items) \in items
      BY <1>1, <2>1, Ends, Zenon
    <3>3. \A k \in items : k \in Nat
      BY <2>1
    <3>4. QED
      BY <3>1, <3>2, <3>3
  <2>3. QED
    BY <2>1, <2>2
<1> HIDE DEF items
<1>4. key' \in Nat /\ key' - 1 \in items /\ (\A k \in items : k < key') /\ key <= key'
  <2>1. Max(items) \in Nat /\ key \in Nat /\ key <= Max(items)
    BY <1>2, <1>3, KeyType
  <2>2. \A k \in items : k \in Nat
    BY <1>3
  <2>3. (Max(items) + 1) - 1 = Max(items) /\ Max(items) + 1 \in Nat /\ key <= Max(items) + 1
    BY <2>1
  <2>4. \A k \in items : k < Max(items) + 1
    BY <1>3, <2>1, <2>2
  <2>5. QED
    BY <1>1, <1>3, <2>3, <2>4
<1>5. ASSUME NEW k \in Keys, IsItem(k), key <= k, k < key' PROVE k \in items
  <2>1. k \in Nat /\ Max(items) \in Nat
    <3>1. k \in Nat
      BY LastKeyIs
    <3>2. QED
      BY <1>3, <3>1
  <2>2. k <= Max(items)
    BY <1>1, <1>5, <2>1
  <2>3. QED
    BY <1>2, <1>3, <1>5, <2>2
<1>6. /\ tree' \in RBRoot /\ IsChain(tree', Roots(tree) \cup IdsOf(items))
      /\ tree'.info = [j \in Ids |-> Absorb(tree.info[j], j, items)]
  BY <1>1, <1>2, PutInOrder
<1>7. Walks(items)
  <2>1. \A k : Read(k)' <=> k < key'
    BY <1>1 DEF Read
  <2>2. QED
    BY <1>1, <1>2, <1>4, <1>5, <1>6, <2>1 DEF Walks
<1>8. QED
  BY <1>1, <1>4, <1>7 DEF items

(* A search keeps the invariant.                                           *)
LEMMA WalkBatchKeeps ==
  ASSUME TreeInv, WalkBatch
  PROVE  TreeInv'
<1> DEFINE items == Found(key)
<1>1. /\ lpc = "walk" /\ lpc' = "walk" /\ Walks(items)
      /\ key' - 1 \in items /\ \A k \in items : k < key'
      /\ UNCHANGED <<fs, dirs, changes, site, tries, unresolved, list, stable, seen>>
  BY BatchWalks DEF WalkBatch, kernel, history
<1>2. /\ key \in Nat /\ key' \in Nat /\ key <= key' /\ tree' \in RBRoot /\ ItemsOf(items)
      /\ \A k \in items : key <= k
  BY <1>1, KeyType DEF Walks
<1> HIDE DEF items
<1>3. Roots(tree)' = Roots(tree) \cup IdsOf(items) /\ IsChain(tree', Roots(tree)')
  BY <1>1, WalkedRoots DEF Walks
<1>4. \A k \in items : /\ k \in Nat /\ IdOf(k) \in Ids /\ ParentOf(k) \in Node
                       /\ k = KeyOf(IdOf(k), ParentOf(k))
  BY <1>1, <1>2, WalkedRoots, LastKeyIs DEF ItemsOf
<1>5. TreeTypeOK'
  <2>1. key' \in 0 .. KeyOf(MaxRoots, MaxRoots) + 1
    BY <1>1, <1>2, LastKeyIs DEF ItemsOf
  <2>2. Roots(tree)' \subseteq Ids
    BY <1>3 DEF IsChain
  <2>3. QED
    BY <1>1, <1>2, <2>1, <2>2 DEF TreeInv, TreeTypeOK
<1>6. Hierarchy' /\ Progress' /\ Resolved' /\ ListExact'
  BY <1>1 DEF TreeInv, Hierarchy, Progress, Linked, Looking, Resolved, ListExact
<1>7. Ahead'
  <2>1. KeyOf(site.mount, 0) <= key' /\ KeyOf(site.mount, 0)' = KeyOf(site.mount, 0)
    <3>1. KeyOf(site.mount, 0) \in Nat /\ KeyOf(site.mount, 0) <= key
      BY <1>1, KeyIs, IdsType DEF TreeInv, TreeTypeOK, Ahead
    <3>2. QED
      BY <1>1, <1>2, <3>1 DEF KeyOf
  <2>2. ASSUME NEW j \in Roots(tree)' PROVE KeyOf(j, 0) < key'
    <3>1. CASE j \in Roots(tree)
      <4>1. KeyOf(j, 0) < key /\ KeyOf(j, 0) \in Nat
        BY <1>1, <3>1, KeyIs, IdsType DEF TreeInv, TreeTypeOK, Ahead
      <4>2. QED
        BY <1>2, <4>1
    <3>2. CASE j \in IdsOf(items)
      <4>1. PICK k \in items : j = IdOf(k)
        BY <3>2 DEF IdsOf
      <4>2. k < key' /\ k \in Nat /\ j \in Nat /\ ParentOf(k) \in Node /\ k = KeyOf(j, ParentOf(k))
        BY <1>1, <1>4, <4>1, IdsType
      <4>3. ~(ParentOf(k) < 0) /\ ~(j < j)
        BY <4>2 DEF Node
      <4>4. ~(k < KeyOf(j, 0)) /\ KeyOf(j, 0) \in Nat
        <5>1. ~(KeyOf(j, ParentOf(k)) < KeyOf(j, 0)) /\ KeyOf(j, 0) \in Nat
          BY <4>2, <4>3, KeyOrder, KeyIs, IdsType
        <5>2. QED
          BY <4>2, <5>1
      <4>5. QED
        BY <1>2, <4>2, <4>4
    <3>3. QED
      BY <1>3, <3>1, <3>2
  <2>3. QED
    BY <1>1, <2>1, <2>2 DEF Ahead
<1>8. Behind'
  <2>1. ASSUME NEW j \in IdsOf(items) PROVE site.mount <= j
    <3>1. PICK k \in items : j = IdOf(k)
      BY DEF IdsOf
    <3>2. k \in Nat /\ j \in Nat /\ ParentOf(k) \in Node /\ k = KeyOf(j, ParentOf(k)) /\ key <= k
      BY <1>2, <1>4, <3>1, IdsType
    <3>3. site.mount \in Nat /\ KeyOf(site.mount, 0) \in Nat /\ KeyOf(site.mount, 0) <= key
      BY <1>1, KeyIs, IdsType DEF TreeInv, TreeTypeOK, Ahead
    <3>4. ~(KeyOf(j, ParentOf(k)) < KeyOf(site.mount, 0))
      BY <1>2, <3>2, <3>3
    <3>5. ~(j < site.mount)
      BY <3>2, <3>3, <3>4, KeyOrder, IdsType
    <3>6. QED
      BY <3>2, <3>3, <3>5
  <2>2. \A j \in Roots(tree) : site.mount <= j
    BY <1>1 DEF TreeInv, Behind, Looking
  <2>3. QED
    BY <1>1, <1>3, <2>1, <2>2 DEF Behind
<1>9. Grown' /\ InPlace' /\ Steady'
  BY <1>1, WalksGrown, WalksInPlace, WalksSteady
<1>10. Composed'
  <2>1. Pasted' \in seen' /\ Shown' \in seen'
    BY <1>1, WalksComposed
  <2>2. ASSUME NEW j \in Ids, KeyOf(j, 1) < key', key' <= KeyOf(j, MaxRoots) PROVE tree'.info[j].ref # 0
    <3> DEFINE k == key' - 1
    <3>1. /\ k \in items /\ k \in Nat /\ IdOf(k) \in Nat /\ ParentOf(k) \in Node
          /\ k = KeyOf(IdOf(k), ParentOf(k))
      BY <1>1, <1>4, IdsType
    <3>2. j \in Nat /\ 1 \in Node /\ MaxRoots \in Node /\ KeyOf(j, 1) \in Nat /\ KeyOf(j, MaxRoots) \in Nat
      <4>1. 1 \in Node /\ MaxRoots \in Node
        BY TreeAssumption DEF Node, Vol
      <4>2. QED
        BY <4>1, KeyIs, IdsType
    <3>3. ~(k < KeyOf(j, 1)) /\ k < KeyOf(j, MaxRoots)
      BY <1>2, <2>2, <3>2
    <3> HIDE DEF k
    <3>4. IdOf(k) = j /\ ~(ParentOf(k) < 1)
      <4>1. ~(IdOf(k) < j \/ (IdOf(k) = j /\ ParentOf(k) < 1))
        BY <3>1, <3>2, <3>3, KeyOrder
      <4>2. IdOf(k) < j \/ (IdOf(k) = j /\ ParentOf(k) < MaxRoots)
        BY <3>1, <3>2, <3>3, KeyOrder
      <4>3. QED
        BY <3>1, <3>2, <4>1, <4>2
    <3>5. ParentOf(k) \in Ids /\ KeyOf(j, ParentOf(k)) \in items
      BY <3>1, <3>4 DEF Node, Ids
    <3>6. HasRef(j, items)
      BY <3>5 DEF HasRef
    <3>7. QED
      BY <1>1, <3>6, AbsorbedIs, IdsType
  <2>3. \A j \in Ids : KeyOf(j, 1)' = KeyOf(j, 1) /\ KeyOf(j, MaxRoots)' = KeyOf(j, MaxRoots)
    BY DEF KeyOf
  <2>4. QED
    BY <2>1, <2>2, <2>3 DEF Composed
<1>11. QED
  BY <1>5, <1>6, <1>7, <1>8, <1>9, <1>10 DEF TreeInv

(* The last search is a batch of nothing: what there is has been passed.   *)
LEMMA EndWalks ==
  ASSUME TreeInv, WalkEnds
  PROVE  Walks({}) /\ lpc' = "paths" /\ tree' = tree /\ unresolved' \in Seq(Ids)
         /\ ToSet(unresolved') = Roots(tree)
<1>1. /\ lpc = "walk" /\ lpc' = "paths" /\ Found(key) = {} /\ unresolved' = PreOrder(tree)
      /\ UNCHANGED <<fs, dirs, site, stable, seen, key, tree>>
  BY DEF WalkEnds, kernel, history
<1>2. \A k \in Keys : key <= k => ~IsItem(k)
  BY <1>1, KeyType, FoundIs
<1>3. tree \in RBRoot /\ tree.info \in [Ids -> RootInfo] /\ IsChain(tree, Roots(tree))
  BY DEF TreeInv, TreeTypeOK, Grown, RBRoot
<1>4. Roots(tree) \cup IdsOf({}) = Roots(tree)
  BY DEF IdsOf
<1>5. tree.info = [j \in Ids |-> Absorb(tree.info[j], j, {})]
  <2>1. \A j \in Ids : Absorb(tree.info[j], j, {}) = tree.info[j]
    BY <1>3 DEF Absorb, HasRef, RootInfo
  <2>2. QED
    BY <1>3, <2>1
<1>6. Walk(PreOrder(tree), Roots(tree))
  BY <1>3, PreOrderIs, Zenon
<1>7. Walks({})
  BY <1>1, <1>2, <1>3, <1>4, <1>5, KeyType DEF Walks, ItemsOf
<1>8. QED
  BY <1>1, <1>6, <1>7 DEF Walk

(* The walk ends and the paths begin.                                      *)
LEMMA WalkEndsKeeps ==
  ASSUME TreeInv, WalkEnds
  PROVE  TreeInv'
<1>1. /\ lpc = "walk" /\ lpc' = "paths"
      /\ UNCHANGED <<fs, dirs, changes, site, tries, key, tree, list, stable, seen>>
  BY DEF WalkEnds, kernel, history
<1>2. Walks({}) /\ unresolved' \in Seq(Ids) /\ ToSet(unresolved') = Roots(tree)
  BY EndWalks
<1>3. Roots(tree)' = Roots(tree)
  BY <1>1
<1>4. TreeTypeOK'
  BY <1>1, <1>2, <1>3 DEF TreeInv, TreeTypeOK
<1>5. Hierarchy' /\ Progress' /\ ListExact'
  BY <1>1 DEF TreeInv, Hierarchy, Progress, Linked, Looking, ListExact
<1>6. Ahead' /\ Behind'
  BY <1>1, <1>3 DEF TreeInv, Ahead, Behind, Looking
<1>7. Grown' /\ InPlace'
  BY <1>2, WalksGrown, WalksInPlace
<1>8. Steady'
  <2>1. Roots(tree)' \subseteq ToSet(unresolved')
    BY <1>2, <1>3
  <2>2. QED
    BY <1>2, <2>1, WalksSteady
<1>9. Composed'
  BY <1>1, <1>2, WalksComposed DEF Composed
<1>10. Resolved'
  <2>1. Roots(tree)' = ToSet(unresolved)'
    BY <1>2, <1>3
  <2>2. QED
    BY <2>1 DEF Resolved
<1>11. QED
  BY <1>4, <1>5, <1>6, <1>7, <1>8, <1>9, <1>10 DEF TreeInv

(* A path is resolved: the links and the places of the roots stay. *)
Notes(i) ==
  /\ lpc = "paths" /\ unresolved # <<>> /\ i = Head(unresolved) /\ unresolved' = Tail(unresolved)
  /\ tree' \in RBRoot /\ tree'.root = tree.root /\ tree'.left = tree.left /\ tree'.right = tree.right
  /\ \A j \in Ids : /\ tree'.info[j].ref = tree.info[j].ref /\ tree'.info[j].dir = tree.info[j].dir
                    /\ tree'.info[j].name = tree.info[j].name /\ tree'.info[j].origin = tree.info[j].origin
                    /\ j # i => tree'.info[j] = tree.info[j]
  /\ tree'.info[i].deleted => tree.info[i].ref = 0
  /\ UNCHANGED <<fs, dirs, changes, site, lpc, tries, key, list, stable, seen>>

(* The next path is of a root of the tree.                                 *)
LEMMA HeadIs ==
  ASSUME TreeInv, unresolved # <<>>
  PROVE  /\ Head(unresolved) \in Ids /\ Tail(unresolved) \in Seq(Ids)
         /\ ToSet(unresolved) = ToSet(Tail(unresolved)) \cup {Head(unresolved)}
<1>1. unresolved \in Seq(Ids)
  BY DEF TreeInv, TreeTypeOK
<1>2. Head(unresolved) \in Ids /\ Tail(unresolved) \in Seq(Ids) /\ Len(unresolved) \in Nat
      /\ Len(Tail(unresolved)) = Len(unresolved) - 1 /\ Head(unresolved) = unresolved[1]
      /\ \A j \in 1 .. Len(Tail(unresolved)) : Tail(unresolved)[j] = unresolved[j + 1]
  BY <1>1
<1>3. ASSUME NEW x \in ToSet(unresolved) PROVE x \in ToSet(Tail(unresolved)) \cup {Head(unresolved)}
  <2>1. PICK j \in 1 .. Len(unresolved) : x = unresolved[j]
    BY <1>1 DEF ToSet
  <2>2. CASE j = 1
    BY <1>2, <2>1, <2>2
  <2>3. CASE j # 1
    <3>1. j - 1 \in 1 .. Len(Tail(unresolved)) /\ (j - 1) + 1 = j
      BY <1>2, <2>1, <2>3
    <3>2. Tail(unresolved)[j - 1] = x
      BY <1>2, <2>1, <3>1
    <3>3. DOMAIN Tail(unresolved) = 1 .. Len(Tail(unresolved))
      BY <1>2
    <3>4. QED
      BY <3>1, <3>2, <3>3 DEF ToSet
  <2>4. QED
    BY <2>2, <2>3
<1>4. ASSUME NEW x \in ToSet(Tail(unresolved)) PROVE x \in ToSet(unresolved)
  <2>1. PICK j \in 1 .. Len(Tail(unresolved)) : x = Tail(unresolved)[j]
    BY <1>2 DEF ToSet
  <2>2. x = unresolved[j + 1] /\ j + 1 \in 1 .. Len(unresolved)
    BY <1>2, <2>1
  <2>3. QED
    BY <1>1, <2>2 DEF ToSet
<1>5. Head(unresolved) \in ToSet(unresolved)
  <2>1. 1 \in DOMAIN unresolved
    BY <1>1
  <2>2. QED
    BY <1>2, <2>1 DEF ToSet
<1>6. QED
  BY <1>2, <1>3, <1>4, <1>5

(* What is noted of a root while the paths are put together keeps the      *)
(* invariant.                                                              *)
LEMMA NotesKeep ==
  ASSUME TreeInv, NEW i, Notes(i),
         i \in stable /\ i >= site.mount /\ tree.info[i].ref # 0 => InDirectory(tree'.info[i].dirname),
         IF tree.info[i].ref = 0 THEN tree'.info[i].deleted
         ELSE tree'.info[i].dirname = Above(tree, tree.info[i].ref) \o tree.info[i].dir.path
  PROVE  TreeInv'
<1>1. /\ lpc = "paths" /\ lpc' = "paths" /\ i \in Ids /\ unresolved' \in Seq(Ids)
      /\ ToSet(unresolved) = ToSet(unresolved') \cup {i}
      /\ UNCHANGED <<fs, dirs, changes, site, lpc, tries, key, list, stable, seen>>
  BY HeadIs DEF Notes
<1>2. \A j \in Ids : /\ tree'.info[j].ref = tree.info[j].ref /\ tree'.info[j].dir = tree.info[j].dir
                     /\ tree'.info[j].name = tree.info[j].name /\ tree'.info[j].origin = tree.info[j].origin
                     /\ j # i => tree'.info[j] = tree.info[j]
  BY DEF Notes
<1>3. /\ tree \in RBRoot /\ tree' \in RBRoot /\ IsChain(tree, Roots(tree)) /\ IsChain(tree', Roots(tree))
  BY DEF TreeInv, TreeTypeOK, Grown, Notes, IsChain
<1>4. Roots(tree)' = Roots(tree)
  <2>1. Roots(tree') = Roots(tree)
    BY <1>3, RootsIs
  <2>2. QED
    BY <2>1
<1>5. TreeTypeOK'
  BY <1>1, <1>3, <1>4 DEF TreeInv, TreeTypeOK
<1>6. Hierarchy' /\ Progress' /\ Ahead' /\ Behind' /\ ListExact'
  BY <1>1, <1>4 DEF TreeInv, Hierarchy, Linked, Progress, Looking, Ahead, Behind, ListExact
<1>7. i \in Roots(tree)
  BY <1>1 DEF TreeInv, Resolved
<1>8. Grown'
  <2>1. \A j \in Ids \ Roots(tree)' : tree'.info[j] = NoInfo
    BY <1>2, <1>4, <1>7, SMTT(30) DEF TreeInv, Grown
  <2>2. \A j \in Ids : tree'.info[j].deleted => tree'.info[j].ref = 0
    BY <1>1, <1>2 DEF TreeInv, Grown, Notes
  <2>3. QED
    BY <1>1, <1>2, <1>3, <1>4, <2>1, <2>2 DEF TreeInv, Grown
<1>9. InPlace'
  <2>1. \A j \in Ids : IsAbove(j, Vol)' = IsAbove(j, Vol)
    BY <1>1 DEF IsAbove
  <2>2. QED
    BY <1>1, <1>2, <1>4, <2>1 DEF TreeInv, InPlace, Looking, Linked, Read, KeyOf
<1>10. Steady'
  <2>1. Looking /\ stable \subseteq There(fs) /\ There(fs)' = There(fs) /\ stable \subseteq Ids
    <3>1. There(fs)' = There(fs)
      BY <1>1 DEF There, NamesAbove, InDirectory, Places, PlaceOf
    <3>2. QED
      BY <1>1, <3>1 DEF Looking, TreeInv, TreeTypeOK, Steady
  <2>2. ASSUME NEW j \in stable, j >= site.mount
        PROVE  /\ j \in Roots(tree)' /\ tree'.info[j].origin = Vol
               /\ tree'.info[j].ref = Vol /\ tree'.info[j].dir = SnapDir /\ tree'.info[j].name \in Managed
               /\ j \notin ToSet(unresolved') => InDirectory(tree'.info[j].dirname)
    <3>1. /\ j \in Roots(tree) /\ tree.info[j].origin = Vol
          /\ tree.info[j].ref = Vol /\ tree.info[j].dir = SnapDir /\ tree.info[j].name \in Managed
          /\ j \notin ToSet(unresolved) => InDirectory(tree.info[j].dirname)
      BY <1>1, <2>1, <2>2 DEF TreeInv, Steady, Read
    <3>2. j \notin ToSet(unresolved') => InDirectory(tree'.info[j].dirname)
      <4>1. CASE j = i
        BY <2>2, <3>1, <4>1 DEF Vol
      <4>2. CASE j # i
        BY <1>1, <1>2, <2>1, <3>1, <4>2
      <4>3. QED
        BY <4>1, <4>2
    <3>3. QED
      BY <1>2, <1>4, <2>1, <3>1, <3>2
  <2>3. \A j \in Ids : InDirectory(tree'.info[j].dirname) = InDirectory(tree.info[j].dirname)'
    BY <1>1 DEF InDirectory
  <2>4. QED
    BY <1>1, <2>1, <2>2, <2>3 DEF Steady
<1>11. Composed'
  <2>1. \A j \in Ids : Passed(j)' = Passed(j) /\ InfoPlace(j)' = InfoPlace(j) /\ PlaceOf(fs, j)' = PlaceOf(fs, j)
    BY <1>1, <1>2 DEF Passed, Read, InfoPlace, PlaceOf, KeyOf
  <2>2. Pasted' = Pasted /\ Shown' = Shown
    BY <1>2, <2>1 DEF Pasted, Shown
  <2>3. QED
    BY <1>1, <2>2 DEF TreeInv, Composed, Looking
<1>12. Resolved'
  <2>1. Known(tree)' = Known(tree)
    <3>1. Known(tree') = Known(tree)
      <4>1. Known(tree) = {n \in Roots(tree) \ {Top, site.mount} : tree.info[n].ref # 0}
        BY <1>3, KnownIs
      <4>2. Known(tree') = {n \in Roots(tree) \ {Top, site.mount} : tree'.info[n].ref # 0}
        BY <1>3, KnownIs
      <4>3. Roots(tree) \subseteq Ids
        BY DEF TreeInv, TreeTypeOK
      <4>4. QED
        BY <1>2, <4>1, <4>2, <4>3
    <3>2. QED
      BY <1>1, <3>1 DEF Known
  <2>3. ASSUME NEW j \in Roots(tree), j \notin ToSet(unresolved')
        PROVE  IF tree'.info[j].ref = 0 THEN tree'.info[j].deleted
               ELSE tree'.info[j].dirname = Above(tree, tree.info[j].ref) \o tree'.info[j].dir.path
    <3>1. CASE j = i
      BY <1>1, <1>2, <3>1
    <3>2. CASE j # i
      <4>1. j \in Ids /\ tree'.info[j] = tree.info[j]
        BY <1>2, <3>2 DEF TreeInv, TreeTypeOK
      <4>2. QED
        BY <1>1, <2>3, <3>2, <4>1 DEF TreeInv, Resolved
    <3>3. QED
      BY <3>1, <3>2
  <2>4. \A j \in Roots(tree) : Above(tree, tree.info[j].ref)' = Above(tree, tree.info[j].ref)
    BY <1>2, <2>1 DEF Above, FollowRefTree, TreeInv, TreeTypeOK
  <2>5. QED
    BY <1>1, <1>4, <2>3, <2>4 DEF TreeInv, Resolved
<1>13. QED
  BY <1>5, <1>6, <1>8, <1>9, <1>10, <1>11, <1>12 DEF TreeInv

(* The climb in the filesystem, and in what was read of it. *)
HolderOf(g) == {n \in Ids \ {Top, site.mount} : n >= site.mount /\ g[n].dir.in # 0}

(* Places are something to climb in.                                       *)
LEMMA PlacesGraph ==
  ASSUME NEW g \in [Ids -> Place]
  PROVE  Graph(HolderOf(g), [i \in Ids |-> g[i].dir.in], [i \in Ids |-> g[i].name])
BY DEF Graph, HolderOf, Place, Dir

(* The names above a directory are a climb.                                *)
LEMMA NamesAboveIs ==
  ASSUME NEW g, NEW d
  PROVE  NamesAbove(g, d) =
           Climb(d.in, HolderOf(g), [i \in Ids |-> g[i].dir.in], [i \in Ids |-> g[i].name]).names \o d.path
BY DEF NamesAbove, HolderOf

(* A snapshot that was in the directory all through gets the path it has.  *)
LEMMA SteadyPath ==
  ASSUME TreeInv, lpc = "paths", NEW i \in stable, i >= site.mount
  PROVE  InDirectory(Above(tree, tree.info[i].ref) \o tree.info[i].dir.path)
<1>1. tree.info[i].ref = Vol /\ tree.info[i].dir = SnapDir
  BY DEF TreeInv, Steady, Looking, Read
<1>2. i \in There(fs)
  BY DEF TreeInv, Steady, Looking
<1>3. fs \in [Ids -> Root] /\ Hierarchy /\ tree \in RBRoot /\ IsChain(tree, Roots(tree))
      /\ Roots(tree) \subseteq Ids /\ site.mount \in Ids
  BY DEF TreeInv, TreeTypeOK, Grown
<1>4. Linked(Vol)
  BY <1>2, <1>3, ThereIs DEF Hierarchy
<1> DEFINE g == Places(fs)
           A == {m \in Ids : IsAbove(m, Vol)}
           parent == [m \in Ids |-> tree.info[m].ref]
           name == [m \in Ids |-> tree.info[m].name]
           parent2 == [m \in Ids |-> g[m].dir.in]
           name2 == [m \in Ids |-> g[m].name]
<1>5. Vol \in A /\ \A m \in A \ {Top} : Linked(m) /\ fs[m].dir.in \in A
  BY <1>3, <1>4, AboveIs, IdsType
<1>6. \A m \in A \ {Top} : g[m].dir = fs[m].dir /\ g[m].name = fs[m].name /\ g[m].dir.in # 0
  BY <1>5, IdsType DEF Places, PlaceOf, Linked
<1>7. \A m \in A \ {Top} : m >= site.mount =>
        m \in Roots(tree) /\ tree.info[m].ref = fs[m].dir.in /\ tree.info[m].name = fs[m].name
  BY <1>4 DEF TreeInv, InPlace, Looking, Read
<1>8. \A m \in Roots(tree) : m >= site.mount
  <2>1. \A m \in Roots(tree) : site.mount <= m /\ m \in Nat /\ site.mount \in Nat
    BY <1>3, IdsType DEF TreeInv, Behind, Looking
  <2>2. QED
    BY <2>1
<1>9. Known(tree) = {n \in Roots(tree) \ {Top, site.mount} : tree.info[n].ref # 0}
      /\ Graph(Known(tree), parent, name)
  BY <1>3, KnownIs
<1>10. Graph(HolderOf(g), parent2, name2)
  BY <1>3, PlacesType, PlacesGraph
<1>11. Agree(A, Known(tree), parent, name, HolderOf(g), parent2, name2)
  <2>1. ASSUME NEW m \in A PROVE m \in Known(tree) <=> m \in HolderOf(g)
    <3>1. CASE m = Top
      BY <1>9, <3>1 DEF HolderOf
    <3>2. CASE m # Top /\ m >= site.mount
      BY <1>6, <1>7, <1>9, <3>2 DEF HolderOf
    <3>3. CASE ~(m >= site.mount)
      BY <1>8, <1>9, <3>3 DEF HolderOf
    <3>4. QED
      BY <3>1, <3>2, <3>3
  <2>2. ASSUME NEW m \in A, m \in HolderOf(g)
        PROVE  parent[m] \in A /\ parent[m] = parent2[m] /\ name[m] = name2[m]
    <3>1. m \in A \ {Top} /\ m >= site.mount
      BY <2>2 DEF HolderOf
    <3>2. QED
      BY <1>5, <1>6, <1>7, <3>1
  <2> HIDE DEF A, parent, name, parent2, name2
  <2>3. QED
    BY <2>1, <2>2 DEF Agree
<1>12. Vol \in Node
  BY IdsType
<1>13. Climb(Vol, Known(tree), parent, name) = Climb(Vol, HolderOf(g), parent2, name2)
  <2>1. Vol \in A
    BY <1>5
  <2>2. Graph(Known(tree), parent, name)
    BY <1>9
  <2> HIDE DEF A, parent, name, parent2, name2, g
  <2>3. Alike(Vol, A, Known(tree), parent, name, HolderOf(g), parent2, name2)
    BY <1>10, <1>11, <1>12, <2>1, <2>2 DEF Alike
  <2>4. SameClimb(Vol, Known(tree), parent, name, HolderOf(g), parent2, name2)
    BY <2>3, ClimbSame, Zenon
  <2>5. QED
    BY <2>4 DEF SameClimb
<1>14. Above(tree, Vol) \o SnapDir.path = NamesAbove(g, SnapDir)
  <2>1. Above(tree, Vol) = Climb(Vol, Known(tree), parent, name).names
    BY DEF Above, FollowRefTree
  <2>2. SnapDir.in = Vol
    BY DEF SnapDir
  <2>3. NamesAbove(g, SnapDir) = Climb(Vol, HolderOf(g), parent2, name2).names \o SnapDir.path
    BY <2>2, NamesAboveIs
  <2>4. QED
    BY <1>13, <2>1, <2>3
<1>15. InDirectory(NamesAbove(g, SnapDir))
  BY <1>2, ThereIs
<1>16. QED
  BY <1>1, <1>14, <1>15

(* A root without a back reference is noted as deleted.                    *)
LEMMA ResolveDeletedKeeps ==
  ASSUME TreeInv, ResolveDeleted
  PROVE  TreeInv'
<1>1. PICK i : i = Head(unresolved)
  OBVIOUS
<1>2. /\ lpc = "paths" /\ unresolved # <<>> /\ tree.info[i].ref = 0
      /\ tree' = [tree EXCEPT !.info[i].deleted = TRUE] /\ unresolved' = Tail(unresolved)
      /\ UNCHANGED <<fs, dirs, changes, site, lpc, tries, key, list, stable, seen>>
  BY <1>1 DEF ResolveDeleted, Resolving, IsDeleted, Current, kernel, history
<1>3. i \in Ids /\ tree \in RBRoot /\ tree.info \in [Ids -> RootInfo] /\ tree.info[i] \in RootInfo
  BY <1>1, <1>2, HeadIs DEF TreeInv, TreeTypeOK, RBRoot
<1>4. [tree.info[i] EXCEPT !.deleted = TRUE] \in RootInfo
  BY <1>3 DEF RootInfo
<1>5. tree' = [tree EXCEPT !.info[i] = [tree.info[i] EXCEPT !.deleted = TRUE]]
  BY <1>2
<1>6. /\ tree' \in RBRoot /\ tree'.root = tree.root /\ tree'.left = tree.left /\ tree'.right = tree.right
      /\ tree'.info = [tree.info EXCEPT ![i] = [tree.info[i] EXCEPT !.deleted = TRUE]]
  BY <1>3, <1>4, <1>5 DEF RBRoot
<1>7. \A j \in Ids : /\ tree'.info[j].ref = tree.info[j].ref /\ tree'.info[j].dir = tree.info[j].dir
                     /\ tree'.info[j].name = tree.info[j].name /\ tree'.info[j].origin = tree.info[j].origin
                     /\ j # i => tree'.info[j] = tree.info[j]
  BY <1>3, <1>6 DEF RootInfo
<1>8. tree'.info[i].deleted
  BY <1>3, <1>6 DEF RootInfo
<1>9. Notes(i)
  BY <1>1, <1>2, <1>6, <1>7 DEF Notes
<1>10. QED
  BY <1>2, <1>8, <1>9, NotesKeep

(* A path is put together.                                                 *)
LEMMA ResolvePathKeeps ==
  ASSUME TreeInv, ResolvePath
  PROVE  TreeInv'
<1>1. PICK i, path : i = Head(unresolved)
        /\ path = Above(tree, tree.info[i].ref) \o tree.info[i].dir.path
  OBVIOUS
<1>2. /\ lpc = "paths" /\ unresolved # <<>> /\ tree.info[i].ref # 0
      /\ tree' = [tree EXCEPT !.info[i].dirname = path] /\ unresolved' = Tail(unresolved)
      /\ UNCHANGED <<fs, dirs, changes, site, lpc, tries, key, list, stable, seen>>
  BY <1>1 DEF ResolvePath, Resolving, IsDeleted, Current, kernel, history
<1>3. i \in Ids /\ tree \in RBRoot /\ tree.info \in [Ids -> RootInfo] /\ tree.info[i] \in RootInfo
      /\ IsChain(tree, Roots(tree))
  BY <1>1, <1>2, HeadIs, SMTT(30) DEF TreeInv, TreeTypeOK, RBRoot, Grown
<1>4. path \in Seq(STRING)
  <2>1. tree.info[i].ref \in Node /\ tree.info[i].dir.path \in Seq(STRING)
    BY <1>3 DEF RootInfo, Dir
  <2>2. Above(tree, tree.info[i].ref) \in Seq(STRING)
    BY <1>3, <2>1, AboveType
  <2>3. QED
    BY <1>1, <2>1, <2>2
<1>5. [tree.info[i] EXCEPT !.dirname = path] \in RootInfo
  BY <1>3, <1>4 DEF RootInfo
<1>6. tree' = [tree EXCEPT !.info[i] = [tree.info[i] EXCEPT !.dirname = path]]
  BY <1>2
<1>7. /\ tree' \in RBRoot /\ tree'.root = tree.root /\ tree'.left = tree.left /\ tree'.right = tree.right
      /\ tree'.info = [tree.info EXCEPT ![i] = [tree.info[i] EXCEPT !.dirname = path]]
  BY <1>3, <1>5, <1>6 DEF RBRoot
<1>8. \A j \in Ids : /\ tree'.info[j].ref = tree.info[j].ref /\ tree'.info[j].dir = tree.info[j].dir
                     /\ tree'.info[j].name = tree.info[j].name /\ tree'.info[j].origin = tree.info[j].origin
                     /\ j # i => tree'.info[j] = tree.info[j]
  BY <1>3, <1>7 DEF RootInfo
<1>9. tree'.info[i].dirname = path /\ tree'.info[i].deleted = tree.info[i].deleted
  BY <1>3, <1>7 DEF RootInfo
<1>10. Notes(i)
  <2>1. ~tree.info[i].deleted
    BY <1>2, <1>3 DEF TreeInv, Grown
  <2>2. QED
    BY <1>1, <1>2, <1>7, <1>8, <1>9, <2>1 DEF Notes
<1>11. i \in stable /\ i >= site.mount => InDirectory(tree'.info[i].dirname)
  BY <1>1, <1>2, <1>9, SteadyPath
<1>12. QED
  BY <1>1, <1>2, <1>9, <1>10, <1>11, NotesKeep

(* resolveFullPaths has begun to go round in circles.                      *)
LEMMA SpinsKeep ==
  ASSUME TreeInv, ResolveSpins
  PROVE  TreeInv'
<1>1. /\ lpc' = "spinning"
      /\ UNCHANGED <<fs, dirs, changes, site, tries, key, tree, unresolved, list, stable, seen>>
  BY DEF ResolveSpins, kernel, history
<1>2. Roots(tree)' = Roots(tree)
  BY <1>1
<1>3. TreeTypeOK' /\ Hierarchy' /\ Progress' /\ Grown'
  BY <1>1, <1>2 DEF TreeInv, TreeTypeOK, Hierarchy, Linked, Progress, Looking, Grown
<1>4. Ahead' /\ Behind' /\ InPlace' /\ Steady' /\ Composed' /\ Resolved' /\ ListExact'
  BY <1>1 DEF Ahead, Behind, InPlace, Steady, Composed, Resolved, ListExact, Looking
<1>5. QED
  BY <1>3, <1>4 DEF TreeInv

(* What the paths were put together from is the filesystem with what was   *)
(* read pasted in.                                                         *)
LEMMA PathIs ==
  ASSUME TreeInv, lpc = "paths", NEW n \in Node
  PROVE  Above(tree, n) =
           Climb(n, HolderOf(Pasted), [i \in Ids |-> Pasted[i].dir.in], [i \in Ids |-> Pasted[i].name]).names
<1> DEFINE A == Node
           parent == [m \in Ids |-> tree.info[m].ref]
           name == [m \in Ids |-> tree.info[m].name]
           parent2 == [m \in Ids |-> Pasted[m].dir.in]
           name2 == [m \in Ids |-> Pasted[m].name]
<1>1. fs \in [Ids -> Root] /\ tree \in RBRoot /\ IsChain(tree, Roots(tree)) /\ Pasted \in [Ids -> Place]
      /\ Roots(tree) \subseteq Ids
  BY DEF TreeInv, TreeTypeOK, Grown, Composed, Looking
<1>2. Known(tree) = {m \in Roots(tree) \ {Top, site.mount} : tree.info[m].ref # 0}
      /\ Graph(Known(tree), parent, name)
  BY <1>1, KnownIs
<1>3. Graph(HolderOf(Pasted), parent2, name2)
  BY <1>1, PlacesGraph
<1>4. \A m \in Ids : m >= site.mount =>
        Pasted[m].dir.in = tree.info[m].ref /\ Pasted[m].name = tree.info[m].name
  BY DEF Pasted, Passed, Read, InfoPlace, TreeInv, Grown
<1>5. \A m \in Roots(tree) : m >= site.mount
  <2>1. \A m \in Roots(tree) : site.mount <= m /\ m \in Nat /\ site.mount \in Nat
    BY <1>1, IdsType DEF TreeInv, Behind, Looking, TreeTypeOK
  <2>2. QED
    BY <2>1
<1>6. \A m \in Ids \ Roots(tree) : tree.info[m].ref = 0
  BY DEF TreeInv, Grown, NoInfo
<1>7. Agree(A, Known(tree), parent, name, HolderOf(Pasted), parent2, name2)
  <2>1. ASSUME NEW m \in A PROVE m \in Known(tree) <=> m \in HolderOf(Pasted)
    BY <1>1, <1>2, <1>4, <1>5, <1>6 DEF HolderOf
  <2>2. ASSUME NEW m \in A, m \in HolderOf(Pasted)
        PROVE  parent[m] \in A /\ parent[m] = parent2[m] /\ name[m] = name2[m]
    <3>1. m \in Ids /\ m >= site.mount
      BY <2>2 DEF HolderOf
    <3>2. parent[m] \in A
      BY <1>2, <3>1 DEF Graph
    <3>3. QED
      BY <1>4, <3>1, <3>2
  <2> HIDE DEF A, parent, name, parent2, name2
  <2>3. QED
    BY <2>1, <2>2 DEF Agree
<1>8. Climb(n, Known(tree), parent, name) = Climb(n, HolderOf(Pasted), parent2, name2)
  <2>1. n \in A
    OBVIOUS
  <2>2. Graph(Known(tree), parent, name)
    BY <1>2
  <2> HIDE DEF A, parent, name, parent2, name2
  <2>3. Alike(n, A, Known(tree), parent, name, HolderOf(Pasted), parent2, name2)
    BY <1>3, <1>7, <2>1, <2>2 DEF Alike
  <2>4. SameClimb(n, Known(tree), parent, name, HolderOf(Pasted), parent2, name2)
    BY <2>3, ClimbSame, Zenon
  <2>5. QED
    BY <2>4 DEF SameClimb
<1>9. QED
  BY <1>8 DEF Above, FollowRefTree

(* What is kept when every path is resolved. *)
Managing == {i \in Roots(tree) : IsManaged(tree.info[i])}

(* It is what ListExact says, in the filesystem with what was read pasted  *)
(* in.                                                                     *)
LEMMA FinishExact ==
  ASSUME TreeInv, lpc = "paths", unresolved = <<>>
  PROVE  /\ \A i \in stable : i >= site.mount => i \in Managing
         /\ Pasted \in seen
         /\ \A i \in Managing : i \in Matching(Pasted)
         /\ LET order == InOrder(tree)
            IN \A j \in 2 .. Len(order) : order[j - 1] < order[j]
<1>1. ToSet(unresolved) = {}
  BY DEF ToSet
<1>2. ASSUME NEW i \in stable, i >= site.mount PROVE i \in Managing
  <2>1. i \in Roots(tree) /\ tree.info[i].origin = Vol /\ tree.info[i].ref = Vol
        /\ tree.info[i].name \in Managed /\ InDirectory(tree.info[i].dirname)
    BY <1>1, <1>2 DEF TreeInv, Steady, Looking, Read
  <2>2. ~tree.info[i].deleted
    BY <2>1 DEF TreeInv, TreeTypeOK, Grown, Vol
  <2>3. QED
    BY <2>1, <2>2 DEF Managing, IsManaged
<1>3. Pasted \in seen
  BY DEF TreeInv, Composed, Looking
<1>4. ASSUME NEW i \in Managing PROVE i \in Matching(Pasted)
  <2>1. i \in Roots(tree) /\ i \in Ids /\ tree.info[i] \in RootInfo /\ tree.info[i].origin = Vol
        /\ ~tree.info[i].deleted /\ tree.info[i].name \in Managed /\ InDirectory(tree.info[i].dirname)
    BY DEF Managing, IsManaged, TreeInv, TreeTypeOK, RBRoot
  <2>2. fs[i].origin = Vol
    BY <2>1 DEF TreeInv, Grown
  <2>3. tree.info[i].ref # 0
        /\ tree.info[i].dirname = Above(tree, tree.info[i].ref) \o tree.info[i].dir.path
    BY <1>1, <2>1 DEF TreeInv, Resolved
  <2>4. i >= site.mount
    <3>1. site.mount <= i /\ i \in Nat /\ site.mount \in Nat
      BY <2>1, IdsType DEF TreeInv, Behind, Looking, TreeTypeOK
    <3>2. QED
      BY <3>1
  <2>5. Pasted[i].dir = tree.info[i].dir /\ Pasted[i].name = tree.info[i].name
        /\ tree.info[i].dir.in = tree.info[i].ref
    BY <2>1, <2>4 DEF Pasted, Passed, Read, InfoPlace, TreeInv, Grown
  <2>6. tree.info[i].ref \in Node
    BY <2>1 DEF RootInfo
  <2>7. tree.info[i].dirname = NamesAbove(Pasted, Pasted[i].dir)
    <3> DEFINE path == Climb(tree.info[i].ref, HolderOf(Pasted), [j \in Ids |-> Pasted[j].dir.in],
                             [j \in Ids |-> Pasted[j].name]).names
    <3>1. tree.info[i].dirname = path \o tree.info[i].dir.path
      BY <2>3, <2>6, PathIs
    <3>2. NamesAbove(Pasted, tree.info[i].dir) = path \o tree.info[i].dir.path
      BY <2>5, NamesAboveIs
    <3>3. QED
      BY <2>5, <3>1, <3>2
  <2>8. IsSnapshot(Pasted, i)
    BY <2>1, <2>2, <2>3, <2>5 DEF IsSnapshot
  <2>9. InDirectory(NamesAbove(Pasted, Pasted[i].dir))
    BY <2>1, <2>7
  <2>10. QED
    BY <2>1, <2>8, <2>9 DEF Matching
<1>5. Walk(InOrder(tree), Roots(tree))
  BY InOrderIs DEF TreeInv, TreeTypeOK, Grown
<1>6. QED
  BY <1>2, <1>3, <1>4, <1>5 DEF Walk

(* The lookup returns.                                                     *)
LEMMA FinishKeeps ==
  ASSUME TreeInv, Finish
  PROVE  TreeInv'
<1>1. /\ lpc = "paths" /\ unresolved = <<>> /\ lpc' = "done"
      /\ UNCHANGED <<fs, dirs, changes, site, tries, key, tree, unresolved, stable, seen>>
  BY DEF Finish, kernel, history
<1>2. list' = Managing
  BY DEF Finish, Managing
<1>3. Roots(tree)' = Roots(tree) /\ Managing' = Managing /\ Managing \subseteq Roots(tree)
  BY <1>1 DEF Managing, IsManaged, InDirectory
<1>4. TreeTypeOK' /\ Hierarchy' /\ Grown'
  BY <1>1, <1>2, <1>3 DEF TreeInv, TreeTypeOK, Hierarchy, Linked, Grown
<1>5. Progress'
  <2>1. list' = Managing'
    BY <1>2, <1>3
  <2>2. QED
    BY <1>1, <2>1 DEF Progress, Looking, Managing
<1>6. Ahead' /\ Behind' /\ InPlace' /\ Steady' /\ Composed' /\ Resolved'
  BY <1>1 DEF Ahead, Behind, InPlace, Steady, Composed, Resolved, Looking
<1>7. ListExact'
  <2>1. PICK g : g = Pasted
    OBVIOUS
  <2>2. g \in seen' /\ \A i \in Managing : i \in Matching(g)'
    <3>1. \A i \in Managing : i \in Matching(g)
      BY <1>1, <2>1, FinishExact
    <3>2. \A i : i \in Matching(g)' <=> i \in Matching(g)
      BY <1>1 DEF Matching, IsSnapshot, InDirectory, NamesAbove
    <3>3. QED
      BY <1>1, <2>1, <3>1, <3>2, FinishExact
  <2>3. \A i \in stable' : i >= site'.mount => i \in list'
    BY <1>1, <1>2, FinishExact
  <2>4. InOrder(tree)' = InOrder(tree)
    BY <1>1
  <2>5. LET order == InOrder(tree)'
        IN \A j \in 2 .. Len(order) : order[j - 1] < order[j]
    BY <1>1, <2>4, FinishExact
  <2>6. QED
    BY <1>2, <2>2, <2>3, <2>5 DEF ListExact
<1>8. QED
  BY <1>4, <1>5, <1>6, <1>7 DEF TreeInv

(* The invariant holds at first, of every filesystem to begin with,        *)
LEMMA TreeInvInit == TreeInit => TreeInv
<1> SUFFICES ASSUME TreeInit PROVE TreeInv
  OBVIOUS
<1>1. PICK s \in Starts : fs = s.fs /\ dirs = s.dirs
                          /\ site = [mount |-> s.mount, directory |-> s.directory]
  BY DEF TreeInit
<1>2. IsFilesystem(s)
  BY StartsAssumption
<1>3. /\ changes = 0 /\ lpc = "idle" /\ tries = 0 /\ key = 0 /\ tree = NewRBRoot /\ unresolved = <<>>
      /\ list = {} /\ stable = {} /\ seen = {}
  BY DEF TreeInit
<1>4. Roots(tree) = {} /\ IsChain(tree, Roots(tree)) /\ tree \in RBRoot
      /\ \A j \in Ids : tree.info[j] = NoInfo
  BY <1>3, NewIs
<1>5. TreeTypeOK
  <2>1. 0 \in 0 .. KeyOf(MaxRoots, MaxRoots) + 1 /\ 0 \in 0 .. MaxChanges /\ 0 \in 0 .. Tries
        /\ <<>> \in Seq(Ids)
    BY LastKeyIs, TreeAssumption
  <2>2. QED
    BY <1>1, <1>2, <1>3, <1>4, <2>1 DEF IsFilesystem, TreeTypeOK
<1>6. Hierarchy
  BY <1>1, <1>2 DEF IsFilesystem, Hierarchy, Linked
<1>7. Grown
  <2>1. NoInfo.ref = NoInfo.dir.in /\ NoInfo.name = NoName /\ NoInfo.dir = NoDir /\ ~NoInfo.deleted
        /\ NoInfo.origin # Vol
    BY DEF NoInfo, NoDir, Vol
  <2>2. QED
    BY <1>4, <2>1 DEF Grown
<1>8. Progress /\ Ahead /\ Behind /\ InPlace /\ Steady /\ Composed /\ Resolved /\ ListExact
  BY <1>3 DEF Progress, Ahead, Behind, InPlace, Steady, Composed, Resolved, ListExact, Looking
<1>9. QED
  BY <1>5, <1>6, <1>7, <1>8 DEF TreeInv

(* when nothing changes,                                                   *)
LEMMA StutterKeeps ==
  ASSUME TreeInv, UNCHANGED treeVars
  PROVE  TreeInv'
<1>1. UNCHANGED <<fs, dirs, changes, site, lpc, tries, key, tree, unresolved, list, stable, seen>>
  BY DEF treeVars
<1>2. Roots(tree)' = Roots(tree)
  BY <1>1
<1>3. TreeTypeOK' /\ Hierarchy' /\ Progress' /\ Grown' /\ Ahead' /\ Behind'
  BY <1>1, <1>2 DEF TreeInv, TreeTypeOK, Hierarchy, Linked, Progress, IsManaged, InDirectory, Looking,
     Grown, Ahead, Behind
<1>4. InPlace' /\ Steady' /\ Composed' /\ Resolved' /\ ListExact'
  <2>1. InPlace' = InPlace
    BY <1>1 DEF InPlace, Looking, Linked, IsAbove, Read, Roots
  <2>2. Steady' = Steady
    BY <1>1 DEF Steady, Looking, There, Read, NamesAbove, InDirectory, Roots
  <2>3. Composed' = Composed
    BY <1>1 DEF Composed, Looking, Pasted, Shown, Passed, Read, InfoPlace
  <2>4. Resolved' = Resolved
    BY <1>1 DEF Resolved, Roots, Above, FollowRefTree, Known
  <2>5. ListExact' = ListExact
    BY <1>1 DEF ListExact, Matching, IsSnapshot, InDirectory, NamesAbove
  <2>6. QED
    BY <2>1, <2>2, <2>3, <2>4, <2>5 DEF TreeInv
<1>5. QED
  BY <1>3, <1>4 DEF TreeInv

(* and after every step of the lookup or of the others.                    *)
LEMMA TreeInvStep == TreeInv /\ [TreeNext]_treeVars => TreeInv'
<1> SUFFICES ASSUME TreeInv, [TreeNext]_treeVars PROVE TreeInv'
  OBVIOUS
<1>1. CASE Others
  BY <1>1, OthersKeeps
<1>2. CASE Call \/ OpenFails \/ LookupFails
  BY <1>2, RestartKeeps
<1>3. CASE Open
  BY <1>3, OpenKeeps
<1>4. CASE WalkBatch
  BY <1>4, WalkBatchKeeps
<1>5. CASE WalkEnds
  BY <1>5, WalkEndsKeeps
<1>6. CASE ResolveDeleted
  BY <1>6, ResolveDeletedKeeps
<1>7. CASE ResolvePath
  BY <1>7, ResolvePathKeeps
<1>8. CASE ResolveSpins
  BY <1>8, SpinsKeep
<1>9. CASE Finish
  BY <1>9, FinishKeeps
<1>10. CASE Spin \/ UNCHANGED treeVars
  BY <1>10, StutterKeeps DEF Spin
<1>11. QED
  BY <1>1, <1>2, <1>3, <1>4, <1>5, <1>6, <1>7, <1>8, <1>9, <1>10 DEF TreeNext, Lookup

(* So it always holds.                                                     *)
LEMMA TreeIsSound == TreeSpec => []TreeInv
BY TreeInvInit, TreeInvStep, PTL DEF TreeSpec

(* The filesystem and the lookup stay within their types, whatever the     *)
(* others do, for every filesystem to begin with, every size of batch and  *)
(* any number of tries: the iterators of the search tree walk without end  *)
(* over none of the trees that BuildRBTree makes, and the lookup gives up  *)
(* after its last try (SubvolumeSearch, ResolveSubvolumeDetails).          *)
THEOREM SearchKeepsTypes == TreeSpec => []TreeTypeOK
<1>1. TreeInv => TreeTypeOK
  BY DEF TreeInv
<1>2. QED
  BY <1>1, TreeIsSound, PTL

(* The list that retention and mirrors work from has every snapshot that   *)
(* was in the snapshot directory all through the try, though the others    *)
(* change the filesystem between any two searches and any two paths, and   *)
(* nothing that had no such path when each subvolume is taken from some    *)
(* moment of the try (walkBtrfsTreeFd, resolveFullPaths).                  *)
THEOREM SearchFindsExactly == TreeSpec => []ListExact
<1>1. TreeInv => ListExact
  BY DEF TreeInv
<1>2. QED
  BY <1>1, TreeIsSound, PTL

(* A set of roots below one, in which a parent comes before its child. *)
Joined(t, root, B) ==
  \A m \in B : LET p == t.info[m].ref IN m = root \/ p = root \/ (p \in B /\ p < m)

(* The parents of those in it lead to the root. *)
LeadsUp(up, t, B, root) ==
  /\ \A n \in Ids : t.info[n].ref \notin B => ~up[n]
  /\ \A n \in Ids : t.info[n].ref \in B =>
       LET p == t.info[n].ref IN up[n] <=> p = root \/ t.info[p].ref = root \/ up[p]

(* In a set where parents come first, all lead to the root.                *)
LEMMA LeadsUpIs ==
  ASSUME NEW t \in RBRoot, NEW root \in Ids, NEW B \in SUBSET Ids, Joined(t, root, B),
         NEW up, LeadsUp(up, t, B, root), NEW i \in Ids
  PROVE  up[i] <=> t.info[i].ref \in B
<1>1. MaxRoots \in Nat /\ Node = 0 .. MaxRoots /\ Ids = 1 .. MaxRoots
  BY TreeAssumption DEF Node, Ids
<1>0. \A m \in B : m \in Ids /\ m \in Nat /\ m <= MaxRoots
  BY <1>1
<1> DEFINE Led(m) == m = root \/ t.info[m].ref = root \/ up[m]
           P == {k \in 0 .. MaxRoots : \A m \in B : m <= k => Led(m)}
<1>2. 0 \in P
  BY <1>1
<1>3. ASSUME NEW k \in P, k < MaxRoots PROVE k + 1 \in P
  <2>1. k \in Nat /\ k + 1 \in 0 .. MaxRoots /\ \A m \in B : m <= k => Led(m)
    BY <1>1, <1>3
  <2>2. ASSUME NEW m \in B, m <= k + 1 PROVE Led(m)
    <3> DEFINE p == t.info[m].ref
    <3>1. CASE m = root \/ p = root
      BY <3>1
    <3>2. CASE p \in B /\ p < m
      <4>1. p <= k /\ m \in Ids
        <5>1. p \in Nat /\ m \in Nat /\ m \in Ids
          BY <1>0, <3>2
        <5>2. QED
          BY <2>1, <2>2, <3>2, <5>1
      <4>2. Led(p)
        BY <2>1, <3>2, <4>1
      <4>3. up[m]
        BY <3>2, <4>1, <4>2 DEF LeadsUp
      <4>4. QED
        BY <4>3
    <3>3. QED
      BY <3>1, <3>2 DEF Joined
  <2> HIDE DEF Led
  <2>3. QED
    BY <2>1, <2>2
<1>4. P = 0 .. MaxRoots
  <2>1. P \subseteq 0 .. MaxRoots
    OBVIOUS
  <2> HIDE DEF P
  <2>2. QED
    BY <1>1, <1>2, <1>3, <2>1, UpTo
<1>5. \A m \in B : Led(m)
  <2>1. MaxRoots \in P /\ \A m \in B : m <= MaxRoots
    BY <1>0, <1>1, <1>4
  <2> HIDE DEF Led
  <2>2. QED
    BY <2>1
<1>6. QED
  BY <1>5 DEF LeadsUp

(* What is found to be below the root: it, its children, and those whose   *)
(* parent is in the new tree and has its own there.                        *)
LEMMA IsBelowIs ==
  ASSUME NEW t \in RBRoot, NEW new \in RBRoot, NEW B, IsChain(new, B),
         NEW root \in Ids, Joined(t, root, B), NEW i \in Ids
  PROVE  LET p == t.info[i].ref
         IN IsBelow(t, new, i, root) <=> i = root \/ p = root \/ (p \in B /\ t.info[p].ref \in B)
<1> DEFINE ref(n) == t.info[n].ref
           Up(f) == [n \in Node |->
              IF n = 0 THEN FALSE
              ELSE IF t.info[n].ref = 0 THEN FALSE
              ELSE LET p == LookupRoot(new, t.info[n].ref)
                   IN p # 0 /\ (p = root \/ t.info[p].ref = root \/ f[p])]
           w == [n \in Node |-> n # 0 /\ ref(n) \in B]
           up == CHOOSE f : f = Up(f)
<1>1. IsBelow(t, new, i, root) <=> i = root \/ ref(i) = root \/ up[LookupRoot(new, ref(i))]
  BY DEF IsBelow
<1>2. B \subseteq Ids /\ 0 \notin B /\ Ids \subseteq Node /\ 0 \in Node
      /\ \A n \in Node : n = 0 \/ n \in Ids
  BY IdsType DEF IsChain, Ids, Node
<1>3. \A n \in Ids : ref(n) \in Node
  BY DEF RBRoot, RootInfo
<1>4. \A n \in Node : LookupRoot(new, n) = IF n \in B THEN n ELSE 0
  BY LookupRootIs
<1> HIDE DEF ref
<1>5. \A p \in B : p = root \/ ref(p) = root \/ ref(p) \in B
  BY DEF Joined, ref
<1>6. w = Up(w)
  <2> SUFFICES ASSUME NEW n \in Node PROVE w[n] = Up(w)[n]
    OBVIOUS
  <2>1. CASE n = 0
    BY <2>1
  <2>2. CASE n # 0 /\ ref(n) \notin B
    <3>1. n \in Ids /\ (ref(n) = 0 \/ LookupRoot(new, ref(n)) = 0)
      BY <1>2, <1>3, <1>4, <2>2
    <3>2. ~w[n] /\ w[n] \in BOOLEAN
      BY <2>2
    <3>3. Up(w)[n] = FALSE
      BY <2>2, <3>1 DEF ref
    <3>4. QED
      BY <3>2, <3>3
  <2>3. CASE n # 0 /\ ref(n) \in B
    <3>1. n \in Ids /\ ref(n) # 0 /\ LookupRoot(new, ref(n)) = ref(n) /\ ref(n) \in Node
      BY <1>2, <1>3, <1>4, <2>3
    <3>2. w[n] = TRUE
      BY <2>3
    <3>3. ref(ref(n)) \in B => w[ref(n)]
      BY <3>1
    <3>4. Up(w)[n] = TRUE
      BY <1>5, <2>3, <3>1, <3>3 DEF ref
    <3>5. QED
      BY <3>2, <3>4
  <2>4. QED
    BY <2>1, <2>2, <2>3
<1> HIDE DEF w
<1>7. up = Up(up)
  BY <1>6
<1> HIDE DEF up
<1>8. ASSUME NEW n \in Node
      PROVE  up[n] <=> /\ n # 0 /\ t.info[n].ref # 0
                       /\ LET p == LookupRoot(new, t.info[n].ref)
                          IN p # 0 /\ (p = root \/ t.info[p].ref = root \/ up[p])
  <2>1. up[n] = Up(up)[n]
    BY <1>7
  <2>2. Up(up)[n] <=> /\ n # 0 /\ t.info[n].ref # 0
                      /\ LET p == LookupRoot(new, t.info[n].ref)
                         IN p # 0 /\ (p = root \/ t.info[p].ref = root \/ up[p])
    BY Zenon
  <2> HIDE DEF Up
  <2>3. QED
    BY <2>1, <2>2
<1>9. LeadsUp(up, t, B, root)
  <2>1. ASSUME NEW n \in Ids, ref(n) \notin B PROVE ~up[n]
    <3>1. n \in Node /\ n # 0 /\ (ref(n) = 0 \/ LookupRoot(new, ref(n)) = 0)
      BY <1>2, <1>3, <1>4, <2>1, IdsType
    <3>2. QED
      BY <1>8, <3>1 DEF ref
  <2>2. ASSUME NEW n \in Ids, ref(n) \in B
        PROVE  up[n] <=> ref(n) = root \/ ref(ref(n)) = root \/ up[ref(n)]
    <3>1. n \in Node /\ n # 0 /\ ref(n) # 0 /\ LookupRoot(new, ref(n)) = ref(n)
      BY <1>2, <1>3, <1>4, <2>2, IdsType
    <3>2. t.info[n].ref = ref(n) /\ \A p : t.info[p].ref = ref(p)
      BY DEF ref
    <3>3. up[n] <=> LET p == ref(n) IN p # 0 /\ (p = root \/ ref(p) = root \/ up[p])
      BY <1>8, <3>1, <3>2
    <3>4. QED
      BY <3>1, <3>3
  <2>3. QED
    BY <2>1, <2>2 DEF LeadsUp, ref
<1>10. ~up[0]
  BY <1>2, <1>8
<1>11. CASE ref(i) \in B
  <2>1. LookupRoot(new, ref(i)) = ref(i) /\ ref(i) \in Ids
    BY <1>2, <1>3, <1>4, <1>11
  <2>2. up[ref(i)] <=> ref(ref(i)) \in B
    BY <1>2, <1>9, <2>1, LeadsUpIs DEF ref
  <2>3. QED
    BY <1>1, <1>11, <2>1, <2>2 DEF ref
<1>12. CASE ref(i) \notin B
  <2>1. LookupRoot(new, ref(i)) = 0
    BY <1>3, <1>4, <1>12
  <2>2. QED
    BY <1>1, <1>10, <1>12, <2>1 DEF ref
<1>13. QED
  BY <1>11, <1>12

(* A walk comes to a root after all that are less.                         *)
LEMMA WalkAscends ==
  ASSUME NEW s, NEW N, Walk(s, N)
  PROVE  \A j, k \in 1 .. Len(s) : j < k => s[j] < s[k]
<1>1. s \in Seq(Ids) /\ Len(s) \in Nat /\ \A j \in 2 .. Len(s) : s[j - 1] < s[j]
  BY DEF Walk
<1>2. \A j \in 1 .. Len(s) : s[j] \in Nat
  <2>1. \A j \in 1 .. Len(s) : s[j] \in Ids
    BY <1>1
  <2>2. QED
    BY <2>1, IdsType
<1> DEFINE P == {k \in 0 .. Len(s) : \A j, m \in 1 .. Len(s) : j < m /\ m <= k => s[j] < s[m]}
<1>3. 0 \in P /\ P \subseteq 0 .. Len(s)
  BY <1>1
<1>4. ASSUME NEW k \in P, k < Len(s) PROVE k + 1 \in P
  <2>1. k \in Nat /\ k + 1 \in 0 .. Len(s) /\ \A j, m \in 1 .. Len(s) : j < m /\ m <= k => s[j] < s[m]
    BY <1>1, <1>4
  <2>2. ASSUME NEW j \in 1 .. Len(s), NEW m \in 1 .. Len(s), j < m, m <= k + 1
        PROVE  s[j] < s[m]
    <3>1. CASE m <= k
      BY <2>1, <2>2, <3>1
    <3>2. CASE m = k + 1
      <4>1. k \in 1 .. Len(s) /\ m \in 2 .. Len(s) /\ m - 1 = k /\ (j = k \/ j < k)
        BY <1>1, <2>1, <2>2, <3>2
      <4>2. s[k] < s[m]
        BY <1>1, <4>1
      <4>3. j = k \/ s[j] < s[k]
        BY <2>1, <4>1
      <4>4. s[j] \in Nat /\ s[k] \in Nat /\ s[m] \in Nat
        BY <1>2, <4>1
      <4>5. QED
        BY <4>2, <4>3, <4>4
    <3>3. QED
      BY <1>1, <2>1, <2>2, <3>1, <3>2
  <2>3. QED
    BY <2>1, <2>2
<1>5. P = 0 .. Len(s)
  <2> HIDE DEF P
  <2>1. QED
    BY <1>1, <1>3, <1>4, UpTo
<1>6. Len(s) \in P
  BY <1>1, <1>5
<1>7. QED
  BY <1>1, <1>6

(* What FilterFromRoot has taken of the first k roots.                     *)
Selected(t, root, s, k, B) ==
  /\ B \subseteq {s[j] : j \in 1 .. k} /\ Joined(t, root, B)
  /\ \A j \in 1 .. k : LET p == t.info[s[j]].ref
                       IN s[j] = root \/ p = root \/ (p \in B /\ p < s[j] /\ root < s[j]) => s[j] \in B

(* The next root is selected, or not.                                      *)
LEMMA SelectsNext ==
  ASSUME NEW t \in RBRoot, NEW N \in SUBSET Ids, NEW root \in N, NEW s, Walk(s, N),
         NEW k \in 1 .. Len(s), NEW x \in RBRoot, NEW B, IsChain(x, B),
         Selected(t, root, s, k - 1, B)
  PROVE  LET y == IF IsBelow(t, x, s[k], root) THEN InsertRoot(x, s[k]) ELSE x
         IN y \in RBRoot /\ \E C : IsChain(y, C) /\ Selected(t, root, s, k, C)
<1> DEFINE i == s[k]
           p == t.info[i].ref
           y == IF IsBelow(t, x, i, root) THEN InsertRoot(x, i) ELSE x
           C == IF IsBelow(t, x, i, root) THEN B \cup {i} ELSE B
<1>1. s \in Seq(Ids) /\ ToSet(s) = N /\ Len(s) \in Nat /\ i \in Ids /\ k \in Nat /\ k - 1 \in Nat
  BY DEF Walk
<1>2. \A j \in 1 .. k - 1 : j \in 1 .. Len(s) /\ s[j] \in Ids /\ s[j] < i
  <2>1. \A j \in 1 .. k - 1 : j \in 1 .. Len(s) /\ j < k
    BY <1>1
  <2>2. QED
    BY <1>1, <2>1, WalkAscends
<1>3. B \subseteq Ids /\ i \notin B /\ \A m \in B : m < i
  <2>1. \A m \in B : \E j \in 1 .. k - 1 : m = s[j]
    BY DEF Selected
  <2>2. \A m \in B : m \in Ids /\ m < i
    BY <1>2, <2>1
  <2>3. ~(i < i)
    <3>1. i \in Nat
      BY <1>1, IdsType
    <3> HIDE DEF i
    <3>2. QED
      BY <3>1
  <2>4. QED
    BY <2>2, <2>3
<1>4. y \in RBRoot /\ IsChain(y, C)
  <2>1. CASE IsBelow(t, x, i, root)
    BY <1>1, <1>3, <2>1, InsertRootIs
  <2>2. CASE ~IsBelow(t, x, i, root)
    BY <2>2
  <2>3. QED
    BY <2>1, <2>2
<1>5. Joined(t, root, B) /\ root \in Ids
  BY DEF Selected
<1>6. IsBelow(t, x, i, root) <=> i = root \/ p = root \/ (p \in B /\ t.info[p].ref \in B)
  BY <1>1, <1>5, IsBelowIs
<1> HIDE DEF i, p
<1>7. Joined(t, root, C)
  <2>1. ASSUME NEW m \in C
        PROVE  LET q == t.info[m].ref IN m = root \/ q = root \/ (q \in C /\ q < m)
    <3>1. CASE m \in B
      BY <1>5, <3>1 DEF Joined
    <3>2. CASE m = i /\ IsBelow(t, x, i, root)
      BY <1>3, <1>6, <3>2 DEF p
    <3>3. QED
      BY <3>1, <3>2
  <2> HIDE DEF C
  <2>2. QED
    BY <2>1 DEF Joined
<1>8. C \subseteq {s[j] : j \in 1 .. k}
  <2>1. \A j \in 1 .. k - 1 : j \in 1 .. k
    BY <1>1
  <2>2. k \in 1 .. k
    BY <1>1
  <2>3. QED
    BY <2>1, <2>2 DEF Selected, i
<1>9. ASSUME NEW j \in 1 .. k, LET q == t.info[s[j]].ref
                               IN s[j] = root \/ q = root \/ (q \in C /\ q < s[j] /\ root < s[j])
      PROVE  s[j] \in C
  <2>1. CASE j \in 1 .. k - 1
    <3> DEFINE m == s[j]
               q == t.info[m].ref
    <3>1. m < i /\ m \in Nat /\ i \in Nat
      BY <1>1, <1>2, <2>1, IdsType
    <3>2. m = root \/ q = root \/ (q \in B /\ q < m /\ root < m)
      <4>1. q = i => ~(q < m)
        BY <3>1
      <4>2. QED
        BY <1>9, <4>1
    <3>3. QED
      BY <2>1, <3>2 DEF Selected
  <2>2. CASE j = k
    <3>1. i = root \/ p = root \/ (p \in C /\ p < i /\ root < i)
      BY <1>9, <2>2 DEF i, p
    <3>2. ASSUME p \in C, p < i, root < i, p # root PROVE p \in B /\ t.info[p].ref \in B
      <4>1. p \in B
        <5>1. ~(i < i)
          BY <1>1, IdsType
        <5>2. QED
          BY <3>2, <5>1
      <4>2. root \in B
        <5>1. PICK n \in 1 .. Len(s) : s[n] = root
          BY <1>1 DEF ToSet
        <5>2. n < k
          <6>1. n # k
            <7>1. ~(i < i)
              BY <1>1, IdsType
            <7>2. QED
              BY <3>2, <5>1, <7>1 DEF i
          <6>2. ~(k < n)
            <7>1. k < n => i < root
              BY <5>1, WalkAscends DEF i
            <7>2. ~(i < root)
              BY <1>1, <1>5, <3>2, IdsType
            <7>3. QED
              BY <7>1, <7>2
          <6>3. QED
            BY <1>1, <6>1, <6>2
        <5>3. n \in 1 .. k - 1
          BY <1>1, <5>2
        <5>4. QED
          BY <5>1, <5>3 DEF Selected
      <4>3. QED
        BY <1>5, <3>2, <4>1, <4>2 DEF Joined
    <3>3. IsBelow(t, x, i, root)
      BY <1>6, <3>1, <3>2
    <3>4. QED
      BY <2>2, <3>3 DEF i
  <2>3. QED
    BY <1>1, <2>1, <2>2
<1>10. Selected(t, root, s, k, C)
  <2> HIDE DEF C
  <2>1. QED
    BY <1>7, <1>8, <1>9 DEF Selected
<1>11. QED
  <2> HIDE DEF C
  <2>1. QED
    BY <1>4, <1>10 DEF i

(* So FilterFromRoot makes a chain of what is selected of all.             *)
LEMMA FilterIs ==
  ASSUME NEW t \in RBRoot, NEW N, IsChain(t, N), NEW root \in N
  PROVE  \E B : Roots(FilterFromRoot(t, root)) = B
                /\ Selected(t, root, InOrder(t), Len(InOrder(t)), B)
<1> DEFINE s == InOrder(t)
           L == Len(s)
           Up(f) == [k \in 0 .. L |->
                       IF k = 0 THEN Empty(t)
                       ELSE LET new == f[k - 1]
                            IN IF IsBelow(t, new, s[k], root) THEN InsertRoot(new, s[k]) ELSE new]
           upTo == CHOOSE f : f = Up(f)
           put(k, x) == IF IsBelow(t, x, s[k], root) THEN InsertRoot(x, s[k]) ELSE x
<1>1. FilterFromRoot(t, root) = upTo[L]
  BY DEF FilterFromRoot
<1>2. Walk(s, N)
  BY InOrderIs
<1> HIDE DEF s
<1>3. L \in Nat /\ N \in SUBSET Ids /\ \A k \in 1 .. L : s[k] \in Ids
  BY <1>2 DEF Walk, IsChain
<1>4. Empty(t) \in RBRoot /\ IsChain(Empty(t), {})
  <2>1. Empty(t) = [root |-> 0, left |-> Nil, right |-> Nil, info |-> t.info]
    BY DEF Empty, NewRBRoot
  <2>2. Nil \in [Ids -> Node] /\ 0 \in Node /\ t.info \in [Ids -> RootInfo]
    BY IdsType DEF Nil, RBRoot
  <2>3. \A n \in Ids : Nil[n] = 0
    BY DEF Nil
  <2>4. QED
    BY <2>1, <2>2, <2>3 DEF RBRoot, IsChain
<1>5. \A k \in 1 .. L : \A x \in RBRoot : put(k, x) \in RBRoot
  BY <1>3, InsertRootType
<1> HIDE DEF L
<1>6. upTo = Up(upTo)
  <2> DEFINE next == [k \in 1 .. L |-> [x \in RBRoot |-> put(k, x)]]
  <2>1. Steps(next, L, RBRoot)
    BY <1>5 DEF Steps
  <2>2. \A k \in 1 .. L : \A x \in RBRoot : next[k][x] = put(k, x)
    OBVIOUS
  <2> HIDE DEF next
  <2>3. PICK f : Iterates(f, L, RBRoot, Empty(t), next)
    BY <1>3, <1>4, <2>1, RecursionUp, Zenon
  <2>4. f \in [0 .. L -> RBRoot] /\ f[0] = Empty(t) /\ \A k \in 1 .. L : f[k] = next[k][f[k - 1]]
    BY <2>3 DEF Iterates
  <2>5. \A k \in 0 .. L : k = 0 \/ (k # 0 /\ k \in 1 .. L /\ k - 1 \in 0 .. L)
    BY <1>3
  <2>6. \A k \in 1 .. L : f[k] = put(k, f[k - 1])
    <3>1. \A k \in 1 .. L : f[k - 1] \in RBRoot
      BY <1>3, <2>4
    <3> HIDE DEF put
    <3>2. QED
      BY <2>2, <2>4, <3>1
  <2>7. f = Up(f)
    BY <2>4, <2>5, <2>6
  <2> HIDE DEF Up
  <2>8. QED
    BY <2>7
<1>7. upTo[0] = Empty(t)
  <2>1. 0 \in 0 .. L
    BY <1>3
  <2> HIDE DEF upTo
  <2>2. QED
    BY <1>6, <2>1
<1>8. \A k \in 1 .. L : upTo[k] = put(k, upTo[k - 1])
  <2>1. \A k \in 1 .. L : k \in 0 .. L /\ k # 0
    BY <1>3
  <2> HIDE DEF upTo
  <2>2. QED
    BY <1>6, <2>1
<1> HIDE DEF upTo, Up
<1> DEFINE Good(x, k) == x \in RBRoot /\ \E B : IsChain(x, B) /\ Selected(t, root, s, k, B)
           P == {k \in 0 .. L : Good(upTo[k], k)}
<1>9. 0 \in P
  <2>1. Selected(t, root, s, 0, {})
    BY DEF Selected, Joined
  <2>2. QED
    BY <1>3, <1>4, <1>7, <2>1
<1>10. ASSUME NEW k \in P, k < L PROVE k + 1 \in P
  <2> DEFINE n == k + 1
  <2>1. n \in 1 .. L /\ n \in 0 .. L /\ n - 1 = k
    BY <1>3, <1>10
  <2>2. PICK B : upTo[k] \in RBRoot /\ IsChain(upTo[k], B) /\ Selected(t, root, s, n - 1, B)
    BY <2>1
  <2> HIDE DEF n
  <2>3. n \in 1 .. Len(s) /\ root \in N /\ N \in SUBSET Ids
    BY <1>3, <2>1 DEF L
  <2>4. Good(put(n, upTo[k]), n)
    BY <1>2, <2>2, <2>3, SelectsNext
  <2>5. upTo[n] = put(n, upTo[k])
    BY <1>8, <2>1
  <2> HIDE DEF Good, put
  <2>6. n \in P
    BY <2>1, <2>4, <2>5
  <2>7. QED
    BY <2>6 DEF n
<1>11. P = 0 .. L
  <2>1. P \subseteq 0 .. L
    OBVIOUS
  <2> HIDE DEF P
  <2>2. QED
    BY <1>3, <1>9, <1>10, <2>1, UpTo
<1>12. Good(upTo[L], L)
  <2>1. L \in P
    BY <1>3, <1>11
  <2> HIDE DEF Good
  <2>2. QED
    BY <2>1
<1>13. PICK B : upTo[L] \in RBRoot /\ IsChain(upTo[L], B) /\ Selected(t, root, s, L, B)
  BY <1>12
<1>14. Roots(upTo[L]) = B
  BY <1>13, RootsIs
<1>15. QED
  BY <1>1, <1>13, <1>14 DEF s, L

(* FilterFromRoot: the root, nothing that is not below it, and all that    *)
(* comes after its parent and after the root.                              *)
LEMMA FiltersExactly ==
  ASSUME tree \in RBRoot, IsChain(tree, Roots(tree)), NEW root \in Roots(tree)
  PROVE  LET below == Roots(FilterFromRoot(tree, root))
         IN /\ root \in below
            /\ \A S \in SUBSET Roots(tree) : root \in S /\ ClosedBelow(S) => below \subseteq S
            /\ \A i \in Roots(tree) :
                 LET parent == tree.info[i].ref
                 IN parent = root \/ (parent \in below /\ parent < i /\ root < i) => i \in below
<1> DEFINE below == Roots(FilterFromRoot(tree, root))
           s == InOrder(tree)
<1>1. Selected(tree, root, s, Len(s), below)
  BY FilterIs
<1>2. Walk(s, Roots(tree)) /\ Roots(tree) \subseteq Ids
  BY InOrderIs DEF IsChain
<1> HIDE DEF below, s
<1>3. \A i \in Roots(tree) : \E j \in 1 .. Len(s) : i = s[j]
  BY <1>2 DEF Walk, ToSet
<1>4. \A j \in 1 .. Len(s) : s[j] \in Roots(tree)
  BY <1>2 DEF Walk, ToSet
<1>5. ASSUME NEW i \in Roots(tree)
      PROVE  LET p == tree.info[i].ref
             IN i = root \/ p = root \/ (p \in below /\ p < i /\ root < i) => i \in below
  BY <1>1, <1>3 DEF Selected
<1>6. below \subseteq Roots(tree) /\ Joined(tree, root, below)
  BY <1>1, <1>4 DEF Selected
<1>7. ASSUME NEW S \in SUBSET Roots(tree), root \in S, ClosedBelow(S)
      PROVE  below \subseteq S
  <2>1. MaxRoots \in Nat /\ Ids = 1 .. MaxRoots
    BY TreeAssumption DEF Ids
  <2>2. \A m \in below : m \in Ids /\ m \in Nat /\ m <= MaxRoots /\ m # 0
    BY <1>2, <1>6, <2>1
  <2> DEFINE P == {k \in 0 .. MaxRoots : \A m \in below : m <= k => m \in S}
  <2>3. 0 \in P /\ P \subseteq 0 .. MaxRoots
    BY <2>1, <2>2
  <2>4. ASSUME NEW k \in P, k < MaxRoots PROVE k + 1 \in P
    <3>1. k \in Nat /\ k + 1 \in 0 .. MaxRoots /\ \A m \in below : m <= k => m \in S
      BY <2>1, <2>4
    <3>2. ASSUME NEW m \in below, m <= k + 1 PROVE m \in S
      <4> DEFINE p == tree.info[m].ref
      <4>1. m \in Roots(tree)
        BY <1>6
      <4>2. CASE m = root
        BY <1>7, <4>2
      <4>3. CASE p = root
        BY <1>7, <4>1, <4>3 DEF ClosedBelow
      <4>4. CASE p \in below /\ p < m
        <5>1. p \in Nat /\ m \in Nat
          BY <2>2, <4>4
        <5> HIDE DEF p
        <5>2. p <= k
          BY <3>1, <3>2, <4>4, <5>1
        <5>3. p \in S
          BY <3>1, <4>4, <5>2
        <5>4. QED
          BY <1>7, <4>1, <5>3 DEF ClosedBelow, p
      <4>5. QED
        BY <1>6, <4>2, <4>3, <4>4 DEF Joined
    <3>3. QED
      BY <3>1, <3>2
  <2>5. P = 0 .. MaxRoots
    <3> HIDE DEF P
    <3>1. QED
      BY <2>1, <2>3, <2>4, UpTo
  <2>6. MaxRoots \in P
    BY <2>1, <2>5
  <2>7. QED
    BY <2>2, <2>6
<1>8. QED
  BY <1>5, <1>7 DEF below

(* FilterFromRoot, on every tree a lookup ends with: the root, nothing     *)
(* that is not below it, every child of it, and what comes after its       *)
(* parent and after the root (FilterFromRoot, InOrderIterate).             *)
THEOREM FilterIsExact == TreeSpec => []FilterExact
<1>1. TreeInv => FilterExact
  BY FiltersExactly DEF TreeInv, TreeTypeOK, Grown, FilterExact
<1>2. QED
  BY <1>1, TreeIsSound, PTL
=============================================================================
