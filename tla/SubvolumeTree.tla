--------------------------- MODULE SubvolumeTree ---------------------------
(***************************************************************************)
(* How the program finds the snapshots of a subvolume: SubvolumeSearch     *)
(* reads the root tree of the filesystem in batches (walkBtrfsTreeFd),     *)
(* builds a search tree of the roots from it (BuildRBTree), asks the       *)
(* kernel for the directory of each (resolveFullPaths), and                *)
(* ResolveSubvolumeDetails keeps those that are in the snapshot directory, *)
(* trying again after an error.  Nothing is locked: snapshots are taken,   *)
(* deleted and moved between any two calls of the kernel.                  *)
(*                                                                         *)
(* A root is its id; its UUID is the id.  A directory is the subvolume it  *)
(* belongs to and its path in it.  Id 1 is the top of the filesystem       *)
(* (FSTreeObjectID), id 2 the subvolume whose snapshots are looked for.    *)
(***************************************************************************)
EXTENDS Integers, Sequences, FiniteSets, SequencesExt

CONSTANTS MaxRoots,     \* ids there are room for
          Starts,       \* filesystems to begin with: [fs, dirs, mount, directory]
          Managed,      \* names that begin with the snapshot name
          OtherNames,   \* names that do not
          NoName,       \* the name of what is in no directory: the empty string
          Endings,      \* <<n, e>>: the name n ends in e, which is shorter
          Batch,        \* items that fit into the buffer of one search
          Tries,        \* lookups before ResolveSubvolumeDetails gives up
          MaxChanges    \* bound: changes of the filesystem

Top == 1
Vol == 2
Ids == 1 .. MaxRoots
Node == 0 .. MaxRoots     \* 0 is nil, or no root

ASSUME TreeAssumption == /\ MaxRoots \in Nat /\ MaxRoots > Vol
                         /\ Batch \in Nat \ {0} /\ Tries \in Nat \ {0}
                         /\ MaxChanges \in Nat

ASSUME NamesAssumption == Managed \cup OtherNames \cup {NoName} \subseteq STRING

Dir == [in : Node, path : Seq(STRING)]
Root == [state : {"free", "linked", "dying", "gone"}, origin : Node, dir : Dir, name : STRING]

(* Every subvolume is in a directory there is; a free id is not a parent   *)
(* and has none yet.                                                       *)
IsFilesystem(s) ==
  /\ s.fs \in [Ids -> Root] /\ s.dirs \subseteq Dir
  /\ s.mount \in Ids /\ s.directory \in Seq(STRING)
  /\ s.fs[Top].state = "linked"
  /\ \A d \in s.dirs : d.in \in Ids
  /\ \A i \in Ids \ {Top} : s.fs[i].state = "linked" =>
        s.fs[i].dir \in s.dirs /\ s.fs[s.fs[i].dir.in].state = "linked"
  /\ \A i, j \in Ids : s.fs[i].state = "free" /\ i < j => s.fs[j].state = "free"

ASSUME StartsAssumption == \A s \in Starts : IsFilesystem(s)

VARIABLES fs,          \* id -> its state, origin (ParentUUID), directory and name
          dirs,        \* the directories there are
          changes,     \* bound: changes so far
          site,        \* the mount point's root and the snapshot directory's path
          lpc, tries,  \* where the lookup is, and which of its tries
          key,         \* the least key of the next search
          tree,        \* the search tree: links, and the RootInfo of each node
          unresolved,  \* nodes whose path is not resolved yet
          list,        \* the snapshots found
          stable,      \* history: managed snapshots there all through this try
          seen         \* history: filesystems put together from moments of it

kernel == <<fs, dirs, changes>>
history == <<stable, seen>>
treeVars == <<fs, dirs, changes, site, lpc, tries, key, tree, unresolved, list, stable, seen>>

-----------------------------------------------------------------------------
(* The filesystem *)

Linked(i) == fs[i].state = "linked"
HasItem(i) == fs[i].state \in {"linked", "dying"}
HasDir(d) == d \in dirs /\ Linked(d.in)
SnapDir == [in |-> Vol, path |-> <<"snaps">>]

(* What the kernel's root tree holds: a root item for each root, until the *)
(* cleaner has removed what was deleted, and a back reference to its       *)
(* parent while it is linked into a directory.  A key is the id and, for a *)
(* back reference, the parent.  A search returns the first from a key on.  *)
KeyOf(i, parent) == i * (MaxRoots + 1) + parent
IdOf(k) == k \div (MaxRoots + 1)
ParentOf(k) == k % (MaxRoots + 1)
Keys == 1 .. KeyOf(MaxRoots, MaxRoots)
IsItem(k) == /\ IdOf(k) \in Ids
             /\ IF ParentOf(k) = 0 THEN HasItem(IdOf(k))
                ELSE IdOf(k) # Top /\ Linked(IdOf(k)) /\ fs[IdOf(k)].dir.in = ParentOf(k)
Items(from) == {k \in Keys : k >= from /\ IsItem(k)}
Found(from) == {k \in Items(from) : Cardinality({j \in Items(from) : j < k}) < Batch}

-----------------------------------------------------------------------------
(* The search tree *)

NoDir == [in |-> 0, path |-> <<>>]
NoInfo == [ref |-> 0, origin |-> 0, dir |-> NoDir, name |-> NoName, deleted |-> FALSE,
           dirname |-> <<>>]
RootInfo == [ref : Node, origin : Node, dir : Dir, name : STRING, deleted : BOOLEAN,
             dirname : Seq(STRING)]
RBRoot == [root : Node, left : [Ids -> Node], right : [Ids -> Node], info : [Ids -> RootInfo]]
Nil == [i \in Ids |-> 0]
NewRBRoot == [root |-> 0, left |-> Nil, right |-> Nil, info |-> [i \in Ids |-> NoInfo]]

LookupRoot(t, i) ==
  LET at[n \in Node] == IF n \in {0, i} THEN n
                        ELSE IF i < n THEN at[t.left[n]] ELSE at[t.right[n]]
  IN at[t.root]

(* insertRoot does not return after the left subtree but goes on into the  *)
(* right one: only roots that come in ascending order are inserted once.   *)
(* Reached: the nodes it comes to; the new one takes the place of nil.     *)
Reached(t, i) ==
  LET from[n \in Node] ==
        IF n = 0 THEN {}
        ELSE {n} \cup (IF i < n THEN from[t.left[n]] ELSE {})
                 \cup (IF i < n /\ t.left[n] = 0 THEN {} ELSE from[t.right[n]])
  IN from[t.root]
Link(t, i, reached) ==
  [t EXCEPT !.left = [n \in Ids |-> IF n \in reached /\ i < n /\ @[n] = 0 THEN i ELSE @[n]],
            !.right = [n \in Ids |->
               IF n \in reached /\ @[n] = 0 /\ ~(i < n /\ t.left[n] = 0) THEN i ELSE @[n]]]
InsertRoot(t, i) == IF t.root = 0 THEN [t EXCEPT !.root = i] ELSE Link(t, i, Reached(t, i))

InOrder(t) ==
  LET from[n \in Node] == IF n = 0 THEN <<>>
                          ELSE from[t.left[n]] \o <<n>> \o from[t.right[n]]
  IN from[t.root]

PreOrder(t) ==
  LET from[n \in Node] == IF n = 0 THEN <<>>
                          ELSE <<n>> \o from[t.left[n]] \o from[t.right[n]]
  IN from[t.root]

Roots(t) == ToSet(InOrder(t))

(* One item of a batch: UpdateRoot copies the fields that are set, and     *)
(* InsertRoot makes a node for a root that is not in the tree.             *)
AllFields(info, k) ==   \* seeded fault: fields that are not set are copied too
  LET f == fs[IdOf(k)]
  IN IF ParentOf(k) = 0 THEN [NoInfo EXCEPT !.origin = f.origin]
     ELSE [NoInfo EXCEPT !.ref = ParentOf(k), !.dir = f.dir, !.name = f.name]
Fields(info, k) ==
  LET f == fs[IdOf(k)]
  IN IF ParentOf(k) = 0 THEN [info EXCEPT !.origin = f.origin]
     ELSE [info EXCEPT !.ref = ParentOf(k), !.dir = f.dir, !.name = f.name]
Put(t, k) ==
  IF LookupRoot(t, IdOf(k)) # 0
    THEN [t EXCEPT !.info[IdOf(k)] = Fields(t.info[IdOf(k)], k)]
    ELSE [InsertRoot(t, IdOf(k)) EXCEPT !.info[IdOf(k)] = Fields(NoInfo, k)]
PutAll(t, items) ==
  LET upTo[k \in 0 .. KeyOf(MaxRoots, MaxRoots)] ==
        IF k = 0 THEN t ELSE LET put[new \in RBRoot] == IF k \in items THEN Put(new, k) ELSE new
                             IN put[upTo[k - 1]]
  IN upTo[KeyOf(MaxRoots, MaxRoots)]

(* The roots below one.  They are taken in the order of their ids, and a   *)
(* root is found to be below another only by way of those already in the   *)
(* new tree.                                                               *)
IsBelow(t, new, i, root) ==
  LET up[n \in Node] ==   \* n is in the new tree: go to its parent
        IF n = 0 THEN FALSE
        ELSE IF t.info[n].ref = 0 THEN FALSE
        ELSE LET p == LookupRoot(new, t.info[n].ref)
             IN p # 0 /\ (p = root \/ t.info[p].ref = root \/ up[p])
  IN i = root \/ t.info[i].ref = root \/ up[LookupRoot(new, t.info[i].ref)]

Empty(t) == [NewRBRoot EXCEPT !.info = t.info]
FilterDirect(t, root) ==   \* seeded fault: only the root and its children
  LET order == InOrder(t)
      upTo[k \in 0 .. Len(order)] ==
        IF k = 0 THEN Empty(t)
        ELSE LET new == upTo[k - 1]
             IN IF order[k] = root \/ t.info[order[k]].ref = root
                  THEN InsertRoot(new, order[k]) ELSE new
  IN upTo[Len(order)]
FilterFromRoot(t, root) ==
  LET order == InOrder(t)
      upTo[k \in 0 .. Len(order)] ==
        IF k = 0 THEN Empty(t)
        ELSE LET new == upTo[k - 1]
             IN IF IsBelow(t, new, order[k], root) THEN InsertRoot(new, order[k]) ELSE new
  IN upTo[Len(order)]

(* Up from the subvolume n by way of those whose parents are known: where  *)
(* this leads, and the names of those it came by.                          *)
Climb(n, known, parent, name) ==
  LET step[k \in Node] ==
        IF k = 0 THEN [at |-> n, names |-> <<>>]
        ELSE LET m == step[k - 1]
             IN IF m.at \in known
                  THEN [at |-> parent[m.at], names |-> <<name[m.at]>> \o m.names] ELSE m
  IN step[MaxRoots]

(* The directory part of FullPath: the names of the subvolumes above, as   *)
(* far as they are in the tree, without the directories these are in (the  *)
(* empty name of one without a parent adds no more than a slash).          *)
(* Following RefTree from n never ends when it is Circular: the walk has   *)
(* seen one subvolume before and the other after they changed places.      *)
Known(t) == {n \in Ids \ {Top, site.mount} : LookupRoot(t, n) # 0 /\ t.info[n].ref # 0}
FollowRefTree(t, n) ==
  Climb(n, Known(t), [i \in Ids |-> t.info[i].ref], [i \in Ids |-> t.info[i].name])
Above(t, n) == FollowRefTree(t, n).names
Circular(t, n) == FollowRefTree(t, n).at \in Known(t)

-----------------------------------------------------------------------------
(* What is to be found *)

(* strings.HasSuffix on two paths: below the first name of dirname they    *)
(* agree, and the first may be no more than the end of a name.  A first    *)
(* name that is empty is a slash, which comes behind any name.             *)
EndsIn(name, ending) == ending \in {name, NoName} \/ <<name, ending>> \in Endings
InDirectory(dirname) ==
  LET above == Len(site.directory) - Len(dirname)
  IN /\ dirname # <<>> /\ above >= 0
     /\ EndsIn(site.directory[above + 1], dirname[1])
     /\ \A k \in 2 .. Len(dirname) : site.directory[above + k] = dirname[k]

(* Where each subvolume is; the names on the path to a directory, of those *)
(* the walk comes by.                                                      *)
Place == [dir : Dir, name : STRING]
NoPlace == [dir |-> NoDir, name |-> NoName]
PlaceOf(f, i) == IF i # Top /\ f[i].state = "linked"
                   THEN [dir |-> f[i].dir, name |-> f[i].name] ELSE NoPlace
Places(f) == [i \in Ids |-> PlaceOf(f, i)]
NamesAbove(g, d) ==
  Climb(d.in, {n \in Ids \ {Top, site.mount} : n >= site.mount /\ g[n].dir.in # 0},
        [i \in Ids |-> g[i].dir.in], [i \in Ids |-> g[i].name]).names \o d.path

IsSnapshot(g, i) == fs[i].origin = Vol /\ g[i].dir.in # 0 /\ g[i].name \in Managed
There(f) ==
  LET g == Places(f)
  IN {i \in Ids : f[i].origin = Vol /\ g[i].dir = SnapDir /\ g[i].name \in Managed
                  /\ InDirectory(NamesAbove(g, SnapDir))}
Matching(g) == {i \in Ids : IsSnapshot(g, i) /\ InDirectory(NamesAbove(g, g[i].dir))}

-----------------------------------------------------------------------------
TreeInit ==
  /\ \E s \in Starts : /\ fs = s.fs /\ dirs = s.dirs
                       /\ site = [mount |-> s.mount, directory |-> s.directory]
  /\ changes = 0
  /\ lpc = "idle" /\ tries = 0 /\ key = 0 /\ tree = NewRBRoot /\ unresolved = <<>>
  /\ list = {} /\ stable = {} /\ seen = {}

(* The other users of the filesystem *)

Looking == lpc \in {"walk", "paths"}
Change(f) ==
  /\ changes < MaxChanges /\ changes' = changes + 1
  /\ fs' = f
  /\ stable' = IF Looking THEN stable \cap There(f) ELSE stable
  /\ seen' = IF Looking THEN seen \cup {[g EXCEPT ![i] = PlaceOf(f, i)] : g \in seen, i \in Ids}
             ELSE seen
  /\ UNCHANGED <<site, lpc, tries, key, tree, unresolved, list>>

Free == {i \in Ids : fs[i].state = "free"}
NewSubvolume(origin, d, name) ==
  /\ HasDir(d)
  /\ \E i \in Free : /\ \A j \in Free : i <= j
                     /\ Change([fs EXCEPT ![i] = [state |-> "linked", origin |-> origin,
                                                  dir |-> d, name |-> name]])
  /\ UNCHANGED dirs

Within(i) == {j \in Ids \ {Top} : Linked(j) /\ fs[j].dir.in = i}
Delete(i) ==
  /\ i # Top /\ Linked(i) /\ Within(i) = {}
  /\ Change([fs EXCEPT ![i].state = "dying"])
  /\ UNCHANGED dirs

Clean(i) ==   \* the kernel's cleaner
  /\ fs[i].state = "dying"
  /\ Change([fs EXCEPT ![i].state = "gone"])
  /\ UNCHANGED dirs

(* i is n or holds it.  What is above the subvolume itself stays in place: *)
(* the configuration names the path.                                       *)
IsAbove(i, n) == \A S \in SUBSET Ids :
                    n \in S /\ (\A j \in S \ {Top} : fs[j].dir.in \in S) => i \in S
Vacant(d, name) == \A i \in Ids \ {Top} : Linked(i) => fs[i].dir # d \/ fs[i].name # name
Move(i, d, name) ==
  /\ i # Top /\ Linked(i) /\ HasDir(d) /\ ~IsAbove(i, d.in) /\ ~IsAbove(i, Vol)
  /\ <<d, name>> # <<fs[i].dir, fs[i].name>>
  /\ name \notin Managed => Vacant(d, name)
  /\ Change([fs EXCEPT ![i].dir = d, ![i].name = name])
  /\ UNCHANGED dirs

RemoveDir(d) ==
  /\ d \in dirs /\ d.path # <<>> /\ \A i \in Ids \ {Top} : Linked(i) => fs[i].dir # d
  /\ Change(fs)
  /\ dirs' = dirs \ {d}

-----------------------------------------------------------------------------
(* ResolveSubvolumeDetails *)

Call ==
  /\ lpc \in {"idle", "done", "failed"}
  /\ lpc' = "open" /\ tries' = 0 /\ list' = {}
  /\ key' = 0 /\ tree' = NewRBRoot /\ stable' = {} /\ seen' = {}
  /\ UNCHANGED <<kernel, site, unresolved>>

FailForever ==   \* seeded fault: there is no end to the tries
  /\ tries' = tries + 1 /\ lpc' = "open"
  /\ key' = 0 /\ tree' = NewRBRoot /\ unresolved' = <<>> /\ stable' = {} /\ seen' = {}
  /\ UNCHANGED <<kernel, site, list>>
Fail ==
  /\ tries' = tries + 1
  /\ lpc' = IF tries + 1 < Tries THEN "open" ELSE "failed"
  /\ key' = 0 /\ tree' = NewRBRoot /\ unresolved' = <<>> /\ stable' = {} /\ seen' = {}
  /\ UNCHANGED <<kernel, site, list>>

OpenFails == lpc = "open" /\ ~Linked(Vol) /\ Fail

(* SubvolumeSearch: the path leads to the subvolume, its root item gives   *)
(* its UUID, and the walk begins at the mount point's root.                *)
Open ==
  /\ lpc = "open" /\ Linked(Vol)
  /\ lpc' = "walk" /\ key' = KeyOf(site.mount, 0)
  /\ stable' = There(fs) /\ seen' = {Places(fs)}
  /\ UNCHANGED <<kernel, site, tries, tree, unresolved, list>>

WalkBatch ==
  /\ lpc = "walk"
  /\ \E items \in {Found(key)} :
       /\ items # {}
       /\ tree' = PutAll(tree, items)
       /\ key' = Max(items) + 1
  /\ UNCHANGED <<kernel, history, site, lpc, tries, unresolved, list>>

WalkEnds ==
  /\ lpc = "walk" /\ Found(key) = {}
  /\ lpc' = "paths" /\ unresolved' = PreOrder(tree)
  /\ UNCHANGED <<kernel, history, site, tries, key, tree, list>>

Resolving == lpc = "paths" /\ unresolved # <<>>
Current == Head(unresolved)
NoneDeleted == FALSE   \* seeded fault: the kernel is asked for deleted roots too
IsDeleted == tree.info[Current].ref = 0
ResolveDeleted ==
  /\ Resolving /\ IsDeleted
  /\ tree' = [tree EXCEPT !.info[Current].deleted = TRUE]
  /\ unresolved' = Tail(unresolved)
  /\ UNCHANGED <<kernel, history, site, lpc, tries, key, list>>

Spins == Circular(tree, tree.info[Current].ref)
ResolvePath ==
  /\ Resolving /\ ~IsDeleted
  /\ HasDir(tree.info[Current].dir) /\ ~Spins
  /\ tree' = [tree EXCEPT !.info[Current].dirname =
                Above(tree, tree.info[Current].ref) \o tree.info[Current].dir.path]
  /\ unresolved' = Tail(unresolved)
  /\ UNCHANGED <<kernel, history, site, lpc, tries, key, list>>

LookupFails ==   \* BTRFS_IOC_INO_LOOKUP: the directory or its subvolume is gone
  /\ Resolving /\ ~IsDeleted
  /\ ~HasDir(tree.info[Current].dir)
  /\ Fail

ResolveSpins ==
  /\ Resolving /\ ~IsDeleted
  /\ HasDir(tree.info[Current].dir) /\ Spins
  /\ lpc' = "spinning"
  /\ UNCHANGED <<kernel, history, site, tries, key, tree, unresolved, list>>

Spin == lpc = "spinning" /\ UNCHANGED treeVars

IsManaged(info) == /\ info.origin = Vol /\ ~info.deleted
                   /\ info.name \in Managed /\ InDirectory(info.dirname)
Finish ==
  /\ lpc = "paths" /\ unresolved = <<>>
  /\ list' = {i \in Roots(tree) : IsManaged(tree.info[i])}
  /\ lpc' = "done"
  /\ UNCHANGED <<kernel, history, site, tries, key, tree, unresolved>>

-----------------------------------------------------------------------------
Lookup == \/ Call \/ OpenFails \/ Open \/ WalkBatch \/ WalkEnds
          \/ ResolveDeleted \/ ResolvePath \/ LookupFails
          \/ ResolveSpins \/ Spin \/ Finish

Others == \/ \E d \in dirs, name \in Managed, origin \in {0, Vol} : NewSubvolume(origin, d, name)
          \/ \E d \in dirs, name \in Managed \cup OtherNames, i \in Ids : Move(i, d, name)
          \/ \E i \in Ids : Delete(i) \/ Clean(i)
          \/ \E d \in dirs : RemoveDir(d)

TreeNext == Lookup \/ Others
TreeSpec == TreeInit /\ [][TreeNext]_treeVars
FairTreeSpec == TreeSpec /\ WF_treeVars(Lookup)

-----------------------------------------------------------------------------
(* The filesystem and the lookup keep their types; the search tree is      *)
(* walked without end by none of its iterators, and the lookup gives up    *)
(* after its last try.                                                     *)
TreeTypeOK ==
  /\ fs \in [Ids -> Root] /\ dirs \subseteq Dir /\ changes \in 0 .. MaxChanges
  /\ site \in [mount : Ids, directory : Seq(STRING)]
  /\ lpc \in {"idle", "open", "walk", "paths", "spinning", "done", "failed"}
  /\ tries \in 0 .. Tries /\ key \in 0 .. KeyOf(MaxRoots, MaxRoots) + 1
  /\ tree \in RBRoot /\ Roots(tree) \subseteq Ids
  /\ unresolved \in Seq(Ids) /\ list \subseteq Ids
  /\ stable \subseteq Ids /\ seen \subseteq [Ids -> Place]

(* The list that retention and mirrors work from, read in pieces while the *)
(* filesystem changes: it has every snapshot that was in the snapshot      *)
(* directory all through the try, except those older than the mount        *)
(* point's own root, and nothing but snapshots whose directory, with each  *)
(* subvolume where it was at some moment of the try, has a path with the   *)
(* same end; each root is in the tree once (BuildRBTree, resolveFullPaths, *)
(* ResolveSubvolumeDetails).                                               *)
ListExact ==
  lpc = "done" => /\ \A i \in stable : i >= site.mount => i \in list
                  /\ list \subseteq UNION {Matching(g) : g \in seen}
                  /\ LET order == InOrder(tree)
                     IN \A j \in 2 .. Len(order) : order[j - 1] < order[j]

(* FilterFromRoot, by which pruneLocalMirror and `btrsync tree` see what   *)
(* is below a subvolume: nothing else, all of its children, and of the     *)
(* deeper ones all that come after their parent and after the subvolume.   *)
ClosedBelow(S) == \A i \in Roots(tree) : tree.info[i].ref \in S => i \in S
FilterExact ==
  lpc = "done" =>
    \A root \in Roots(tree) :
      LET below == Roots(FilterFromRoot(tree, root))
      IN /\ root \in below
         /\ \A S \in SUBSET Roots(tree) : root \in S /\ ClosedBelow(S) => below \subseteq S
         /\ \A i \in Roots(tree) :
              LET parent == tree.info[i].ref
              IN parent = root \/ (parent \in below /\ parent < i /\ root < i) => i \in below

(* However often a lookup was disturbed, later ones succeed and, in the    *)
(* end, agree with the filesystem, unless the subvolume itself is deleted  *)
(* or a lookup caught two subvolumes as they changed places, and spins in  *)
(* resolveFullPaths for ever.                                              *)
FoundAgain ==
  \/ <>[](lpc = "spinning")
  \/ <>~Linked(Vol)
  \/ []<>(/\ lpc = "done"
          /\ list = {i \in Matching(Places(fs)) : i >= site.mount})
=============================================================================
