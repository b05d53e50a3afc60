# Specifications of btrsync

TLA+ modules for the parts of btrsync whose correctness depends on the order of
steps: the work queue, the runs that use it, the snapshot manager, the receiver
of send streams, all six mirrors, and the search for snapshots. Every definition
is translated from the Go source; the file and lines of each are in
`PROJECT.json` under `map`.

    tlc -workers 2 -config queue.cfg MCConcurrentQueue.tla
    tlapm ConcurrentQueueProofs.tla          (and every other ...Proofs.tla)

## The system

btrsync takes read-only btrfs snapshots of subvolumes, thins them out by age,
and mirrors them: as subvolumes, as a plain directory, or as compressed files,
locally or over SSH. `btrsync run` does all of it once; `btrsync run --daemon`
does a run on every tick; `btrsync prune` only deletes.

| Part | State | Operations | Hard because | What makes it correct |
|---|---|---|---|---|
| Run, daemon, prune (`pkg/cmd/run.go`, `prune.go`) | two batches of functions; what each function looked up | handleSnapshots, handleSync, pruneLocalSnapshots, pruneMirrors | Wait returns early, the next run overlaps what is left; prune works beside runs; lists grow old | one writer in a directory; only what has gone at the source is pruned; no error means mirrored; every mirror that works gets there |
| Configuration (`pkg/cmd/config`, `syncmanager.go`) | none that lasts | names, mirrors, intervals, Validate | inheritance, names that are prefixes or joined by dots | one directory for each subvolume; intervals in the order that thinning needs |
| Work queue (`pkg/cmd/queue`) | a slice, a counter, a channel of errors, a mutex, a WaitGroup, a context | Push, Wait; a run goroutine and a worker for each function | tests without the lock, a `select` with two ready cases, a channel with few places | no more at once than configured; nothing started twice; Wait returns, and says nil only when all is quiet |
| Snapshot manager (`pkg/cmd/snapmanager`, `btrfs.DeleteSubvolume`) | the snapshots on disk; in memory the list looked up at the start of a run | EnsureMostRecentSnapshot, PruneSnapshots | no lock: other runs, and time, go on; deletion takes many system calls | young snapshots stay, expired ones go, one remains for every retention interval, new ones are spaced |
| Subvolume search (`snaputil`, `pkg/btrfs`) | a search tree built from the kernel's root tree | ResolveSubvolumeDetails, SubvolumeSearch, BuildRBTree, FilterFromRoot | the root tree is read in batches while it changes; the order of insertion; failing lookups | the list holds what was there and nothing else; disturbed lookups succeed later |
| Stream receiver (`pkg/receive`) | offset, current subvolume, error count, a channel and a context shared by two goroutines | seeking, PreOp, dispatch, PostOp, END | it resumes in the middle, tolerates errors, closes a channel while the other goroutine may send | nil means applied; a command reaches its subvolume; it returns |
| Directory mirrors (`*_directory.go`, `receivers/directory`, `receivers/sshdir`) | one directory; a file with an offset per snapshot | Sync, Prune; a system call or a remote command for each command | crashes between any two; replay | what is marked complete is complete; success means the newest contents; interrupted transfers recover |
| Local subvolume mirror (`local_subvolume.go`, `receivers/local`, `diff.go`) | a subvolume per snapshot with its received UUID and read-only flag | Sync, comparison of two streams, transfer, FinishSubvolume, Prune | the offset to resume at is guessed; parents come and go | what counts as received is the snapshot and stays so |
| Compressed mirrors, remote subvolume mirror (`*_compressed.go`, `ssh_subvolume.go`, `sshutil`) | a file and a mark for each snapshot; remote subvolumes | Sync, Prune; a sender, a copier and a remote command around pipes | each may fail while another waits for it | marks after data; success means stored; no run waits for ever |
| Scanner and writer of streams | none that lasts | decoding | boundaries | |
| ioctl layer, generated code, other commands | none | I/O | | |

How they interact: `run` pushes a function per subvolume that drives a
SnapManager (queue 1), waits, pushes a function per mirror that syncs and then
prunes it (queue 2), and waits. Each manager looks up the list of snapshots when
it is made. A mirror manager starts `btrfs.Send` in a goroutine that writes to a
pipe, and gives the other end to `ProcessSendStream`, which calls the receiver,
or to a goroutine that copies it to a file or a remote command. Everything else
they share is on disk.

## Modules

| Module | Models | State and actions |
|---|---|---|
| `TaskPool` | what the queue promises its callers | the state of each task and one answer; Submit, Start, Fail, Finish, Answer |
| `ConcurrentQueue` | `queue.go` | the struct's fields under their names, `rpc` the run goroutine, `cpc` the caller, `fpc` every function and its worker. A critical section is one action, an unlocked read is one of its own |
| `ConcurrentQueueProofs` | | the inductive invariant, the theorems, the refinement of `TaskPool` |
| `Configuration` | `config.go`, the choice in `syncmanager.go` | operators only: names as sequences of symbols, `ResolveMirrors`, `Resolve`, `Validate`, `Manager` |
| `Daemon` | `run.go`, `prune.go` with the managers' New, Sync and Prune in short | `main` is run(), `tasks` the functions pushed and not finished, each with the list it looked up, `local` and `mirrored` what is on disk, `cmd` the prune command, whose `left` is a set of steps (subvolume, mirror or 0 for its own snapshots). Uses `Configuration` |
| `DaemonProofs` | | whose functions are whose, what is looked up and stored |
| `SnapManager` | `snapmanager.go`, `DeleteSubvolume` | the disk (`snaps`, `half` for those half deleted), the clock, and for each process `pc` and the variables of the loop it is in. Each file system call is a step; time passes between any two |
| `SubvolumeTree` | `ResolveSubvolumeDetails`, `SubvolumeSearch`, `BuildRBTree`, `resolveFullPaths`, `btrfs_rb_tree.go` | `fs` and `dirs` are the filesystem, which others change; `tree` the search tree; a batch of the search and the lookup of one path are a step each |
| `SnapshotProofs` | | of `SnapManager`: ages, who took which snapshot, what covers one that was thinned out; of `SubvolumeTree`: the search tree is a chain, and what was read of a filesystem that changes |
| `ReceiveStream` | `receive.go`, `processSubvol`, the end of `Scan` | `gpc` the goroutine, `mpc` the waiting function, `errCh` the channel, `ctxEnd` the context; histories of what was applied, skipped, failed |
| `ReceiveStreamProofs` | | the two goroutines' places, and an account of the stream |
| `SendStreams` | the kernel's stream (external) and what file operations do | operators only: `Stream`, `Succeeds`, `Applied`, and the same over SSH |
| `SendStreamsProofs` | | facts about streams for the two mirrors below: what the commands do, and when a transfer may begin again behind one of them |
| `DirectoryMirror` | the directory managers with their receivers | `remote` says which; `tree` and `offs` on disk survive `Crash`; the rest is the process. Uses `SendStreams` |
| `DirectoryMirrorProofs` | | where in its stream the directory is |
| `SubvolumeMirror` | the local subvolume manager with its receiver and `FindPathDiffOffset` | `dest` on disk survives. Uses `SendStreams` |
| `SubvolumeMirrorProofs` | | what a subvolume is a copy of, and why the comparison of two streams finds an offset to go on from |
| `StreamMirror` | the two compressed managers and the remote subvolume manager | `kind` says which; `sender`, `copier` and `writer` are the goroutines and the remote command, `store` and `mark` what they leave |
| `StreamMirrorProofs` | | what the goroutines know of each other |
| `MC...` | instances for TLC | |

How the levels fit. `ConcurrentQueue` is shown to implement `TaskPool`, which is
the queue as its callers see it. `Daemon` uses a queue of that kind, with the two
races that the queue model found (a function that never starts, an error that is
dropped) as `races`, and takes from the mirror modules that a sync brings over
one snapshot after another and that a prune removes what its list does not have.

Abstractions that matter. A snapshot is its number or its creation time. A file
holds one value; a new file arrives as the kernel sends it, under an orphan name
that is then renamed, because a rename is what cannot be applied twice.
The kinds of file operation kept (create, link, rename, unlink, write, clone) differ
in whether they can be repeated and whether a receiver can do them at all; chmod,
chown, utimes and xattrs of a file succeed whenever the command before them did and
are left out, those of a symbolic link follow it and are one command, `attributes`.
A clone takes its extents from the same snapshot (the local receiver looks for other
sources below the parent's path, which is left out).
In `SubvolumeMirror` the offset that the comparison yields may fall short of the
place in the stream with data, because a stream without data has one command
where the other has one per piece of an extent. In `StreamMirror` a stream is a
number of pieces as large as the pipe's buffer. In `SubvolumeTree` a root's UUID
is its id, and of the directories only those that can hold snapshots are there; a path
is the sequence of its names, and `Endings` says which name ends in which, since the
code compares the ends of strings. In `Daemon` the queue does not panic: what
`ConcurrentQueue` shows of that ends the process.

A definition marked "Seeded fault" is not part of a specification: it is a
plausible slip in the code, kept beside the definition it would replace, that
the property named in `PROJECT.json` under `mutants` detects.

## Runs

| Run | Instance | Shows |
|---|---|---|
| `queue` | 3 functions; concurrency 1, 2, unlimited, 0 | the bound, nil after the last worker, refinement of `TaskPool`, when Wait returns |
| `queue_lost_error` (violation) | 2 functions, concurrency 1 | Wait says nil although a function failed |
| `daemon` | five configurations: a name in two volumes; a name that begins with another, on this host and with one remote mirror for both; a mirror and a directory, as a process and as a daemon with a remote mirror. 2 snapshots of each subvolume, one race, one failure | one writer, nothing pruned that is still at its source, what a run without an error means, convergence |
| `snap` | one run with a crash or suspension, under three settings; two runs that overlap; 8 instants | spacing, thinning, protection of young snapshots, a recent one for every run, expired ones go |
| `snap_half_deleted` (violation) | one run, one crash | a half-deleted snapshot replaces a good one |
| `tree` | four filesystems of 5 roots, searched two items at a time, 2 changes | the list has what stayed and only what was there at some moments, the filter yields descendants, lookups succeed again |
| `receive` | a stream of one subvolume, of two, one cut short, and each way in which one command's attributes are wrong; offsets 0, 1, 4, 0 or 2 errors tolerated, 2 failures | what nil and the current subvolume mean; when it panics; that it returns |
| `dir` | local and over SSH, 3 snapshots of a file and a link, also cloned, broken or hard, 1 fault | success means the newest contents, progress never goes back, the mark is never early, transfers recover |
| `dir_no_recovery` (violation) | 2 snapshots of a file, 1 fault | an interruption after which no sync succeeds |
| `subvol` | 3 snapshots of a file, also cloned, 2 faults; a copy is deleted in steps | what is received is exact and stays, success means mirrored, syncs recover |
| `subvol_mixed` (violation) | the same, 1 fault | a mirror that counts as received and differs |
| `stream` | three kinds of mirror, 3 snapshots of 2 pieces, a pipe of one, 2 formats, 2 faults | marks after data, success means stored, copies stay, runs recover or hang in a named way |

Why the bounds are enough. Three functions fill a slot, wait for it, and wait
behind the one that waits; two failing ones with concurrency 1 fill the channel
and a third overflows it; one that runs while the next waits for its slot is
enough for the counter of the WaitGroup to be used again too early. Two runs are
all that meet in `daemon`: what a run leaves behind is at work beside the next
one, and a third would find the same. Two snapshots of a subvolume are one that
was mirrored and expires and one that is new. Two prunings are all that can meet
at one snapshot (a run that finds a recent snapshot does what `btrsync prune`
does), and the clock runs past the retention period, so that snapshots cross
each limit. Five roots are the top, the subvolume, a snapshot and two more,
enough for a chain and a swap between two batches; two changes are a swap's
beginning and end. With a third, the invariants hold of 403001 states, too many
for the liveness. Three snapshots are a parent, its child, and one to be resumed
when its parent has gone; two faults are an interruption and one more during the
recovery from it. A stream longer than the pipe is one whose sender can block.
The streams of `receive` have one subvolume, two of them sent together, and no
END; the offsets fall on a subvolume's beginning, behind it, and into the second
one. In `dir` a snapshot with a clone or a broken link holds nothing else
(`RefusedAlone`): each of them makes every sync of it fail, whatever comes
beside it.
`CHECK_DEADLOCK FALSE` is given where a behaviour ends: a batch that was waited
for, a stream that was processed, a sync that hangs.

Fairness. Goroutines: the Go scheduler runs every runnable one again and again,
so each has weak fairness; `LockWaiting` has strong fairness because
`sync.Mutex` hands a starving waiter the lock. Functions in the queue, file
operations, lookups and the sender return (with an error, if need be). For
mirrors and snapshots: the ticker starts a run again and again, and a run takes a
first snapshot when there is none; faults, further snapshots, deletions and
`btrsync prune` have no fairness. In `SubvolumeMirror` and `StreamMirror` a pipe
that nobody refers to any more is closed when the garbage collector gets to it;
one that a blocked goroutine still holds is not. In `Daemon` every function goes
on: the syncs that hang for ever in `StreamMirror` are assumed away there.

Properties with an exception name it. A hazard, or a part of one, that an exception
takes out of a property has a note that says so.

* `WaitReturns` holds unless no worker is allowed (concurrency 0), more functions fail
  than the channel holds, or the queue panics because run counts up a WaitGroup whose
  waiter has been woken and has not run yet (`WakeUp`).
* `Recovers` of the directory and the subvolume mirrors holds *unless* one of the
  states named beside it is reached: these are what the violation runs and the
  hazards are about. For the directory mirrors they include snapshots that no sync
  can apply: with a link to what is not there, with cloned extents, over SSH with a
  hard link. That of `StreamMirror` holds unless a sync is `Hung`: the
  local disk fails under the encoder, the remote dd fails, or the sender fails
  and the remote receive waits for an END that does not come.
* `SkippedIsWhole` and `OkMeansStored` leave out copies whose encoder failed to
  close, an error the code drops, and, with `SyncedStay`, mirrors whose format
  was changed.
* `OnePerInterval` holds for one process as long as no crash or suspension has
  happened; two that overlap delete each other's choices.
* `MirrorExact` holds unless a transfer was resumed when the parent it began
  from, or the one it was compared with, had gone; and of copies whose deletion has
  not begun (`Kept`): one that a crash left half deleted has its UUID still.
* `NoPanic` names the five ways in which the receiver's goroutine does
  panic: a caller's context that ended first, END not honored with a receiver
  that records offsets, a tolerated error in the PreOp of a subvolume or, with any
  receiver, in the attributes of one, and a number in the stream that is missing while
  seeking or has too few bytes. None of btrsync's own callers takes the first two.
* The safety properties of `Daemon` speak of configurations with the names the
  documentation shows (`WellNamed`) and of runs that no earlier one overlaps.
  `Converges` is about mirrors that work; in a daemon that is the mirror itself,
  otherwise every mirror, because the first error ends the process. Where a prune
  lists what is another subvolume's and fails (`ClearMirror`: a name that begins with
  another, or a remote subvolume mirror shared by two) it promises only that the
  newest snapshot gets there, not that the expired ones go.
* `ListExact` promises nothing of roots older than the mount point's own, where the
  search begins; and a listed snapshot was in the directory not at one moment, but
  with each subvolume on its path where it was at some moment of the try (`seen`).
  `FilterExact` promises deeper descendants only where ids ascend. `FoundAgain`
  excepts a lookup that spins for ever and a subvolume that is deleted.

## Proofs

Every theorem holds for all values of the constants within the named assumptions,
and for any number of steps, faults and snapshots: the bounds of the runs are
parameters there. All of them but `Refinement` are an invariant or an action
property of `Spec` (`TreeSpec` for the search), proved in three facts: `Init => IInv`
(`TreeInv` there), `IInv` is kept by every step, and `IInv` (with a step) implies the
property. TLC finds
no counterexample to any `IInv` on the runs' instances (for the directory mirror,
with two snapshots). The theorems say what the
properties of the same meaning say, with the same exceptions.

**Work queue** (`FuncsAssumption`, `ConcurrencyAssumption`: finitely many functions,
limits are naturals or -1). `TypeCorrect`, `BoundHolds`, `NilIsQuiet`: the types,
the bound on concurrency and the quiet nil. `Refinement`: the queue implements
`TaskPool`; each action maps to the pool's step of the same meaning or to a stutter.
The bound is not inductive:
the test of `current` and the pop are two steps. `IInv` adds what makes it so.
`Counted`: `current` is the number of functions that hold a slot, so the test is
about them. `RunKnows`: only run starts functions, so room seen by `CheckRoom` is
still there at `Pop`, the queue seen non-empty by `CheckQueue` is still non-empty,
and once run has drained nothing is live. `QueueKnows`: the queue's elements wait
there, each once, so the popped one holds no slot yet. `Sends` and `Errors`: an
error on its way was returned by its function.

**Snapshot manager** (`SettingsAssumption`: intervals that `ValidateSubvolume`
accepts; `ProcsAssumption`: finitely many runs). `YoungSnapshotsStay`,
`RecentEnsured`, `SnapshotsSpaced`, `OneIsRetained`, `TypeCorrect`. A process works
on a list that is old by the time it deletes. `Aged`: the lists, what is picked from them and each
victim were past the minimum retention when chosen, and ages only grow, so what is
younger is still there, whole. `Owned`: each snapshot can be assigned to the process
that took it, so that those of one owner are an interval apart and a process that is
about to take another knows its own, or they are old enough, however stale its list;
`Spaced`, which counts, follows because a set with one element for each owner is no
larger than the set of owners. `OneIsRetained` is about thinning again and again, each
time from a set that has shifted: `Thinned` says that what is gone is `Covered`, by a
snapshot that nobody has chosen to delete and that `Leads`, which is to say that any
later run of the filter, over what will then be left, begins a chunk with it; for that
the list must differ from the disk only in what is newer than it (`Knows`), and the
filter must see one time. `ChunkHeadsAre` says what the loop over the sorted list
yields: it is written as a recursive function, whose existence is proved along the way.

**Search for snapshots** (`TreeAssumption`: room for the top and the subvolume, a
buffer of at least one item, at least one try; `NamesAssumption`: names are strings;
`StartsAssumption`: in each filesystem to begin with, what is linked is in a directory
of what is linked). `SearchFindsExactly`, `FilterIsExact`, `SearchKeepsTypes`. The
code finds things by recursion over the search tree, and the tree by recursion over
the items. A tree that is filled in ascending order is a *chain* (`IsChain`): no left
links, and right ones that lead to the next root. `RecursionAlong` and `RecursionUp` say
that a recursion along such links, or upwards from 0, has the function that follows it,
and `InductionAlong` and `UpTo` what holds of all its values; from these, `LookupRootIs`,
`InsertRootIs`, `InOrderIs`, `PreOrderIs` and `PutAllIs` say what each loop of
`btrfs_rb_tree.go` yields on a chain, and `ClimbSame` when two climbs to the top are one.
They are inductions over a set of numbers, stated once as `NatSetInduction`.
`TreeInv` is then about reading while others write. `Ahead`: a batch comes after all
that is in the tree, so the tree stays a chain. `InPlace` and `Steady`: what was read of
the subvolumes above, which nobody moves, and of the snapshots that stayed is still so.
`Composed`: the filesystem of now with what was read pasted in, up to the root the
walk has passed (`Pasted`) or is at (`Shown`), was put together from moments of the try;
a change by others pastes one more root and a batch moves the place, which is why both
are needed. At the end every path is a climb in `Pasted` (`PathIs`), so what is listed
matched in it. For the filter, `Selected` says what is taken of the first k roots; that
the loop over parents ends at the root, although parents may form a circle in what was
read, holds because in the new tree every parent is less than its child (`LeadsUpIs`).
The proof showed that `ListExact` had promised too much: it had said that a listed
snapshot was in the directory in some one state of the filesystem. A snapshot in
another subvolume, which the walk reads there and which is then moved away, is listed
when that subvolume is given the name of the one looked up before the walk comes to
it, although the snapshot never was in such a directory; the filesystem `Apart` of the runs, added
for it, shows this, and the property now says what the code does guarantee.

**Stream receiver** (`ReceiveAssumption`: streams are well formed: they begin with
a subvolume and have END at most as their last command). `NilIsApplied`,
`SubvolumeIsRight`, `PanicIsKnown`, `TypeCorrect`. `Accounted`: every command the
goroutine has dealt with was applied, skipped or counted as an error, once and in
the order of the stream. `Answered`: the goroutine leaves with the stream complete
or with an error in the channel, which stays there until it is drained, before or
after the channel is closed. `Current`: the current subvolume is that of the last
command dealt with; there is none only in the places that `NoPanic` names, one of
which is behind a subvolume command that could not be read (`Unbegun`).

**Compressed mirrors, remote subvolume mirror** (`KindsAssumption`,
`BoundsAssumption`: pieces and pipe at least 1). `SkippedSnapshotsAreWhole`,
`OkIsStored`, `SyncedCopiesStay`, `TypeCorrect`. `Piping` says what the sender, the
copier and the remote command know of each other: without an error the sender has
closed the pipe after the last piece, the copier has ended after copying it, and
the remote command has stored it, so that the mark is written beside a whole copy.
`Fresh`: what is taken while a sync runs is untouched by it. What a sync has behind
it is good.

**Daemon and run** (`ConfigsAssumption`: lists of configurations that `Validate`
accepts; `MaxSnapsAssumption`). `OneSyncWrites`, `MirrorsLoseWhatIsGone`,
`NilRunsMirror`, `TypeCorrect`. A function works on a list it looked up when it was
made. `Alone`: a run that began with nothing left behind has one function for each
subvolume and mirror, all of one batch, and nothing is taken any more once a sync has
looked up. `Serving`: a sync that has come to prune has stored everything, and every
mirror is served or has a function to serve it. That no two functions write to one
directory needs facts about configurations for every input: the names that
`WellNamed` allows give different directories, and `ResolveMirrors`, a loop in
the code, chooses for each name of a list the mirror that has it, and never one
twice (`DaemonProofs`, the lemmas on names and mirrors).

**Streams** (`StreamsAssumption`: finitely many paths). The two mirrors that apply
a stream command by command are interrupted between a command and the recording of
where it is, so some commands are applied again, or were when they are skipped.
`Ready(p, was, is, t, far, k)` says of a tree that the first k commands of the change
of a file have nothing left to do, and `Reached(from, to, t, far, n)` that the tree is
ready behind the first n commands of the stream. Both are downward closed
(`ReachedLess`), hold of a copy of `from` for the first command, are kept by every
command that succeeds wherever it is applied (`ReachedStep`: applying one again does
no harm, and changes of different files do not meet), and at the end say that the
tree shows `to` (`ReachedEnd`). `PlaceIs` finds each command in the change of
a path, in a stream made by flattening these changes.

**Directory mirrors** (`DirectoryAssumption`: no stream is as long as the mark of a
completed snapshot). `MirrorIsFaithful`, `OffsetsNeverGoBack`, `MarkedIsComplete`,
`TypeCorrect`. `Placed`: a transfer's place is not behind the recorded one.
`InOrder`: each snapshot is marked before the next is begun. `OnTheWay`: the
directory is `Reached` behind each recorded offset on the way from the newest marked
snapshot to the next. The last two hold until something of what `spoiled` lists
happens.

**Subvolume mirror** (`SubvolumeAssumption`). `MirrorIsExact`, `SyncedCopiesStay`,
`OkIsMirrored`, `TypeCorrect`. `Working`, `Marked` and `Rooted`: what a sync works at is
not a complete copy, what it has passed is, and all of it was made from snapshots
of the source. `Copies`: a subvolume that is received holds its snapshot, and one that
is not is on the way from the state it was begun with, from which each file may only
differ as the commands that do not touch its orphan name leave it (`Within`).
`Underway`: the stream is one from that state, and the subvolume is `Reached` behind
the commands consumed and behind the offset to resume at. Both are about copies that
are `Safe`: of a snapshot the source has or had when the sync began, or read-only. A deletion begins
with what the source no longer has and makes it writable first, so a copy that is not
safe is neither resumed nor `Kept`. That the offset of
`FindPathDiffOffset` is such a place is `AgreedReached`: a command that agrees in both
streams is not about an orphan name, whose inode differs, so the file in the copy is
not the parent's any more, and a file that is `Within` and not as it was has
nothing left to be done by that command. `Copies` and `Underway` hold unless `mixed`.
The proof showed that the exception had been too narrow, beyond the bounds of the
run: a transfer that began in full, was compared against a parent that then went, and
was sent in full again is at an offset of the wrong stream. `mixed` now includes it.

Only model-checked. Liveness (`WaitReturns`, `Returns`, `ExpiredGoes`, `Converges`,
`FoundAgain`, the three `Recovers`), which the prover does not handle under
fairness. Every other property of the runs that pass is a theorem.

## Findings

Four runs end in a violation of what the documentation says; they are in
`PROJECT.json` under `findings`. Other disagreements met on the way, which are
named as exceptions or which no run checks:

* `queue.go:19` says the queue stops processing after the first error; it goes
  on. `queue.go:85` says Wait blocks until all functions finish; with an error in
  the channel it does not wait for the rest. A mirror's Prune left behind in that
  way works on an old list and deletes newer snapshots from the mirror, which the
  next run sends again.
* Nor does Wait always return: with concurrency 1 a slot is given back (`queue.go:118`)
  before `wg.Done`, so the counter can reach zero, wake the caller, and be counted up
  for the next function before the caller runs, at which the sync package panics.
  Concurrency 0, which `Validate` lets through, makes run test for room for ever.
* A symbolic link whose target is not in the mirror, or a file with cloned extents,
  makes every sync into a directory fail: chown and utimes follow the link, and Clone
  answers ErrNotSupported.
* On a remote subvolume mirror that two subvolumes share, `btrfs subvol list -o` of one
  directory lists both, and the Prune of each fails on every run when it tries to
  delete the other's snapshots below its own name.
* `snaputil.go:86` compares the ends of strings: a snapshot in `naps` counts as one in
  the snapshot directory `snaps`.
* `receive.go:59-60` says that cancelling the context stops the processing; the
  goroutine goes on, ProcessSendStream returns nil, and an error sent afterwards
  panics.
* `directory.go:19` speaks of math.MaxUint64, the code writes one less.
* `WithMaxErrors` says it defaults to 1; it is 0, which acts alike.
* `prune.go:117` and `run.go:167` name the directory of a mirror differently, so
  `btrsync prune`, which `docs/btrsync_prune.md` says prunes "local and remote
  snapshots", never prunes a mirror of a subvolume with a default name.
* A subvolume mirror whose path is a directory and not a subvolume is never
  pruned by the local manager; one whose snapshot name begins with
  another's makes the pruning of that other fail on every run. Partial remote
  subvolumes of snapshots that have gone are never pruned.
* The comment at `SnapshotName` says that it defaults to the subvolume's name;
  the code puts the volume's name and a dot before it. Volume `a.b` with `c` and
  volume `a` with `b.c` therefore meet in one directory, which Validate allows.
* The comment at `snapshots_dir` speaks of absolute paths; the code always joins
  it to the subvolume's. The days of `btrsync.example.toml` ("1d") are not
  durations that `time.ParseDuration` takes.
* Once a mirror's format is changed, `Prune` deletes the files of the old format
  and the marks, which do not name it, keep them from being written in the new.
* Outside the daemon the first error ends the process and every sync still in the
  queue; in and outside it, one subvolume that cannot be looked up stops all syncs.
* `local_compressed.go:103` writes gzip for the format zlib.

## Plan

Done: queue with proofs, snapshot manager, receiver, all mirrors, the daemon with
its configuration and `btrsync prune`, the search for snapshots.

Proved: every safety invariant and action property that the passing runs check, for
the queue, the snapshot manager, the search, the receiver, the mirrors and the daemon,
and the refinement of `TaskPool`.

Left: a model of the lookup by UUID, and of the receivers that dispatch.

## Not modelled

The ioctl layer and the parsing of kernel buffers and `/proc/mounts` (pure I/O);
generated code and its generators; the decoding of a stream's attributes and
their checksum (no state of its own; ReceiveStream has what Scan reports); the
FUSE file system of `mount`, the receivers that only dispatch or do nothing, the
output of `tree`, the wrappers `send` and `receive`; of the configuration the SSH
settings, time formats, the path of the snapshot directory and the parsing of
files and flags; of the search the lookup of a subvolume by UUID; the remote
`btrfs receive` and the kernel's send, which are external and appear as what the
code expects of them; the wording of logs.
