------------------------------ MODULE MCDaemon ------------------------------
\* Instances of Daemon for TLC: a subvolume of the same name in two volumes; two
\* subvolumes of which the name of one begins with that of the other, on this host
\* and on another; and a subvolume with two mirrors, one of them a directory, run by
\* a process that ends with its first error, beside `btrsync prune`, or by a daemon
\* with a remote mirror.
EXTENDS Daemon

NoDurations == [k \in DurationKeys |-> 0]
Week        == [interval |-> 1, minRetention |-> 24, retention |-> 168, retentionInterval |-> 24]

Subvolume(name, excluded, off) ==
    [name |-> Unset, base |-> name, snapshotName |-> Unset, mirrors |-> <<>>,
     excludeMirrors |-> excluded, disabled |-> off, durations |-> NoDurations]
Volume(name, mirrors, subs) ==
    [name |-> Unset, base |-> name, mirrors |-> mirrors, subvolumes |-> subs,
     disabled |-> FALSE, durations |-> NoDurations]
AMirror(name, remote, format) ==
    [name |-> name, remote |-> remote, format |-> format, isRoot |-> TRUE, disabled |-> FALSE]
Conf(volumes, mirrors, n) ==
    [volumes |-> volumes, mirrors |-> mirrors, concurrency |-> n, durations |-> NoDurations]

v == <<"v">>
w == <<"w">>
r == <<"r">>
r2 == <<"r", "2">>
none == <<>>
near == AMirror("near", FALSE, "subvolume")
far  == AMirror("far", TRUE, "")
dir  == AMirror("dir", FALSE, "directory")

Setting(c, isDaemon, prune, f, n) ==
    [conf |-> c, daemon |-> isDaemon, byHand |-> prune, faults |-> f, races |-> n]

Twice    == Conf(<<Volume(v, <<"near">>, <<Subvolume(r, none, FALSE)>>),
                   Volume(w, <<"near">>, <<Subvolume(r, none, FALSE)>>)>>, <<near>>, 2)
Alike(m) == Conf(<<Volume(v, <<m.name>>, <<Subvolume(r, none, FALSE), Subvolume(r2, none, FALSE)>>)>>, <<m>>, 1)
Mirrors(m) == Conf(<<Volume(v, <<m.name, "dir">>, <<Subvolume(r, none, FALSE), Subvolume(r2, <<"dir">>, TRUE)>>)>>,
                   <<m, dir>>, 1)

Some == <<Setting(Twice, TRUE, FALSE, 0, 1), Setting(Alike(near), TRUE, FALSE, 0, 1),
          Setting(Alike(far), TRUE, FALSE, 0, 1),
          Setting(Mirrors(near), FALSE, TRUE, 1, 1), Setting(Mirrors(far), TRUE, FALSE, 1, 1)>>
==============================================================================
