--------------------------- MODULE MCSnapManager ---------------------------
\* Instances of SnapManager for TLC.  One run alone under three settings,
\* with thinning within an interval, over several, and none, and with a crash or
\* a suspension; and two that overlap.  A run that finds a recent snapshot does what
\* `btrsync prune` does.
EXTENDS SnapManager
CONSTANTS run, again

Setting(i, min, max, chunk, ps, n) ==
    [interval |-> i, minRetention |-> min, retention |-> max, retentionInterval |-> chunk,
     procs |-> ps, faults |-> n]

Alone == {Setting(1, 2, 6, 1, {run}, 1), Setting(1, 2, 6, 3, {run}, 1), Setting(2, 3, 6, 0, {run}, 1)}
Two   == {Setting(3, 4, 6, 2, {run, again}, 0)}

Both  == Alone \cup Two
Crash1 == {Setting(1, 2, 6, 2, {run}, 1)}
===========================================================================
