------------------------- MODULE MCConcurrentQueue -------------------------
(* Instances of ConcurrentQueue for TLC.  Limits: none can run, one slot,   *)
(* two, and no limit, for which the channel of errors has no buffer.        *)
EXTENDS ConcurrentQueue

AllLimits == {0, 1, 2, -1}
JustOne   == {1}
=============================================================================
