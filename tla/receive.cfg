SPECIFICATION FairSpec
CONSTANTS
  Streams <- MCStreams
  Starts = {0, 1, 4}
  ErrorLimits = {0, 2}
  MaxFaults = 2
INVARIANTS TypeOK NilMeansApplied RightSubvolume NoPanic
PROPERTIES Returns
CHECK_DEADLOCK FALSE
