SPECIFICATION FairSpec
CONSTANTS
  MaxSnaps = 3
  Paths = {a}
  Links = {}
  Values = {v, w}
  Inodes = {}
  Dangling = {}
  Clones = {w}
  Blank = blank
  NoFile = nofile
  MaxFaults = 2
INVARIANTS TypeOK MirrorExact OkMeansMirrored
PROPERTIES SyncedStay Recovers
CHECK_DEADLOCK FALSE
