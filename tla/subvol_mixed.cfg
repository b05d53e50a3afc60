SPECIFICATION Spec
CONSTANTS
  MaxSnaps = 3
  Paths = {a}
  Links = {}
  Values = {v, w}
  Inodes = {}
  Dangling = {}
  Clones = {}
  Blank = blank
  NoFile = nofile
  MaxFaults = 1
INVARIANT MirrorAlwaysExact
CHECK_DEADLOCK FALSE
