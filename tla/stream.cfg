SPECIFICATION FairSpec
CONSTANTS
  Kinds = {"file", "sshfile", "sshsubvol"}
  Formats = {gzip, zstd}
  Pieces = 2
  Room = 1
  MaxSnaps = 3
  MaxFaults = 2
INVARIANTS TypeOK SkippedIsWhole OkMeansStored
PROPERTIES SyncedStay Recovers
CHECK_DEADLOCK FALSE
