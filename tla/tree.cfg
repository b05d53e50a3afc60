SPECIFICATION FairTreeSpec
CONSTANTS
  MaxRoots = 5
  Starts <- Filesystems
  Managed = {"s"}
  OtherNames = {"vol"}
  NoName = ""
  Endings <- NameEndings
  Batch = 2
  Tries = 2
  MaxChanges = 2
INVARIANTS TreeTypeOK ListExact FilterExact
PROPERTIES FoundAgain
