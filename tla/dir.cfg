SPECIFICATION FairSpec
CONSTANTS
    MaxUint64 = 1001
    States <- RefusedAlone
    MaxSnaps = 3
    Paths = {a, b}
    Links = {b}
    Values = {v, w, u}
    Inodes = {w}
    Dangling = {u}
    Clones = {u}
    Blank = Blank
    NoFile = NoFile
    MaxFaults = 1
INVARIANTS TypeOK MirrorFaithful
PROPERTIES OffsetsAdvance MarkedWhenComplete Recovers
