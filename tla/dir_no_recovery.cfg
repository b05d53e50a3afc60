SPECIFICATION FairSpec
CONSTANTS
    MaxUint64 = 1001
    States <- AllStates
    MaxSnaps = 2
    Paths = {a}
    Links = {}
    Values = {v, w}
    Inodes = {}
    Dangling = {}
    Clones = {}
    Blank = Blank
    NoFile = NoFile
    MaxFaults = 1
PROPERTY AlwaysRecovers
