SPECIFICATION FairSpec
CONSTANTS
    Defaults <- Week
    Configs <- Some
    MaxSnaps = 2
INVARIANTS TypeOK OneWriter
PROPERTIES PrunedAreGone NilMeansMirrored Converges
