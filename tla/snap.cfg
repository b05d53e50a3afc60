SPECIFICATION FairSpec
CONSTANTS
    run = run
    again = again
    Settings <- Both
    Procs = {run, again}
    Runners = {run, again}
    MaxTime = 7
INVARIANTS TypeOK Spaced OnePerInterval
PROPERTIES YoungStay EnsuresRecent ExpiredGoes
