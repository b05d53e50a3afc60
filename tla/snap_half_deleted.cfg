SPECIFICATION Spec
CONSTANTS
    run = run
    again = again
    Settings <- Crash1
    Procs = {run, again}
    Runners = {run, again}
    MaxTime = 9
INVARIANT AlwaysOnePerInterval
