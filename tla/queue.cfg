SPECIFICATION FairSpec
CHECK_DEADLOCK FALSE
CONSTANTS
    Funcs = {f1, f2, f3}
    Limits <- AllLimits
INVARIANTS TypeOK ConcurrencyBound NilAfterDrain
PROPERTIES ImplementsPool WaitReturns
