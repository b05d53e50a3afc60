SPECIFICATION Spec
CHECK_DEADLOCK FALSE
CONSTANTS
    Funcs = {f1, f2}
    Limits <- JustOne
INVARIANT NilMeansNoError
