SPECIFICATION Spec
CONSTANTS
    Thread = {t1}
    Dso = {d1}
    NULL = NULL
    CXA_ATEXIT_MAX = 2
INVARIANT ExitRanEvery
