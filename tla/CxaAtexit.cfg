SPECIFICATION FairSpec
CONSTANTS
    Thread = {t1, t2}
    Dso = {d1}
    NULL = NULL
    CXA_ATEXIT_MAX = 3
INVARIANTS AtMostOnce Drained ReverseOrder ExitRanAll
PROPERTY LockReleased
