CONSTANTS
    Thread = {t1, t2}
    Dir = {d1, d2}
    AT_FDCWD = AT_FDCWD
    ABS = ABS
    NONE = NONE
    Calls <- AllCalls
    RestoreFails = FALSE
SPECIFICATION CarefulSpec
INVARIANTS RightDirectory CwdRestored NoDescriptorLeak
PROPERTY MutexReleased
