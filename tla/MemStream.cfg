SPECIFICATION Spec
CONSTANTS
    Thread = {t1, t2}
    Stream = {s1, s2}
    LowFd = {s1}
    Byte = {a}
    NUL = NUL
    Old = Old
    Junk = Junk
    Buf = {b1, b2, b3}
    NULL = NULL
    MaxLen = 2
    FixedSize = 1
    Shared = FALSE
SYMMETRY Symmetry
INVARIANTS TypeOK RegistryExact Transparent Snapshot HeapSound
