SPECIFICATION ProcessSpec
CONSTANTS
    Thread = {t1, t2}
    EGD_MAX_REQUEST = 2
    MaxLen = 3
    EntropyMax = 1
    SeedLen = 1
    ReseedAfter = 1
    NULL = NULL
    GLOBAL = GLOBAL
    NONE = NONE
    LocaleName = {"C", "fr", "xx"}
    C = "C"
    Known = {"C", "fr"}
    LocaleObj = {o1, o2, o3}
    MaxDepth = 3
    EnvName = {"TZ", "HOME"}
    TZ = "TZ"
    EnvValue = {"UTC", "CET"}
    UTC = "UTC"
    MaxVars = 3
    TempProcess = {p1, p2}
    Suffix = {s1, s2}
    MaxAttempts = 3
    OPEN_MAX = 5
    Cpu = {c1, c2, c3}
SYMMETRY Symmetry
INVARIANTS
    Types AllFilled SwitchedBack OneOwner Descriptors Inherits Fences
PROPERTY Environment
