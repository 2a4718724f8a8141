SPECIFICATION Spec
CONSTANTS
    Name = {"C", "fr", "xx"}
    C = "C"
    Known = {"C", "fr"}
    Obj = {o1, o2}
    NULL = NULL
    GLOBAL = GLOBAL
    MaxDepth = 2
INVARIANT TemporarySwitch
