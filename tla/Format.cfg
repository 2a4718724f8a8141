SPECIFICATION Spec
CONSTANTS
    STACK_BUF_SIZE = 2
    Limit = 4
    MaxText = 9
    Bad = 100
    Sizes = {0, 3}
    MaxDirectives = 1
    NULL = NULL
INVARIANT NoOverrun
