SPECIFICATION SequentialSpec
CONSTANTS
    NULL = NULL
    Byte = {"a", "nl"}
    Delim = "nl"
    NUL = "NUL"
    Junk = "junk"
    MaxFile = 5
    Given = {0, 1, 3}
    GETDELIM_INITIAL_SIZE = 2
    Address = {"a", "b"}
    MaxAddrs = 2
    Signal = {"s1", "s2"}
    Unit = 2
    PerSec = 2
    INT_MAX = 1
    MaxAsked = 5
    MaxClock = 5
    NS = 2
    US = 3
    MaxTime = 7
    MaxSleep = 7
    Jump <- MCJump
    Exception = {"inexact", "invalid"}
    Rounding = {0, 3}
    MaxNest = 2
    Args <- MCArgs
    MaxArgs = 2
    Short <- Letters
    Longopts <- LongNames
    Modes = {"none", "-", ":"}
    Callers = {"getopt", "getopt_long", "getopt_long_only"}
INVARIANTS
    MeansWhatItSays InBounds Sorts Addresses Lines AsAsked Strung RoundTrip Formats
    FilesAsAsked Answers MaskBack Deadlines
PROPERTY FloatingPoint
