SPECIFICATION Spec
CONSTANTS
    NS = 2
    US = 3
    MaxTime = 7
    MaxSleep = 7
    Jump = {4}
INVARIANT NeverUnderSleeps
