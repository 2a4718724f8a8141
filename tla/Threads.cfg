SPECIFICATION ThreadsSpec
CONSTANTS
    Thread = {t1, t2}
    NONE = NONE
    Initial = 0
    MaxPosts = 1
    MaxTime = 2
    Deadlines <- MCDeadlines
    SetBacks = 1
    SST_STRIPE_COUNT = 2
    WordBits = 1
    Obj <- MCObj
    Size <- MCSize
    Word <- MCWord
    OpCode <- MCOpCode
    EXPR <- Expr
    Calls <- MCCalls
INVARIANT WaitResult
PROPERTIES Linearizable StripeReleased WaitReturns
