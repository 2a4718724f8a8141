CONSTANTS
    Thread = {t1, t2}
    SST_STRIPE_COUNT = 16
    WordBits = 2
    Obj <- MixedObj
    Size <- MCSize
    Word <- MCWord
    OpCode <- MCOpCode
    EXPR <- Expr
    Calls <- MixedCalls
SPECIFICATION Spec
PROPERTY Linearizable
