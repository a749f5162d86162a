SPECIFICATION DtmfFairSpec
CONSTANTS
    TgIn = {1}
    TgOut = {11}
    NoTg = 0
    MaxCalls = 2
    MaxIncoming = 1
    MaxCtx = 2
    CallbackUri = TRUE
    MediaChanges <- MediaUp
    Repeats = FALSE
    Signals = FALSE
    UserOf <- OneUser
    ChatIds = {7, 8}
    MaxMessages = 0
\* The process may end, by a signal or by an uncaught exception.
CHECK_DEADLOCK FALSE
INVARIANTS NoOrphanedCall LegsAccounted
PROPERTIES TornDownForCause LegOverEndsBridge
