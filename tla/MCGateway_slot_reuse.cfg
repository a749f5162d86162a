SPECIFICATION DtmfFairSpec
CONSTANTS
    TgIn = {1}
    TgOut = {11, 12}
    NoTg = 0
    MaxCalls = 1
    MaxIncoming = 2
    MaxCtx = 3
    CallbackUri = FALSE
    MediaChanges <- MediaUpDown
    Repeats = TRUE
    Signals = FALSE
    UserOf <- OneUser
    ChatIds = {7, 8}
    MaxMessages = 1
\* The process may end, by a signal or by an uncaught exception.
CHECK_DEADLOCK FALSE
INVARIANTS NoOrphanedTgCall TgLegAccounted TalkingWasWired DtmfFindsCall
