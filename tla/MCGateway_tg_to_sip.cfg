SPECIFICATION DtmfFairSpec
CONSTANTS
    TgIn = {1}
    TgOut = {}
    NoTg = 0
    MaxCalls = 2
    MaxIncoming = 0
    MaxCtx = 2
    CallbackUri = TRUE
    MediaChanges <- AllMedia
    Repeats = TRUE
    Signals = TRUE
    UserOf <- OneUser
    ChatIds = {7, 8}
    MaxMessages = 1
\* The process may end, by a signal or by an uncaught exception.
CHECK_DEADLOCK FALSE
INVARIANTS TypeOK UniqueTgLeg TalkingWasWired DtmfFindsCall
PROPERTIES RingIsTakenUp
