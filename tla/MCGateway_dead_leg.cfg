SPECIFICATION DtmfSpec
CONSTANTS
    TgIn = {1, 2}
    TgOut = {}
    NoTg = 0
    MaxCalls = 1
    MaxIncoming = 0
    MaxCtx = 2
    CallbackUri = TRUE
    MediaChanges <- MediaUp
    Repeats = FALSE
    Signals = FALSE
    UserOf <- OneUser
    ChatIds = {7, 8}
    MaxMessages = 0
\* The process may end, by a signal or by an uncaught exception.
CHECK_DEADLOCK FALSE
INVARIANTS SipLegAccounted
