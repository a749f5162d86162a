SPECIFICATION FairSpec
CONSTANTS
    a = a
    t = t
    NoCall = NoCall
    SipCalls = {a}
    TgIds = {t}
    Methods = {"BYE", "INFO"}
    Cap = 1
    Cancel = TRUE
\* Everybody may have hung up, ctx been cancelled, or the loop wait for itself.
CHECK_DEADLOCK FALSE
INVARIANTS SessionHasContext
PROPERTIES HandlersReturn ByeRemovesContext
