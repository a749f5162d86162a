SPECIFICATION FairSpec
CONSTANTS
    MaxQuery = 12
    MaxTrouble = 2
CHECK_DEADLOCK FALSE
INVARIANTS TypeOK
PROPERTIES AskedAgainOnFailure AnswersEveryState
