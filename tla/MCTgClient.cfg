SPECIFICATION FairSpec
CONSTANTS
    MaxQuery = 6
    Contacts = 2
CHECK_DEADLOCK FALSE
INVARIANTS SendersExclude HandlersMatchQueries
PROPERTIES Implements SessionLossEndsProcess JoinEnds
