SPECIFICATION FairSpec
CONSTANTS
    MaxPosts = 3
    Delays = {1, 2}
    Intervals = {0, 2}
    MaxLate = 1
    Never = 100
\* The thread ends with Stop.
CHECK_DEADLOCK FALSE
INVARIANTS NeverOversleeps CancelIsFinal
PROPERTIES DueIsTaken StopReturns
