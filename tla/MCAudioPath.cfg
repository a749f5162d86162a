SPECIFICATION FairSpec
CONSTANTS
    DecPool = 3
    DecCapacity = 4
    EncPool = 2
    EncCapacity = 3
    FarPool = 2
    FarCapacity = 3
    EnableAEC = TRUE
\* Nothing is left to do once the controller is deleted.
CHECK_DEADLOCK FALSE
INVARIANTS NeverAborts NothingLost
PROPERTIES ClockGoesOn DeletionEnds
