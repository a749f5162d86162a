SPECIFICATION Spec
CONSTANTS
    Peers = {a, b}
    MaxInFlight = 1
    Silent = {a}
CHECK_DEADLOCK FALSE
INVARIANTS EstablishedIsMutual
PROPERTIES SoundOnBothSides ReconnectingEnds
