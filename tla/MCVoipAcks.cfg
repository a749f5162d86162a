SPECIFICATION AcksSpec
CONSTANTS
    Window = 3
    MaxRecent = 2
    Reliable = {p}
    Threads = {t1, t2}
    SocketBlocks = TRUE
    MaxExtra = 2
    MaxSeq = 3
    MaxAcks = 1
INVARIANTS OnceWithinTheWindow InOrderExtraAckedArrived
