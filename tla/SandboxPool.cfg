CONSTANTS
    Size = 1
    FillConcurrency = 1
    MaxVMs = 2
    Takers = {t1}
    MaxFaults = 1
SPECIFICATION FairSpec
INVARIANTS
    PoolSound
PROPERTIES
    HeldIsSafe
    Refills
    CloseEnds
CHECK_DEADLOCK FALSE
