CONSTANTS
    Timeouts = {1, 2, 6}
    Caps = {6}
    CapMargin = 1
    ResumeGrace = 2
    SuspendHold = 1
    AutoResumeMin = 2
    MaxExtensions = 2
    MaxTime = 8
    MaxSkew = 1
SPECIFICATION TFairSpec
INVARIANTS
    DeadlineSound
PROPERTIES
    KillIsFinal
    LifetimeEnds
CHECK_DEADLOCK FALSE
