CONSTANTS
    SandboxIds = {id1}
    NoSandbox = NoSandbox
    MaxSuspends = 2
    MaxTime = 11
    Streams = {}
    Transfers = {}
    StreamCloseGrace = 1
    HookBudget = 2
    FreezeThreshold = 1
    WatchdogTick = 1
    GateTimeout = 2
    FreezeFor = 2
    MaxFreezes = 1
    Disconnects = FALSE
SPECIFICATION CFairSpec
PROPERTIES
    RecoveryWaits
    StaleSuspendEnds
CHECK_DEADLOCK FALSE
