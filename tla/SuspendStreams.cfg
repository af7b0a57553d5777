CONSTANTS
    SandboxIds = {id1}
    NoSandbox = NoSandbox
    MaxSuspends = 2
    MaxTime = 8
    Streams = {s1}
    Transfers = {x1}
    StreamCloseGrace = 1
    HookBudget = 2
    FreezeThreshold = 1
    WatchdogTick = 1
    GateTimeout = 2
    FreezeFor = 2
    MaxFreezes = 1
    Disconnects = FALSE
SPECIFICATION CSpec
INVARIANTS
    CheckpointSound
CHECK_DEADLOCK FALSE
