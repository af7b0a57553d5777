CONSTANTS
    Calls = {c1, c2, c3}
    SandboxIds = {c1, c2, c3}
    NoSandbox = NoSandbox
    NoCall = NoCall
    MaxSuspends = 2
    MaxTime = 0
    Disconnects = TRUE
SPECIFICATION HFairSpec
INVARIANTS
    SessionSound
PROPERTIES
    WorkCompletes
CHECK_DEADLOCK FALSE
