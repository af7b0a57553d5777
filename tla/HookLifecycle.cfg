CONSTANTS
    SandboxIds = {id1, id2}
    NoSandbox = NoSandbox
    MaxSuspends = 3
    MaxTime = 7
SPECIFICATION Spec
INVARIANTS
    LifecycleSound
PROPERTIES
    RunningClockMonotone
    PauseCostsNothing
