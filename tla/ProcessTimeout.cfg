CONSTANTS
    SandboxIds = {id1}
    NoSandbox = NoSandbox
    MaxSuspends = 1
    MaxTime = 3
    Timeout = 1
    KillGrace = 1
    SettlePoll = 1
    Descendants = {d1, d2}
SPECIFICATION FairSpec
INVARIANTS
    TimeoutSound
PROPERTIES
    EndEventComes
