SPECIFICATION Spec
CHECK_DEADLOCK FALSE
CONSTANTS
    MaxRestarts = 2
    Window = 2
    LastTick = 4
    MaxApps = 4
INVARIANTS
    AgentRunsSound
    SandboxControlSound
    TransfersSound
    AppSupervisorSound
PROPERTIES
    FlowsEnd
