SPECIFICATION Spec
CHECK_DEADLOCK FALSE
INVARIANTS
    SecretsSound
    DeploymentsSound
    StacksSound
    ImagesSound
    TemplatesSound
    ProjectsSound
    FeaturesSound
    SandboxCallsSound
    CommandsSound
    TrafficSound
    DashboardSound
    PlansAndReadsSound
