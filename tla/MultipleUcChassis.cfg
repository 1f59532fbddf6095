\* Calls may overlap; a chassis of two wheels with a microcontroller each; a
\* chunk of telemetry at a time waits at each port.
SPECIFICATION Spec
CONSTANTS
    Handlers = {h1, h2}
    MayOverlap = TRUE
    MaxCommands = 2
    MaxUnread = 1
    WheelCount = 2
INVARIANTS
    TypeOK
    HealthyWheelsFollow
    OkMeansApplied
PROPERTIES
    NeverGoesBack
    IsExecutor
    LossesReported
CHECK_DEADLOCK FALSE
