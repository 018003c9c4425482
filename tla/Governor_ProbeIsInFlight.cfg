CONSTANTS
    FailureThreshold = 2
    FailureWindow = 1
    OpenFor = 2
    Window = 3
    MinSamples = 2
    Percent = 50
    ThinAt = 4
    ShallowAt = 6
    ProbeOnlyAt = 8
    BypassAt = 12
    Overheads = {3, 8, 12}
    MaxCalls = 2
SPECIFICATION Spec
INVARIANTS ProbeIsInFlight
CHECK_DEADLOCK FALSE
