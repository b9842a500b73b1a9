SPECIFICATION Spec
CONSTANTS
    SmoothingWindow = 6
    CycleCount = 1
    CyclePeriodMs = 20
    SamplesPerSecond = 250
    Levels = {0, 48}
INVARIANTS
    TypeOK
    SamplesOnlyWhatIsConfigured
PROPERTIES
    ImplementsRollingMean
    SettlesOnTheLoad
