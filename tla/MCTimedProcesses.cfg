SPECIFICATION Spec
CONSTANTS
    SampleCount = 2
    RetryCount = 2
    MaxFrames = 4
    SyncSamples = 2
    MaxEvents = 5
    DayLength = 5
    Days = 20
    Tolerance = 1
    Wait = 2
    MaxTicks = 4
    MaxPolls = 1
INVARIANTS
    TypeOK
    ReadingsAreSound
    PassHasEvidence
    PassMeansRestored
PROPERTY StartedOnlyRestored
