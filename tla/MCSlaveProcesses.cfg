SPECIFICATION Spec
CONSTANTS
    SeqRange = 3
    BlockRegression = TRUE
    Modes = {"core", "restore", "corruption", "power-cycle", "power-interruption"}
    Capacity = 2
    MaxLate = 1
    CountRange = 5
    Retries = 2
    MaxForeign = 2
    GfcMaxLate = 2
INVARIANTS
    TypeOK
    PassHasEvidence
    PassMeansRestored
    FailureStillRestores
    NoCallOnUnknownChannel
    NoStrayFrame
