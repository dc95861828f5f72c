SPECIFICATION Spec
CONSTANTS
    MaxRetries = 2
    Pairs = 2
    MaxQueue = 2
    MaxLate = 1
INVARIANTS
    TypeOK
    NoThreadOutsideScope
    OneRequestAtATime
    PassHasEvidence
    PassMeansRestored
PROPERTY
    Terminates
