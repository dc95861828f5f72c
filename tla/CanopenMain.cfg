SPECIFICATION Spec
CONSTANTS
    MaxProcesses = 2
INVARIANTS
    TypeOK
    ZeroExitIsEarned
    UnaskedExitIsFailure
PROPERTIES
    StopLeadsToExit
