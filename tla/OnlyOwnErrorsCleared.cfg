SPECIFICATION Spec
CONSTANTS
    CountRange = 5
    Retries = 2
    MaxForeign = 1
PROPERTY OnlyOwnErrorsCleared
