SPECIFICATION Spec
CONSTANTS
    o1 = o1
    v1 = v1
    v2 = v2
    Objects <- MCObjects
    Values <- MCValues
    MaxCalls = 3
INVARIANTS
    TypeOK
PROPERTIES
    QuietBetweenCalls
    ImplementsService
