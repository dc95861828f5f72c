SPECIFICATION Spec
CONSTANTS
    n1 = n1
    n2 = n2
    c1 = c1
    c2 = c2
    Nodes <- MCNodes
    Codes <- MCCodes
    Capacity = 2
    MaxEvents = 4
INVARIANTS
    TypeOK
    DequeIsNewestSuffix
    TimeoutMeansNoMatch
PROPERTIES
    ImplementsLog
