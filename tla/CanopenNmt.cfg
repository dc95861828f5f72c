SPECIFICATION Spec
CONSTANTS
    node1 = node1
    node2 = node2
    Nodes <- MCNodes
    States <- MCStates
    BootUp = "BOOTUP"
    MaxReports = 3
    MaxWire = 2
INVARIANTS
    TypeOK
    ConfirmedHasEvidence
PROPERTIES
    TimeoutLosesNoConfirmation
