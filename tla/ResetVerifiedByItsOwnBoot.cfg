SPECIFICATION Spec
CONSTANTS
    MaxProcesses = 2
PROPERTIES
    ResetVerifiedByItsOwnBoot
