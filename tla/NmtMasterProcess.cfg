SPECIFICATION Spec
CONSTANT Capacity = 3
INVARIANTS
    TypeOK
    PassMeansExactSequence
    HeartbeatWhileWaiting
    CleanAfterRun
PROPERTY ImplementsCommandQueue
