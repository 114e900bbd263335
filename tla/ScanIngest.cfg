CONSTANTS
    a = "a"
    b = "b"
    c = "c"
    w1 = "w1"
    w2 = "w2"
    Paths <- MCPaths
    Workers <- MCWorkers
    WorkerOf <- MCWorkerOf
    Scenarios <- MCScenarios
    Room = 2
    Chunk = 2
    Dispatch = 2
    Batch = 2
    ChanCap = 1
    MaxFaults = 2
SPECIFICATION Spec
CHECK_DEADLOCK FALSE
INVARIANTS
    CheckpointCovers
    RoundRecordsDifference
PROPERTIES
    ExecutionEnds
