CONSTANTS
    Walk <- MCWalk
    PageSize = 2
    Window = 4
    SourceChunk = 5
    TargetChunks = {2, 4}
    MaxAttempts = 3
    MaxFaults = 3
SPECIFICATION Spec
CHECK_DEADLOCK FALSE
INVARIANTS
    EndsAgree
PROPERTIES
    BothReturn
