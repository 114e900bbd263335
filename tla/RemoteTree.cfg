CONSTANTS
    Paths <- MCPaths
    Parent <- MCParent
    Walk <- MCWalk
    SourceTrees <- MCSources
    DestTrees <- MCDests
    Handshakes <- MixedHandshakes
    Tokens = {"k", "w"}
    DeleteTarget = TRUE
    EnableAcl = TRUE
    CheckpointEvery = 1
    MaxFaults = 1
    MaxSessions = 2
SPECIFICATION Spec
CHECK_DEADLOCK FALSE
INVARIANTS
    MirrorWhenClean
    CheckpointIsPublished
PROPERTIES
    OnlyPermittedChanges
    BothEnd
