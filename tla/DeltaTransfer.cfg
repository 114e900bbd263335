CONSTANTS
    Sources <- MCSources
    Bases <- MCBases
    BlockSize = 2
    Modulus = 2
    LiteralMax = 2
    CoalesceMax = 4
    ChunkMax = 3
    Overwrites <- MCOverwrites
    WireMax = 2
    MaxFaults = 1
SPECIFICATION Spec
CHECK_DEADLOCK FALSE
INVARIANTS
    RebuildsSource
    OutcomeIsRight
PROPERTIES
    NoMissedBlock
