CONSTANTS
    Sizes <- MCSizes
    Capacity = 2
    BatchSize = 1
    MaxRuns = 2
    MaxPosts = 2
    MaxBreaks <- MCBreaks
    MaxFaults = 1
SPECIFICATION Spec
CHECK_DEADLOCK FALSE
INVARIANTS
    CountsAreListed
    FinalReport
PROPERTIES
    NoDetailDropped
