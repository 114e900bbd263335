CONSTANTS
    Dirs = {"d", "e"}
    Files = {"df", "ef", "g"}
    Parent <- MCParent
    Name <- MCName
    Order <- MCOrder
    First = {"d", "df"}
    MaxChanges = 2
    MaxFaults = 1
    MaxRuns = 3
SPECIFICATION Spec
CHECK_DEADLOCK FALSE
INVARIANTS
    CommittedMatches
    SkipsAreCopied
    MovedIsKept
PROPERTIES
    DeletesOnlyGone
