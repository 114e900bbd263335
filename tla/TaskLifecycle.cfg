CONSTANTS
    Tasks = {11, 12}
    Scans = {11}
    Execs = {1, 2}
    Limit = 1
    Configs = {1, 2}
    First = 1
    MaxEvents = 2
SPECIFICATION LiveSpec
CHECK_DEADLOCK FALSE
INVARIANTS
    RunsAreOwned
    RowsAreConsistent
PROPERTIES
    DeletedStaysDeleted
    TaskSettles
