SPECIFICATION Spec
CONSTANTS
  Paths <- MCPaths
  Workers = {w1, w2}
  Consumers = {stats, db}
  Statistics = stats
  Buffer = 1
  Room = 1
  Cases <- MCCases
  Edited <- MCEdited
  MaxEdits = 1
  MaxFaults = 1
CHECK_DEADLOCK FALSE
INVARIANTS
    ReportIsComplete
    FixedMeansRepaired
PROPERTIES
    CheckReturns
