CONSTANTS
    N = 2
    Trees <- Pairs
    Tokens = {1, 2, 3, 4, 5, 6}
    MaxRounds = 2
    MaxFaults = 2
    MaxVersion = 6
SPECIFICATION LiveSpec
CHECK_DEADLOCK FALSE
INVARIANTS
    ReadersSeeCommitted
    RoundIsResumable
PROPERTIES
    RoundEnds
