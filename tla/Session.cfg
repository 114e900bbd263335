CONSTANTS
    Ndx <- TwoNdx
    Pages <- TwoPages
    Choices <- TwoChoices
    Chunks = {2}
    Window = 2
    DcCap = 1
    Faults = {"open", "read", "listing", "dest", "begin", "basis", "mismatch",
              "commit", "link", "lose", "overtake"}
SPECIFICATION FairSpec
CHECK_DEADLOCK FALSE
INVARIANTS
    LedgerIsTrue
    SenderAgrees
PROPERTIES
    ImplementsContract
    SessionEnds
