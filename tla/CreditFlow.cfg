CONSTANTS
    Tasks = {t1, t2}
    Window = 4
    Costs = {1, 2, 3, 4, 5}
    MaxSends = 3
    MaxForged = 1
    Refuses = TRUE
    Closes = TRUE
SPECIFICATION FairSpec
CHECK_DEADLOCK FALSE
INVARIANTS
    CreditConserved
    OwedCreditNeverDiscarded
    NoLostWakeup
PROPERTIES
    AcquireReturns
