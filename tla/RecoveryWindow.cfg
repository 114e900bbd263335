CONSTANTS
    Ops = {1, 2, 3}
    Safety <- Mixed
    Window = 1
    Probe = 0
SPECIFICATION LiveSpec
INVARIANTS
    UnconfirmedOnce
    UnresolvedHoldsGate
PROPERTIES
    WindowReleases
