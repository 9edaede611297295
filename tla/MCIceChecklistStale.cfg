CONSTANTS
    LCands <- MCLCandsSwap
    RCands <- MCRCandsSwap
    CompIds <- MCCompIdsOne
    InitRole = "Controlling"
    Tiebrk = 1
    PeerTiebrk = 2
    PrioBase = 16
    MaxInbound = 2
    MaxConflicts = 1
SPECIFICATION Spec
PROPERTY SelectedBest
CHECK_DEADLOCK FALSE
