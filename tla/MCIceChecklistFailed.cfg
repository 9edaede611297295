CONSTANTS
    LCands <- MCLCands
    RCands <- MCRCands
    CompIds <- MCCompIds
    InitRole = "Controlling"
    Tiebrk = 1
    PeerTiebrk = 2
    PrioBase = 16
    MaxInbound = 2
    MaxConflicts = 1
SPECIFICATION Spec
INVARIANT FailedConcludesNothing
CHECK_DEADLOCK FALSE
