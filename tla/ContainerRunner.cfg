SPECIFICATION FairSpec
CONSTANTS
    t1 = t1
    t2 = t2
    c1 = c1
    c2 = c2
    None = None
    Turns <- MCTurns
    Cancels <- MCCancels
    MissingIsFine = TRUE
INVARIANTS
    TypeOK
    LeftoverHasReason
    CancelledIsOver
PROPERTIES
    Contract
    RemovedTurnEnds
CHECK_DEADLOCK FALSE
