SPECIFICATION FairSpec
CONSTANTS
    t1 = t1
    t2 = t2
    c1 = c1
    c2 = c2
    None = None
    Turns <- MCTurns
    Cancels <- MCCancels
    MaxOutput = 2
    MaxChunks = 3
INVARIANTS
    TypeOK
    DeniedIsBlocked
    CancelledIsOver
PROPERTIES
    Contract
    TurnsEnd
CHECK_DEADLOCK FALSE
