SPECIFICATION FairSpec
CONSTANTS
    t1 = t1
    t2 = t2
    c1 = c1
    c2 = c2
    None = None
    Turns <- MCOneTurn
    Cancels <- MCOneCancel
    MissingIsFine = TRUE
PROPERTIES
    TimeoutEndsTurn
CHECK_DEADLOCK FALSE
