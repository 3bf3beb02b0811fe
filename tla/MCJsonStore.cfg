SPECIFICATION FairSpec
CONSTANTS
    send1 = send1
    send2 = send2
    other = other
    Ops <- MCOps
    Excludes <- MCExcludes
    Absent = Absent
    Torn = Torn
    MaxCrashes = 2
    MaxFaults = 2
INVARIANTS
    TypeOK
    AcknowledgedIsDurable
    FailedLeavesNoTrace
    ChecksHoldAtCommit
    CommitsInCallOrder
PROPERTIES
    Abstract
    EveryCallSettles
CHECK_DEADLOCK FALSE
