SPECIFICATION FairSpec
CONSTANTS
    a1 = a1
    a2 = a2
    None = None
    Agents <- OneAgent
    Seeded <- OneAgent
    Requests = {"send1", "send2", "stop1", "start1"}
    Op <- MCOp
    Target <- MCTarget
    MaxCrashes = 1
    MaxFaults = 1
    MaxGrantChanges = 1
INVARIANTS
    TypeOK
    OneProcessPerAgent
    BusyHasExecution
    ActiveRunIsExecuting
    StopEndsRuns
PROPERTIES
    Ledger
    RevokedNeverRuns
    RunsEnd
    RequestsSettle
CHECK_DEADLOCK FALSE
