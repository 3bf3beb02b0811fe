SPECIFICATION Spec
CONSTANTS
    a1 = a1
    a2 = a2
    None = None
    Agents <- TwoAgents
    Seeded <- OneAgent
    Requests = {"createNew", "send1", "update1", "guardrail1", "delete1", "stop1"}
    Op <- MCOp
    Target <- MCTarget
    MaxCrashes = 0
    MaxFaults = 1
    MaxGrantChanges = 0
INVARIANTS
    NoOrphanRows
    RowHasWorkspace
    BusyFreezesConfiguration
CHECK_DEADLOCK FALSE
