SPECIFICATION Spec
CONSTANTS
    a1 = a1
    a2 = a2
    None = None
    Agents <- OneAgent
    Seeded <- OneAgent
    Requests = {"send1", "send2", "stop1", "start1"}
    Op <- MCOp
    Target <- MCTarget
    MaxCrashes = 0
    MaxFaults = 0
    MaxGrantChanges = 0
INVARIANTS
    OneActiveRun
CHECK_DEADLOCK FALSE
