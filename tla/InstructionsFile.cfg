SPECIFICATION Spec
CONSTANTS
    a1 = a1
    a2 = a2
    None = None
    Agents <- OneAgent
    Seeded <- OneAgent
    Requests = {"send1", "update1", "update2"}
    Op <- MCOp
    Target <- MCTarget
    MaxCrashes = 0
    MaxFaults = 0
    MaxGrantChanges = 0
INVARIANTS
    InstructionsFileCurrent
CHECK_DEADLOCK FALSE
