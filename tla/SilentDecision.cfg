SPECIFICATION Spec
CONSTANTS
    alice = alice
    bob = bob
    a1 = a1
    a2 = a2
    c1 = c1
    c2 = c2
    c3 = c3
    l1 = l1
    l2 = l2
    None = None
    Unset = Unset
    Principals = {alice, bob}
    Admins = {alice}
    Callbacks = {c1, c2, c3}
    Logins = {l1, l2}
    Agents = {a1, a2}
    Requests = {"grant", "grant2", "grantNew", "revoke", "edit", "edit2", "editBad", "view", "delete", "create", "auditOne", "auditOwn", "auditAll"}
    Subject <- MCSubject
    LoginOf <- MCLoginOf
    Ask <- MCAsk
    Scenarios <- MCUnknownUser
    OwnPatterns = {"own"}
    Texts <- MCTexts
    BadPattern = "bad"
    MaxRules = 2
    LoginTTL = 1
    HandoffTTL = 1
    SessionTTL = 2
    MaxTime = 2
    PageSize = 1
    MaxCrashes = 0
    MaxFaults = 0
INVARIANTS
    NoDecisionIsSilent
CHECK_DEADLOCK FALSE
