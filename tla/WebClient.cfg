SPECIFICATION Spec
CONSTANTS
    alice = alice
    bob = bob
    a1 = a1
    a2 = a2
    r1 = r1
    r2 = r2
    None = None
    Principals = {alice, bob}
    Agents = {a1, a2}
    Runs = {r1, r2}
    Target <- MCTarget
    Lists <- MCLists
    Views <- MCViews
    Scenarios <- MCScenarios
INVARIANTS
    TypeOK
    ShownIsSelected
    ActiveRunIsFollowed
PROPERTIES
    FollowedToTheEnd
CHECK_DEADLOCK FALSE
