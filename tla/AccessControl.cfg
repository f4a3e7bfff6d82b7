CONSTANTS
    Requests = {r1}
    Ids = {i1, i2}
    User = user
    o1 = o1
    o2 = o2
    Roles = {o1, o2}
    RoleLists <- MCRoleLists
    Names <- MCNames
    Claimed <- MCClaimed
    MaxFaults = 1
    None = None
SPECIFICATION Spec
SYMMETRY Symmetry
INVARIANTS
    TypeOK
    RunsOnlyIfGranted
    StandingGrantIsHonoured
    StrongerRolePasses
