CONSTANTS
    Servers = {s1, s2}
    Users = {user}
    Permissions = {p1, p2}
    admin = admin
    member = member
    p1 = p1
    p2 = p2
    Order <- MCOrder
    Desired <- MCDesired
    Obsolete = {guest}
    MaxFaults = 1
    MaxStarts = 1
    None = None
SPECIFICATION Spec
CHECK_DEADLOCK FALSE
INVARIANTS
    TypeOK
    ServesSeededRoles
    NoWaitCycle
PROPERTIES
    SeedingKeepsUsers
    StartsEnd
    OneServes
