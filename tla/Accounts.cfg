CONSTANTS
    Requests = {r1, r2}
    Users = {u1, u2}
    Emails = {e1, e2, e3}
    Passwords = {p1, p2}
    Roles = {role, role2}
    DefaultRole = role
    MaxOps = 3
    MaxFaults = 1
    None = None
SPECIFICATION Spec
SYMMETRY Symmetry
CHECK_DEADLOCK FALSE
INVARIANTS
    TypeOK
    CachesCoherent
    AccountsAsAsked
