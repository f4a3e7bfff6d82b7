SPECIFICATION Spec
CONSTANTS
    Requests = {r1, r2}
    Pairs = {p1, p2}
    Passwords = {pw1, pw2}
    Roles = {member}
    DefaultRole = member
    None = None
    MaxFaults = 0
    Ops <- LogoutOps
SYMMETRY Symmetry
INVARIANTS
    PasswordChangeForcesRelogin
