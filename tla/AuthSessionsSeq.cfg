SPECIFICATION Spec
CONSTANTS
    Requests = {r1}
    Pairs = {p1, p2}
    Passwords = {pw1, pw2}
    Roles = {member, admin}
    DefaultRole = member
    None = None
    MaxFaults = 1
    Ops <- SeqOps
SYMMETRY Symmetry
INVARIANTS
    LiveTokensCurrent
