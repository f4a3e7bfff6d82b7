SPECIFICATION Spec
CONSTANTS
    Requests = {r1, r2}
    Pairs = {p1, p2}
    Passwords = {pw1}
    Roles = {member}
    DefaultRole = member
    None = None
    MaxFaults = 1
    Ops <- FaultOps
SYMMETRY Symmetry
INVARIANTS
    TypeOK
    NoResurrection
    InvalidatedNeverAccepted
    LogoutSurvivesOneFault
PROPERTIES
    TokensNeverRevive
