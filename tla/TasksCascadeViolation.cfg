SPECIFICATION Spec
CONSTANTS
    Requests = {r1}
    Users = {u1}
    Creator = owner
    Labels = {}
    Notes = {n1}
    Targets <- ActiveTargets
    Ops <- CascadeOps
    MaxOps = 1
    MaxFaults = 0
    None = None
    Absent = Absent
INVARIANTS CacheCoherent
CHECK_DEADLOCK FALSE
