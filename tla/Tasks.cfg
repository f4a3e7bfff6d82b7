SPECIFICATION Spec
CONSTANTS
    Requests = {r1, r2}
    Users = {u1}
    Creator = owner
    Labels = {}
    Notes = {n1}
    Targets <- ActiveTargets
    Ops <- ConcurrentOps
    MaxOps = 4
    MaxFaults = 0
    None = None
    Absent = Absent
SYMMETRY Symmetry
INVARIANTS
    CacheCoherent
    EventsFollowWrites
PROPERTIES
    UpdatesAreLegal
CHECK_DEADLOCK FALSE
