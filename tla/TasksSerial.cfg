SPECIFICATION Spec
CONSTANTS
    Requests = {r1}
    Users = {u1}
    Creator = owner
    Labels = {l1}
    Notes = {n1}
    Targets <- ActiveTargets
    Ops <- SerialOps
    MaxOps = 3
    MaxFaults = 1
    None = None
    Absent = Absent
INVARIANTS
    TypeOK
    EventsFollowWrites
PROPERTIES SerialUpdatesAreLegal
CHECK_DEADLOCK FALSE
