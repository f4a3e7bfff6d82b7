SPECIFICATION Spec
CONSTANTS
    Requests = {r1, r2}
    Users = {u1}
    Creator = owner
    Labels = {}
    Notes = {n1}
    Targets <- ActiveTargets
    Ops <- RaceOps
    MaxOps = 2
    MaxFaults = 0
    None = None
    Absent = Absent
PROPERTIES DoneOnlyArchives
CHECK_DEADLOCK FALSE
