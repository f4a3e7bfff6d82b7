SPECIFICATION Spec
CONSTANTS
    Requests = {r1}
    Users = {u1}
    Creator = owner
    Labels = {l1}
    Notes = {n1}
    Targets <- ActiveTargets
    Ops <- LabelOps
    MaxOps = 1
    MaxFaults = 0
    None = None
    Absent = Absent
INVARIANTS LabelStored
CHECK_DEADLOCK FALSE
