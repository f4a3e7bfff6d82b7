SPECIFICATION Spec
CONSTANTS
    Requests = {r1}
    Attachments = {a1}
    MaxFaults = 0
    None = None
INVARIANTS NothingLeftBehind
