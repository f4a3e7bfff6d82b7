SPECIFICATION Spec
CONSTANTS
    Requests = {r1, r2}
    Attachments = {a1, a2}
    MaxFaults = 2
    None = None
INVARIANTS
    TypeOK
    ObjectsAccounted
    RowsBacked
    DeletionsKept
    UploadsLast
PROPERTIES
    DeletionsComplete
