SPECIFICATION Spec
CONSTANTS
    Requests = {r1}
    Attachments = {a1}
    MaxFaults = 1
    None = None
PROPERTIES RetriesHappen
