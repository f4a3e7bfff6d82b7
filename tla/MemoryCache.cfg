CONSTANTS
    k1 = k1
    k2 = k2
    Keys = {k1, k2}
    Patterns <- MCPatterns
    Text = text
    By <- MCBy
    MaxTime = 3
    MaxTTL = 2
    Half = 2
    Yes = yes
    No = no
    None = None
SPECIFICATION Spec
INVARIANTS
    TypeOK
PROPERTIES
    KeepsItsPromises
