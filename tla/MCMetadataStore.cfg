SPECIFICATION MCSpec
CONSTANTS
    v1 = v1
    v2 = v2
    j1 = j1
    j2 = j2
    h1 = h1
    a1 = a1
    t1 = t1
    None = None
    Versions = {v1, v2}
    Jobs = {j1, j2}
    Hashes = {h1}
    Acls = {a1}
    Attempts = {t1}
    Stamps <- MCStamps
    MaxRevision = 2
    MaxGeneration = 2
SYMMETRY Symmetry
INVARIANTS
    TypeOK
    UniqueActive
    ActiveHasMaxRevision
    LeaseAgreesWithJob
PROPERTIES
    ImplementsActiveVersion
CHECK_DEADLOCK FALSE
