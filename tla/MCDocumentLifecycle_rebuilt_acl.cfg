SPECIFICATION LifecycleSpec
CONSTANTS
    v1 = v1
    v2 = v2
    j1 = j1
    j2 = j2
    h1 = h1
    t1 = t1
    t2 = t2
    None = None
    Corpus = "wiki"
    Versions = {v1, v2}
    Jobs = {j1, j2}
    Hashes = {h1}
    Hash = h1
    Acls <- MCAcls
    Principals <- MCPrincipals
    Attempts = {t1, t2}
    Stamps <- MCStamps
    Scenarios <- TightenedThenRestarted
PROPERTY
    ReconcilerRespectsAcl
CHECK_DEADLOCK FALSE
