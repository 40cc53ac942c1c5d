SPECIFICATION FairJobSpec
CONSTANTS
    w1 = w1
    w2 = w2
    p1 = p1
    p2 = p2
    j1 = j1
    j2 = j2
    v1 = v1
    v2 = v2
    h1 = h1
    a1 = a1
    t1 = t1
    t2 = t2
    t3 = t3
    t4 = t4
    None = None
    Versions = {v1, v2}
    Jobs = {j1, j2}
    Hashes = {h1}
    Acls = {a1}
    Attempts = {t1, t2, t3}
    Stamps <- MCStamps
    Workers = {w1}
    Procs = {p1}
    ProcOf <- OneProcess
    Requests <- TwoVersions
    FaultPoints <- Everywhere
    MaxFaults = 1
    MaxCrashes = 1
    MaxGeneration = 4
    RecoverLive = FALSE
PROPERTIES
    CommittedEventuallyPublished
CHECK_DEADLOCK FALSE
