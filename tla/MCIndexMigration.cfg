SPECIFICATION FairIndexSpec
CONSTANTS
    p1 = p1
    p2 = p2
    c2 = c2
    v1 = v1
    None = None
    Corpus = Corpus
    Procs = {p1, p2}
    Targets = {c2}
    Configured = None
    Versions = {v1}
    MaxAsked = 3
    MaxStarts = 1
    MaxFaults = 1
INVARIANTS
    IndexTypeOK
    SwitchIsKept
PROPERTIES
    PointersConverge
    ActiveIsSearchable
CHECK_DEADLOCK FALSE
