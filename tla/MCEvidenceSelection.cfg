SPECIFICATION Spec
CONSTANTS
    NumCorpora = 3
    TopK = 2
    MaxVersion = 2
    Forever = 9
    Results <- MCResults
    Snapshots <- MCSnapshots
    NormalText <- MCNormalText
    Scopes <- MCScopes
    MaxPinned = 3
INVARIANTS
    SelectionTypeOK
    RefusalIsAbsence
    EveryDropIsExplained
    AnswerIsConsistent
CHECK_DEADLOCK FALSE
