SPECIFICATION Spec
CONSTANTS
    NumCorpora = 3
    TopK = 2
    MaxVersion = 2
    Forever = 9
    Results <- MCResults
    Snapshots <- MCSnapshots
    NormalText <- MCNormalText
    Scopes <- MCScopes
    MaxPinned = 3
INVARIANT
    OutageIsDisclosed
CHECK_DEADLOCK FALSE
