SPECIFICATION FairChatSpec
CONSTANTS
    Evidence <- MCEvidence
    Text <- MCText
    DocVersion <- MCDocVersion
    Facts <- MCFacts
    First <- MCFirst
    Required <- MCRequired
    Queries <- MCQueries
    Question = "question"
    GapQuery <- MCGapQuery
    Worlds <- MCWorlds
    World <- MCWorld
    MaxRounds = 3
    ReuseRunId = FALSE
    Revocable = {"a", "b"}
    MaxFailures = 1
    MaxJudgeFaults = 1
INVARIANTS
    ChatTypeOK
    OnlyFreshEvidence
    VerdictFitsEvidence
    VerdictBeforeGaps
    CallsAreBounded
    AllRevokedIsFinal
PROPERTIES
    RoundNeverBack
    RunCompletes
CHECK_DEADLOCK FALSE
