SPECIFICATION FairExecSpec
CONSTANTS
    Steps <- MCSteps
    Plans <- MCPlans
    Concurrency = 2
    RetryTimeouts = {1}
INVARIANTS
    ExecTypeOK
    BudgetAccounted
    NeverExhausted
    StepWithinItsCalls
    CalledAfterDependencies
    EveryStepAnswered
    FailedClosedIsRaised
PROPERTIES
    Terminates
CHECK_DEADLOCK FALSE
