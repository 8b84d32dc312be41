CONSTANTS
    Dataset <- Dates
    PlanOf <- PlanTable
    Outputs <- OutputTable
    Policy <- PolicyTable
    NoOption <- AlwaysSkip
    Compressed = {"eu_sanctions"}
    Size <- Sizes
    MaxAttempts = 2
    MaxRuns <- RunTable
    MaxTroubles <- TroubleTable

SPECIFICATION Spec

INVARIANTS
    SkippedIsWhole
    SuccessIsComplete
    OutputIsOfAsked

PROPERTIES
    RetriesSucceed

\* the operator may stop after a run that ended well
CHECK_DEADLOCK FALSE
