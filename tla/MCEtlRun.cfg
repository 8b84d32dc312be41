SPECIFICATION FairSpec
CONSTANTS
    r1 = r1
    r2 = r2
    c1 = c1
    c2 = c2
    f1 = f1
    noKey = noKey
    Run = {r1, r2}
    Source <- MCSource
    SourceOf <- MCSourceOf
    Node <- MCNode
    NoKey = noKey
    Plan <- MCPlan
    MaxRetries = 3
    MaxNow = 1
INVARIANTS
    StatusHasWitness
    StaleErrorOnlyIfShared
    ExitOkIsComplete
PROPERTIES
    FinalStatusKept
    EveryRunEnds
\* Each process runs once.
CHECK_DEADLOCK FALSE
