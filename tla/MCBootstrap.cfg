SPECIFICATION FairBootSpec
CONSTANTS
    r1 = r1
    r2 = r2
    r3 = r3
    c1 = c1
    c2 = c2
    noKey = noKey
    NoRun = NoRun
    Run = {r1, r2, r3}
    Source <- MCSource
    SourceOf <- MCSourceOf
    Node = {c1, c2}
    NoKey = noKey
    Plan <- MCPlan
    MaxRetries = 1
    MaxNow = 0
    Contract <- MCContract
    Selected <- MCSelected
    Mode <- MCMode
    Credentialed <- MCCredentialed
    Core = {"cnpj"}
    CoreAllow = {"blocked_external"}
    MayReset = {TRUE, FALSE}
    MaxInvocations = 2
INVARIANTS
    LoadedRowComplete
    LoadedSinceReset
    ExitPolicy
PROPERTIES
    FailureIsReported
    BootstrapEnds
\* The invocations are bounded: after the last one nothing needs to happen.
CHECK_DEADLOCK FALSE
