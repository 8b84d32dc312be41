SPECIFICATION Spec
CONSTANTS
    r1 = r1
    r2 = r2
    r3 = r3
    Run = {r1, r2, r3}
    Pair = {"ana", "sa"}
    LabelOf <- MCLabelOf
    Snapshot = {0, 1, 2}
    Entry = {0, 1, 2}
    administrador = administrador
    diretor = diretor
    Role = {administrador, diretor}
    NoRow = NoRow
    Jobs <- AllJobs
    NoJob = NoJob
    ChunkSize = 2
SYMMETRY Processes
INVARIANTS
    DatedIsProjected
    ImplementationsAgree
\* Each process runs once.
CHECK_DEADLOCK FALSE
