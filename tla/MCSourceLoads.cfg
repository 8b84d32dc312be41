CONSTANTS
    Cpfs = {"cpf1", "cpf2", "cpf3"}
    Cnpjs = {"cnpj1", "cnpj2"}
    Days <- InOrder
    Histories <- LoadHistories
    Registry <- Known
    MaxAborts = 1

SPECIFICATION Spec

INVARIANTS
    FailureLeavesNoTrace
    RecordsStay
    FactsApart
    LinkedToWhoIsMeant
    OneNodePerParty
    RowsFindTheirEnds
    RowsAreFit

PROPERTIES
    NamesAreKept

\* a history ends with its last file
CHECK_DEADLOCK FALSE
