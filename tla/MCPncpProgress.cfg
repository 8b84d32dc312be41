SPECIFICATION Spec
CONSTANTS
    Record = {1, 2, 3}
    DayOf <- MCDayOf
    ModOf <- MCModOf
    Modalidade = {6}
    MonthOf <- MCMonthOf
    LastDay = 5
    WindowDays = 3
    PageSize = 1
    MaxRetries = 2
    Torn = {"cut"}
    MaxKills = 1
INVARIANTS
    ProgressNeverLost
