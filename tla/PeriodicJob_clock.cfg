SPECIFICATION Spec
CONSTANTS
    SecondsPerMinute = 4
    MinutesPerHour = 3
    HoursPerDay = 2
    DaysPerWeek = 2
    DaysPerMonth = 3
    MonthsPerYear = 2
    CheckInterval = 2
    Delay = 1
    Executors = 1
    Lead = 1
    Duration = 13
    MaxRows = 3
    Scenarios <- MCScenarios
INVARIANTS
    TypeOK
    ParsedAsMeant
    EndedNotRepeated
PROPERTIES
    StartsWhenMeant
    MissedOnlyAfterLateEnd
CHECK_DEADLOCK FALSE
