SPECIFICATION Spec
CONSTANTS
    Capacities = {1, 2}
    Rates = {1, 2}
    Second = 4
    Grain = 2
    Unit = 4
    MaxCount = 2
    MaxTime = 14
    MaxGrants = 5
    MaxEdits = 1
INVARIANTS
    TypeOK
    WindowBound
    LeakBound
    RefusedOnlyWhenFull
