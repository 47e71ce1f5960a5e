SPECIFICATION Spec
CONSTANTS
    NWorkers = 3
    NTasks = 3
    TaskSet = {"A", "B"}
    Weekday = {"mon", "tue"}
    Category = {"one", "two", "ghost"}
    LastDate = 3
    WeekdayOf <- MCWeekdayOf
    Plans <- MCPlans
    MaxRuns = 3
INVARIANTS
    CallsAreSound
    SlotsConflictFree
    EverySeatOnRecord
    RotationContinues
    LeftOverGoFirst
\* A bounded number of computed days: the model stops after MaxRuns.
CHECK_DEADLOCK FALSE
