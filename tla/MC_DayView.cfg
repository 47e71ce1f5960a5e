SPECIFICATION ShowSpec
CONSTANTS
    NWorkers = 2
    NTasks = 2
    TaskSet = {"A", "B"}
    Weekday = {"mon", "tue", "sun"}
    Category = {"one", "two", "ghost"}
    LastDate = 5
    WeekdayOf <- MCWeekdayOf
    Plans <- MCPlans
    MaxRuns = 1
    SearchLimit = 2
    LastTime = 5
    LateAbsence <- MCLateAbsence
    WeeklyOff = {{}, {"mon"}}
INVARIANTS
    NowOrNext
    EveryRecordShown
    CleanPlansWhole
    ShortageIsWarned
