SPECIFICATION Spec
CONSTANTS
    Window = {w1, w2}
    StaleMinutes = 0
    Overlap = FALSE
    Dawdle = FALSE
    SetBack = FALSE
    NWorkers = 2
    LastDate = 3
    MonthOf <- MCMonthOf
    KeepDays = 0
    Absence <- MCAbsence
    ReadFaults = FALSE
    MaxCommands = 3
SYMMETRY WindowSymmetry
INVARIANTS
    SameDaySameAnswer
