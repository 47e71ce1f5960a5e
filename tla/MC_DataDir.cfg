SPECIFICATION Spec
CONSTANTS
    Window = {w1, w2}
    StaleMinutes = 1
    Overlap = FALSE
    Dawdle = FALSE
    SetBack = FALSE
    NWorkers = 2
    LastDate = 3
    MonthOf <- MCMonthOf
    KeepDays = 0
    Absence <- MCAbsence
    ReadFaults = FALSE
    MaxCommands = 3
SYMMETRY WindowSymmetry
INVARIANTS
    MutualExclusion
    HolderIsNamed
    NoHistoryLost
    CursorOnRecord
    NoLostUpdate
PROPERTIES
    SnapshotStable
    SeesEveryAbsence
