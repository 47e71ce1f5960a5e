SPECIFICATION FairSpec
CONSTANTS
    NWorkers = 3
    NTasks = 3
    TaskSet = {"A", "B"}
    Weekday = {"mon", "tue"}
    Inputs <- MCInputs
INVARIANTS
    TypeOK
    ConflictFree
    OneSeatPerTask
    OnlyTheAvailable
    SeatsAccounted
    UnassignedForGood
    CursorAfterLastSeat
    FairWithoutConflicts
PROPERTIES
    Terminates
