SPECIFICATION Spec
CONSTANTS
    TaskId = {"t1", "t2", "t3"}
    TaskSetId = {"A"}
    CategoryId = {"one"}
    SlotId = {"am", "pm"}
    Span <- MCSpan
    WeekdayChoice = {{}, {"mon"}, {"sun"}}
    WorkWeekdays = {"mon", "tue"}
INVARIANTS
    ConflictsOnBothSides
    OneCurrentSlot
    SlotsLeadToSets
PROPERTIES
    OnlyEditsBreak
