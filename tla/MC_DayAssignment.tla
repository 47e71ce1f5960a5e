--------------------------- MODULE MC_DayAssignment ---------------------------
(***************************************************************************)
(* Three days (Monday, Tuesday, Monday), three workers, three tasks in two *)
(* sets, served in two overlapping categories.                             *)
(***************************************************************************)
EXTENDS DayAssignment

MCWeekdayOf == <<"mon", "tue", "mon">>

Absent(w, from, to) == [workerId |-> w, from |-> from, to |-> to]

MCAbsences == {{},
               {Absent(1, 2, 3)},
               {Absent(2, 1, 1), Absent(3, 2, 2)},
               {Absent(w, 2, 2) : w \in 1 .. 3}}

Regular(w) == [active |-> TRUE, weeklyOff |-> {}]

MCWorkers == {[w \in 1 .. 3 |-> Regular(w)],
              [w \in 1 .. 3 |-> IF w = 2 THEN [active |-> TRUE, weeklyOff |-> {"tue"}]
                                         ELSE Regular(w)],
              [w \in 1 .. 3 |-> IF w = 3 THEN [active |-> FALSE, weeklyOff |-> {}]
                                         ELSE Regular(w)]}

\* Tasks 1 and 3 exclude each other, declared on one side; task 2 is in both
\* sets.  When exclusions are tight all three are in one set and task 1 excludes
\* both others: the scan then has to pass people by.
MCTasks ==
    {<<[taskSetIds |-> {"A"}, weekdays |-> {}, requiredCount |-> 1,
        conflictsWith |-> IF tight THEN {} ELSE {3}],
       [taskSetIds |-> {"A", "B"}, weekdays |-> days, requiredCount |-> n,
        conflictsWith |-> IF tight THEN {1} ELSE {}],
       [taskSetIds |-> IF tight THEN {"A", "B"} ELSE {"B"}, weekdays |-> {},
        requiredCount |-> 1, conflictsWith |-> IF tight THEN {1} ELSE {}]>> :
        n \in {0, 1, 2}, days \in {{}, {"tue"}}, tight \in BOOLEAN}

\* The slots are listed out of order; one has no readable time; one refers to
\* a category that is not there.
MCSlots ==
    <<[start |-> 9,  weekdays |-> {}, categoryIds |-> <<"one", "two">>],
      [start |-> -1, weekdays |-> {}, categoryIds |-> <<"one">>],
      [start |-> 8,  weekdays |-> {"tue"}, categoryIds |-> <<"ghost", "two">>]>>

MCCategories == [c \in {"one", "two"} |-> IF c = "one" THEN <<"A", "B">> ELSE <<"B">>]

MCPlans ==
    {[workers |-> workers, absences |-> absences, tasks |-> tasks,
      workWeekdays |-> {"mon", "tue"}, holidays |-> holidays,
      timeSlots |-> MCSlots, categories |-> MCCategories, crossSetConflicts |-> cross] :
        workers \in MCWorkers, absences \in MCAbsences, tasks \in MCTasks,
        holidays \in {{}, {3}}, cross \in BOOLEAN}

=============================================================================
