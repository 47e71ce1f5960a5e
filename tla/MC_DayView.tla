------------------------------ MODULE MC_DayView ------------------------------
(***************************************************************************)
(* Five days with a weekend, of which the search covers two at a time.     *)
(***************************************************************************)
EXTENDS Validator

MCWeekdayOf == <<"mon", "tue", "sun", "mon", "tue">>

MCLateAbsence == {[workerId |-> 1, from |-> 1, to |-> 2], [workerId |-> 2, from |-> 2, to |-> 2]}

TimeSlot(start, end, days, cats) ==
    [start |-> start, end |-> end, weekdays |-> days, categoryIds |-> cats]

\* Adjoining, apart, overlapping (by hand, every day and one), out of order, on some days, with a
\* time that cannot be read, none at all.
MCSlots ==
    {<<TimeSlot(3, 4, {}, <<"one", "two">>), TimeSlot(1, 3, {}, <<"two">>)>>,
     <<TimeSlot(1, 2, {"mon"}, <<"two", "one">>), TimeSlot(3, 4, {"tue"}, <<"two">>)>>,
     <<TimeSlot(2, 4, {}, <<"one">>), TimeSlot(1, 3, {}, <<"ghost", "two">>)>>,
     <<TimeSlot(2, 4, {}, <<"one">>), TimeSlot(1, 3, {"tue"}, <<"two">>)>>,
     <<TimeSlot(-1, 4, {}, <<"two">>), TimeSlot(2, 3, {"tue", "sun"}, <<"one">>)>>,
     <<>>}

MCTasks ==
    {<<[taskSetIds |-> {"A"}, weekdays |-> {}, requiredCount |-> 1, conflictsWith |-> {}],
       [taskSetIds |-> {"A", "B"}, weekdays |-> days, requiredCount |-> n,
        conflictsWith |-> {1}]>> :
        n \in {1, 2}, days \in {{}, {"tue"}}}

MCPlans ==
    {[workers |-> [w \in 1 .. 2 |-> [active |-> w = 1 \/ 4 \notin holidays, weeklyOff |-> {}]],
      absences |-> {}, tasks |-> tasks, taskSets |-> {"A", "B"},
      workWeekdays |-> {"mon", "tue"}, holidays |-> holidays, timeSlots |-> slots,
      categories |-> [c \in {"one", "two"} |-> IF c = "one" THEN <<"A", "B">> ELSE <<"B">>],
      crossSetConflicts |-> FALSE] :
        tasks \in MCTasks, slots \in MCSlots, holidays \in {{}, {2}, {4, 5}}}

\* A category that names a set twice, which `cat add` lets pass.
MCRepeated ==
    {[p EXCEPT !.categories = [c \in {"one", "two"} |-> <<"B", "B">>]] : p \in MCPlans}

=============================================================================
