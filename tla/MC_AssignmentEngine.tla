------------------------- MODULE MC_AssignmentEngine -------------------------
(***************************************************************************)
(* Small inputs for AssignmentEngine: three workers, three tasks.          *)
(***************************************************************************)
EXTENDS AssignmentEngine

\* Definition order kept, nobody to everybody available.
MCRosters == {<<>>, <<2>>, <<1, 3>>, <<1, 2, 3>>}

\* 5 and -1 are cursors left by a time when more people were available, or by
\* hand: the engine wraps them.
MCCursors == {0, 5, -1}

MCCounts == {-1, 0, 1, 2}

Pairs == {p \in Task \X Task : p[1] # p[2]}

TaskOf(sets, days, count, others) ==
    [taskSetIds |-> sets, weekdays |-> days, requiredCount |-> count,
     conflictsWith |-> others]

\* Every way to declare exclusions, on one side or both, tasks all of one set.
OneSetInputs ==
    {[weekday |-> "mon", taskSetId |-> "A",
      slotTasks |-> [t \in Task |->
          TaskOf({"A"}, {}, count[t], {p[2] : p \in {q \in decl : q[1] = t}})],
      availableWorkers |-> roster, cursor |-> c,
      crossSetConflicts |-> FALSE, priorAssignments |-> {}] :
        count \in [Task -> {1, 2}], decl \in SUBSET Pairs,
        roster \in MCRosters, c \in MCCursors}

\* Task 3 belongs to the set served before and is carried over; task 2 is in
\* both sets, and on some days not due.
TwoSetInputs ==
    {in \in
      {[weekday |-> "tue", taskSetId |-> "A",
        slotTasks |-> [t \in Task |->
            TaskOf(CASE t = 1 -> {"A"} [] t = 2 -> {"A", "B"} [] t = 3 -> {"B"},
                   IF t = 2 THEN days ELSE {}, count,
                   {p[2] : p \in {q \in decl : q[1] = t}})],
        availableWorkers |-> roster, cursor |-> 1,
        crossSetConflicts |-> cross,
        priorAssignments |-> prior] :
          count \in MCCounts, decl \in SUBSET {<<1, 2>>, <<3, 1>>, <<2, 3>>},
          days \in {{}, {"mon"}, {"tue"}}, cross \in BOOLEAN,
          roster \in {<<>>, <<1, 3>>, <<1, 2, 3>>},
          prior \in SUBSET {<<1, 3>>, <<1, 2>>, <<2, 3>>, <<3, 2>>}} :
      SoundPrior(in)}

MCInputs == OneSetInputs \cup TwoSetInputs

=============================================================================
