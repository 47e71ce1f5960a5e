------------------------------- MODULE Validator -------------------------------
(***************************************************************************)
(* domain::validate: the errors and warnings about the contents of a data  *)
(* folder, each a pair of what is wrong and where.  No command refuses to  *)
(* work on a folder with errors; this report is all that tells of them.    *)
(*                                                                         *)
(* Workers, tasks and slots are numbered and categories are a function:    *)
(* identifiers defined twice, names and the formats of dates are not here. *)
(***************************************************************************)
EXTENDS DayView

About(what, things) == {<<what, x>> : x \in things}

Slots == DOMAIN plan.timeSlots
Categories == DOMAIN plan.categories
CategoryIds(i) == Range(Slot(i).categoryIds)
TaskSetIds(c) == Range(plan.categories[c])

-----------------------------------------------------------------------------
(* Errors *)

CheckReferences ==
    LET dangling(c) == ~(TaskSetIds(c) \subseteq plan.taskSets)
        tasks == plan.tasks
    IN  UNION {
          About("slot without category", {i \in Slots : CategoryIds(i) = {}}),
          About("slot of no category", {i \in Slots : ~(CategoryIds(i) \subseteq Categories)}),
          About("category without set", {c \in Categories : TaskSetIds(c) = {}}),
          About("category of no set", {c \in Categories : dangling(c)}),
          About("task without set", {t \in Task : tasks[t].taskSetIds = {}}),
          About("task of no set", {t \in Task : ~(tasks[t].taskSetIds \subseteq plan.taskSets)}),
          About("conflict with no task", {t \in Task : ~(tasks[t].conflictsWith \subseteq Task)}),
          About("absence of nobody", {a \in plan.absences : a.workerId \notin Worker})}

\* Times that cannot be read stand as -1.
IsTime(i) == Slot(i).start >= 0

\* A slip: a slot of every workday is taken for one of no day.
OwnWeekdays(i) == Slot(i).weekdays

EffectiveWeekdays(i) == IF Slot(i).weekdays = {} THEN plan.workWeekdays ELSE Slot(i).weekdays

\* findTimeSlotOverlaps: intervals are half-open (D-012).
Overlaps ==
    {pair \in Slots \X Slots : LET i == pair[1]  j == pair[2] IN
        /\ i < j
        /\ IsTime(i) /\ IsTime(j)
        /\ EffectiveWeekdays(i) \cap EffectiveWeekdays(j) # {}
        /\ Slot(i).start < Slot(j).end
        /\ Slot(j).start < Slot(i).end}

CheckTimeSlots == UNION {
    About("no workday", {d \in {"config"} : plan.workWeekdays = {}}),
    About("not a time", {i \in Slots : ~IsTime(i)}),
    About("starts too late", {i \in Slots : IsTime(i) /\ Slot(i).start >= Slot(i).end}),
    About("overlap", Overlaps)}

CheckTasks == About("required count", {t \in Task : plan.tasks[t].requiredCount <= 0})

CheckAbsences == About("absence ends first", {a \in plan.absences : a.from > a.to})

Errors == CheckReferences \cup CheckTimeSlots \cup CheckTasks \cup CheckAbsences

-----------------------------------------------------------------------------
(* Warnings *)

\* A slip: tasks of single weekdays are left out.
MembersOfEveryDay(s) ==
    {t \in Task : s \in plan.tasks[t].taskSetIds /\ plan.tasks[t].weekdays = {}}

Members(s) == {t \in Task : s \in plan.tasks[t].taskSetIds}

\* conflictComponents, over conflicts that loading has made mutual.
ConflictComponent(s, t) ==
    LET mutual(u, v) == u \in plan.tasks[v].conflictsWith \/ v \in plan.tasks[u].conflictsWith
        reach[k \in 0 .. NTasks] ==
            IF k = 0 THEN {t}
            ELSE reach[k - 1] \cup
                    {u \in Members(s) : \E v \in reach[k - 1] : mutual(u, v)}
    IN  reach[NTasks]

Active == {w \in Worker : plan.workers[w].active}

Needed(t) == Max({plan.tasks[t].requiredCount, 0})

IsShort(group) == MapThenSumSet(Needed, group) > Cardinality(Active)

ShortGroups ==
    UNION {About(s, {g \in {ConflictComponent(s, t) : t \in Members(s)} : IsShort(g)}) :
              s \in plan.taskSets}

Warnings == UNION {
    About("set in no category", plan.taskSets \ UNION {TaskSetIds(c) : c \in Categories}),
    About("set without task", {s \in plan.taskSets : Members(s) = {}}),
    About("category in no slot", Categories \ UNION {CategoryIds(i) : i \in Slots}),
    About("nobody active", {w \in {"workers"} : Active = {}}),
    About("task never due", {t \in Task : plan.tasks[t].weekdays # {}
                                /\ plan.tasks[t].weekdays \cap plan.workWeekdays = {}}),
    About("group short of people", ShortGroups)}

-----------------------------------------------------------------------------
(* Properties *)

\* What the lenient readers of a plan pass over in silence (slotsForDate,
\* findCategory, tasksIn), the validator names: of a folder without errors every
\* slot that is due comes up, each of its categories leads to sets on the screen,
\* and no two slots ever run at one moment (D-012).
CleanPlansWhole ==
    date = 0 /\ Errors = {} =>
        \A d \in Date : IsWorkday(d) =>
            /\ \A i \in Slots : Slot(i).weekdays = {} \/ WeekdayOf[d] \in Slot(i).weekdays =>
                 \A c \in CategoryIds(i) :
                    \E b \in Range(Blocks(d)) : b.slot = i /\ b.category = c
            /\ Blocks(d) = DayCalls(d)
            /\ \A time \in 0 .. LastTime :
                 Cardinality({i \in Range(SlotsForDate(d)) : Inside(i, time)}) <= 1

\* A seat nobody can take although every active worker is there is no surprise:
\* the validator has warned of the conflict group (validator.cpp:331), if the
\* task set is defined.  Without exclusions across sets; the converse does not
\* hold (AssignmentEngine, WarningIsRight).
ShortageIsWarned ==
    date # 0 /\ ~plan.crossSetConflicts /\ Range(available) = Active =>
        \A row \in Range(rows) : \A t \in Task :
            row.unassigned[t] > 0 /\ row.taskSet \in plan.taskSets =>
                <<"group short of people",
                  <<row.taskSet, ConflictComponent(row.taskSet, t)>>>> \in Warnings

=============================================================================
