------------------------------- MODULE TaskAdmin -------------------------------
(***************************************************************************)
(* The commands `task`, `set`, `cat` and `slot`: what admin_service does   *)
(* to tasks, task sets, categories and time slots, and what the validator  *)
(* says of the result.  A command whose save fails ends, and the file is   *)
(* as it was (module AtomicWrite); one that is refused changes nothing.    *)
(***************************************************************************)
EXTENDS Integers, FiniteSets, Functions

CONSTANTS
    TaskId, TaskSetId, CategoryId, SlotId,
    Span,           \* <<start, end>>: the times somebody may enter
    WeekdayChoice,  \* the --weekdays somebody may enter; {} means every workday
    WorkWeekdays    \* workCalendar.workWeekdays

ASSUME SpanAssumption == \A span \in Span : span[1] \in Nat /\ span[2] \in Nat

VARIABLES
    taskSets,       \* ids of the task sets
    tasks,          \* id -> [taskSetIds, conflictsWith]
    categories,     \* id -> ids of its task sets
    timeSlots       \* id -> [start, end, weekdays, categoryIds]

vars == <<taskSets, tasks, categories, timeSlots>>

EmptyFile == [x \in {} |-> x]

With(file, id, entry) == [x \in DOMAIN file \cup {id} |-> IF x = id THEN entry ELSE file[x]]

Without(file, id) == Restrict(file, DOMAIN file \ {id})

Init ==
    /\ taskSets = {}
    /\ tasks = EmptyFile
    /\ categories = EmptyFile
    /\ timeSlots = EmptyFile

-----------------------------------------------------------------------------
(* Tasks and task sets: tasks.json. *)

\* A slip: an exclusion stays on the side it was entered on.
NormalizeOneSide(file) ==
    [t \in DOMAIN file |-> [file[t] EXCEPT !.conflictsWith = @ \ {t}]]

\* An exclusion on one side is written down on both; nothing excludes itself.
NormalizeConflicts(file) ==
    [t \in DOMAIN file |->
        [file[t] EXCEPT !.conflictsWith =
            (@ \cup {u \in DOMAIN file : t \in file[u].conflictsWith}) \ {t}]]

AddTask(t, sets, others) ==
    /\ t \notin DOMAIN tasks
    /\ sets # {}
    /\ sets \subseteq taskSets
    /\ others \subseteq DOMAIN tasks
    /\ tasks' = NormalizeConflicts(
                    With(tasks, t, [taskSetIds |-> sets, conflictsWith |-> others]))
    /\ UNCHANGED <<taskSets, categories, timeSlots>>

\* --conflicts replaces the exclusions of t, on the other side too.
Unlink(file, t) == [u \in DOMAIN file |-> [file[u] EXCEPT !.conflictsWith = @ \ {t}]]

\* What is given is taken as it is; an option left out amounts to giving what
\* is there (the loaded file has its exclusions on both sides).
EditTask(t, sets, others) ==
    /\ t \in DOMAIN tasks
    /\ tasks' = NormalizeConflicts(
                    [Unlink(tasks, t) EXCEPT ![t] = [taskSetIds |-> sets,
                                                     conflictsWith |-> others]])
    /\ UNCHANGED <<taskSets, categories, timeSlots>>

\* A slip: the other tasks go on excluding the one removed.
RemoveTaskOnly(t) ==
    /\ t \in DOMAIN tasks
    /\ tasks' = Without(tasks, t)
    /\ UNCHANGED <<taskSets, categories, timeSlots>>

RemoveTask(t) ==
    /\ t \in DOMAIN tasks
    /\ tasks' = Unlink(Without(tasks, t), t)
    /\ UNCHANGED <<taskSets, categories, timeSlots>>

AddTaskSet(s) ==
    /\ s \notin taskSets
    /\ taskSets' = taskSets \cup {s}
    /\ UNCHANGED <<tasks, categories, timeSlots>>

\* A slip: only the tasks are asked who uses the set.
RemoveTaskSetUnasked(s) ==
    /\ s \in taskSets
    /\ \A t \in DOMAIN tasks : s \notin tasks[t].taskSetIds
    /\ taskSets' = taskSets \ {s}
    /\ UNCHANGED <<tasks, categories, timeSlots>>

RemoveTaskSet(s) ==
    /\ s \in taskSets
    /\ \A t \in DOMAIN tasks : s \notin tasks[t].taskSetIds
    /\ \A c \in DOMAIN categories : s \notin categories[c]
    /\ taskSets' = taskSets \ {s}
    /\ UNCHANGED <<tasks, categories, timeSlots>>

-----------------------------------------------------------------------------
(* Categories and time slots: config.json. *)

AddCategory(c, sets) ==
    /\ c \notin DOMAIN categories
    /\ sets # {}
    /\ sets \subseteq taskSets
    /\ categories' = With(categories, c, sets)
    /\ UNCHANGED <<taskSets, tasks, timeSlots>>

RemoveCategory(c) ==
    /\ c \in DOMAIN categories
    /\ \A s \in DOMAIN timeSlots : c \notin timeSlots[s].categoryIds
    /\ categories' = Without(categories, c)
    /\ UNCHANGED <<taskSets, tasks, timeSlots>>

\* A slip: a slot of every workday is taken for one of no day.
WeekdaysAsEntered(slot) == slot.weekdays

EffectiveWeekdays(slot) == IF slot.weekdays = {} THEN WorkWeekdays ELSE slot.weekdays

\* Intervals are half-open: one may start when another ends (D-012).
Overlap(a, b) ==
    /\ EffectiveWeekdays(a) \cap EffectiveWeekdays(b) # {}
    /\ a.start < b.end
    /\ b.start < a.end

FindTimeSlotOverlaps(slots) ==
    {pair \in SUBSET DOMAIN slots :
        /\ Cardinality(pair) = 2
        /\ \A i, j \in pair : i # j => Overlap(slots[i], slots[j])}

InOrder(slot) == slot.start < slot.end

AddTimeSlot(s, span, days, cats) ==
    LET slot == [start |-> span[1], end |-> span[2], weekdays |-> days,
                 categoryIds |-> cats]
    IN
    /\ s \notin DOMAIN timeSlots
    /\ InOrder(slot)
    /\ cats # {}
    /\ cats \subseteq DOMAIN categories
    /\ FindTimeSlotOverlaps(With(timeSlots, s, slot)) = {}
    /\ timeSlots' = With(timeSlots, s, slot)
    /\ UNCHANGED <<taskSets, tasks, categories>>

RemoveTimeSlot(s) ==
    /\ s \in DOMAIN timeSlots
    /\ timeSlots' = Without(timeSlots, s)
    /\ UNCHANGED <<taskSets, tasks, categories>>

-----------------------------------------------------------------------------

Next ==
    \/ \E t \in TaskId, sets \in SUBSET TaskSetId, others \in SUBSET TaskId :
          AddTask(t, sets, others) \/ EditTask(t, sets, others)
    \/ \E t \in TaskId : RemoveTask(t)
    \/ \E s \in TaskSetId : AddTaskSet(s) \/ RemoveTaskSet(s)
    \/ \E c \in CategoryId, sets \in SUBSET TaskSetId : AddCategory(c, sets)
    \/ \E c \in CategoryId : RemoveCategory(c)
    \/ \E s \in SlotId, span \in Span, days \in WeekdayChoice, cats \in SUBSET CategoryId :
          AddTimeSlot(s, span, days, cats)
    \/ \E s \in SlotId : RemoveTimeSlot(s)

Spec == Init /\ [][Next]_vars

-----------------------------------------------------------------------------
(* What the validator reports about references. *)

Empty == "empty"

\* References of x to what is not there; no reference at all counts as one.
Broken(x, references, there) ==
    IF references = {} THEN {<<x, Empty>>} ELSE {<<x, y>> : y \in references \ there}

CheckReferences ==
    UNION ({Broken(s, timeSlots[s].categoryIds, DOMAIN categories) :
                s \in DOMAIN timeSlots}
      \cup {Broken(c, categories[c], taskSets) : c \in DOMAIN categories}
      \cup {Broken(t, tasks[t].taskSetIds, taskSets) : t \in DOMAIN tasks}
      \cup {{<<t, u>> : u \in tasks[t].conflictsWith \ DOMAIN tasks} : t \in DOMAIN tasks})

\* findSlot: the slots a clock time lies in, on a workday.
SlotsAt(day, time) ==
    {s \in DOMAIN timeSlots :
        /\ timeSlots[s].weekdays = {} \/ day \in timeSlots[s].weekdays
        /\ timeSlots[s].start <= time
        /\ time < timeSlots[s].end}

-----------------------------------------------------------------------------
(* Properties *)

TypeOK ==
    /\ taskSets \subseteq TaskSetId
    /\ DOMAIN tasks \subseteq TaskId
    /\ \A t \in DOMAIN tasks : tasks[t] \in [taskSetIds : SUBSET TaskSetId,
                                              conflictsWith : SUBSET TaskId]
    /\ DOMAIN categories \subseteq CategoryId
    /\ \A c \in DOMAIN categories : categories[c] \subseteq TaskSetId
    /\ DOMAIN timeSlots \subseteq SlotId
    /\ \A s \in DOMAIN timeSlots : /\ timeSlots[s].categoryIds \subseteq CategoryId
                                   /\ timeSlots[s].start < timeSlots[s].end

\* Whatever is added, edited and removed, in any order, exclusions are on file
\* on both sides, and no task excludes itself.
ConflictsOnBothSides ==
    \A t, u \in DOMAIN tasks :
        /\ t \notin tasks[t].conflictsWith
        /\ u \in tasks[t].conflictsWith => t \in tasks[u].conflictsWith

\* At any time of any workday there is one current time slot at most.
OneCurrentSlot ==
    \A day \in WorkWeekdays, time \in UNION {{span[1], span[2]} : span \in Span} :
        Cardinality(SlotsAt(day, time)) <= 1

\* No command but `task edit` gives the validator something new to report: in
\* particular no removal leaves a reference to what was removed.
OnlyEditsBreak ==
    [][\/ CheckReferences' \subseteq CheckReferences
       \/ \E t \in TaskId, sets \in SUBSET TaskSetId, others \in SUBSET TaskId :
             EditTask(t, sets, others)]_vars

\* What the time slots and categories refer to is there: a slot that is due
\* always leads to task sets.
SlotsLeadToSets ==
    \A s \in DOMAIN timeSlots : \A c \in timeSlots[s].categoryIds :
        c \in DOMAIN categories /\ categories[c] # {} /\ categories[c] \subseteq taskSets

-----------------------------------------------------------------------------
(* What the documents say and the code does not do. *)

\* ROADMAP.md:202: the commands cannot make broken data.
NothingBroken == CheckReferences = {}

=============================================================================
