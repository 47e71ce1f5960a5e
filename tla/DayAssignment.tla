---------------------------- MODULE DayAssignment ----------------------------
(***************************************************************************)
(* computeDay: the assignment of whole days, one engine call per task set  *)
(* of each category of each time slot, with the round-robin cursors that   *)
(* carry over from call to call and from day to day.                       *)
(*                                                                         *)
(* Files are left to module DataDir; here a computed day is stored and its *)
(* cursors are kept.  Any date may be computed at any time, and again      *)
(* (`show --date`, `assign --force`).                                      *)
(***************************************************************************)
EXTENDS Integers, Sequences, FiniteSets, SequencesExt

CONSTANTS
    NWorkers, NTasks, TaskSet, Weekday,     \* as in AssignmentEngine
    Category,       \* category ids, defined or merely referred to
    LastDate,       \* dates are numbered from 1
    WeekdayOf,      \* [Date -> Weekday]
    Plans,          \* the contents of the data folder to start from
    MaxRuns         \* bound on the number of computed days

Date == 1 .. LastDate

VARIABLES
    plan,           \* config.json, workers.json, tasks.json, absences.json
    cursors,        \* rr-cursor.json; a missing entry reads as 0
    snapshots,      \* [Date -> sequence of rows, or <<>>]
    runs,           \* days computed so far (bounded by MaxRuns)
    date,           \* the day being computed, or 0
    available,      \* availableWorkers of that day
    queue,          \* engine calls of that day still to make
    rows,           \* results of the calls made
    priorInSlot,    \* what earlier sets of the slot have given out
    calling,        \* an engine call is running
    lastRow         \* history: the last row computed for each task set

\* The state of the engine.
VARIABLES input, pc, ledger, load, place, cursor, filled, assignments, unassigned

engineVars == <<input, pc, ledger, load, place, cursor, filled, assignments, unassigned>>
dayVars == <<plan, cursors, snapshots, runs, date, available, queue, rows,
             priorInSlot, calling, lastRow>>
vars == <<dayVars, engineVars>>

Engine == INSTANCE AssignmentEngine WITH Inputs <- {}

Worker == 1 .. NWorkers
Task   == 1 .. NTasks

\* What the loaders return, of hand-edited files as well.
IsPlan(p) ==
    /\ p.tasks \in [Task -> Engine!TaskDef]
    /\ p.crossSetConflicts \in BOOLEAN
    /\ p.timeSlots \in Seq(Range(p.timeSlots))
    /\ \A slot \in Range(p.timeSlots) :
          slot.start \in Int /\ slot.categoryIds \in Seq(Category)
    /\ \A c \in DOMAIN p.categories : p.categories[c] \in Seq(TaskSet)

ASSUME PlansAssumption ==
    /\ NWorkers \in Nat
    /\ NTasks \in Nat
    /\ LastDate \in Nat
    /\ MaxRuns \in Nat
    /\ WeekdayOf \in [Date -> Weekday]
    /\ \A p \in Plans : IsPlan(p)

-----------------------------------------------------------------------------
(* Who is there, and what is due. *)

IsAbsentOn(w, d) ==
    \E a \in plan.absences : a.workerId = w /\ a.from <= d /\ d <= a.to

IsAvailable(w, d) ==
    /\ plan.workers[w].active
    /\ WeekdayOf[d] \notin plan.workers[w].weeklyOff
    /\ ~IsAbsentOn(w, d)

\* The elements of a finite set, put in order.
Sorted(S, Earlier(_, _)) ==
    LET places == 1 .. Cardinality(S)
    IN  CHOOSE s \in [places -> S] : \A i, j \in places : i < j => Earlier(s[i], s[j])

\* In the order of workers.json.
AvailableWorkers(d) == Sorted({w \in Worker : IsAvailable(w, d)}, <)

IsWorkday(d) == WeekdayOf[d] \in plan.workWeekdays /\ d \notin plan.holidays

\* A slot whose times cannot be parsed has start = -1 and is skipped.
SlotsForDate(d) ==
    LET slots == plan.timeSlots
        due   == {i \in 1 .. Len(slots) :
                    /\ slots[i].weekdays = {} \/ WeekdayOf[d] \in slots[i].weekdays
                    /\ slots[i].start >= 0}
        Earlier(i, j) == \/ slots[i].start < slots[j].start
                         \/ slots[i].start = slots[j].start /\ i < j
    IN  IF IsWorkday(d) THEN Sorted(due, Earlier) ELSE <<>>

\* A slip: the first task set of a category only.
SetsOfFirst(category) ==
    IF category \in DOMAIN plan.categories
    THEN SubSeq(plan.categories[category], 1, 1) ELSE <<>>

\* findCategory: a reference to an undefined category leads nowhere.
SetsOf(category) ==
    IF category \in DOMAIN plan.categories THEN plan.categories[category] ELSE <<>>

\* The calls of a time slot: its categories in order, their sets in order.
CallsOfSlot(i) ==
    LET CallsOf(c) == [k \in 1 .. Len(SetsOf(c)) |->
                          [slot |-> i, category |-> c, taskSet |-> SetsOf(c)[k]]]
        categoryIds == plan.timeSlots[i].categoryIds
    IN  FlattenSeq([c \in 1 .. Len(categoryIds) |-> CallsOf(categoryIds[c])])

DayCalls(d) ==
    LET slots == SlotsForDate(d)
    IN  FlattenSeq([i \in 1 .. Len(slots) |-> CallsOfSlot(slots[i])])

-----------------------------------------------------------------------------

NoRow == [roster |-> <<>>, assignments |-> <<>>]

Init ==
    /\ plan \in Plans
    /\ cursors = [s \in TaskSet |-> 0]
    /\ snapshots = [d \in Date |-> <<>>]
    /\ runs = 0
    /\ date = 0
    /\ available = <<>>
    /\ queue = <<>>
    /\ rows = <<>>
    /\ priorInSlot = {}
    /\ calling = FALSE
    /\ lastRow = [s \in TaskSet |-> NoRow]
    /\ \E s \in TaskSet, wd \in Weekday :
          Engine!Idle([weekday |-> wd, taskSetId |-> s, slotTasks |-> plan.tasks,
                       availableWorkers |-> <<>>, cursor |-> 0,
                       crossSetConflicts |-> plan.crossSetConflicts,
                       priorAssignments |-> {}])

ComputeDay(d) ==
    /\ date = 0
    /\ runs < MaxRuns
    /\ date' = d
    /\ runs' = runs + 1
    /\ available' = AvailableWorkers(d)
    /\ queue' = DayCalls(d)
    /\ rows' = <<>>
    /\ priorInSlot' = {}
    /\ UNCHANGED <<plan, cursors, snapshots, calling, lastRow, engineVars>>

\* A slip: every call starts with a clean slate.
NothingCarriedOver == {}

\* Prior results are those of the same slot only.
CarriedOver ==
    IF rows # <<>> /\ rows[Len(rows)].slot = Head(queue).slot THEN priorInSlot ELSE {}

CallInput ==
    [weekday           |-> WeekdayOf[date],
     taskSetId         |-> Head(queue).taskSet,
     slotTasks         |-> plan.tasks,
     availableWorkers  |-> available,
     cursor            |-> cursors[Head(queue).taskSet],
     crossSetConflicts |-> plan.crossSetConflicts,
     priorAssignments  |-> CarriedOver]

CallEngine ==
    /\ date # 0
    /\ ~calling
    /\ queue # <<>>
    /\ calling' = TRUE
    /\ priorInSlot' = CarriedOver
    /\ Engine!Call(CallInput)
    /\ UNCHANGED <<plan, cursors, snapshots, runs, date, available, queue, rows, lastRow>>

EngineStep ==
    /\ calling
    /\ Engine!Step
    /\ UNCHANGED dayVars

Given == {<<assignments[i].workerId, assignments[i].taskId>> : i \in 1 .. Len(assignments)}

\* A slip: the place of the last seat is kept, not the one after it.
CursorsOfLastSeat == [cursors EXCEPT ![Head(queue).taskSet] = cursor - 1]

\* Each task set goes on where its own last call ended.
CursorsAfter == [cursors EXCEPT ![Head(queue).taskSet] = cursor]

TakeResult ==
    /\ calling
    /\ pc = "done"
    /\ calling' = FALSE
    /\ cursors' = CursorsAfter
    /\ rows' = Append(rows, [slot |-> Head(queue).slot, category |-> Head(queue).category,
                             taskSet |-> Head(queue).taskSet,
                             assignments |-> assignments, unassigned |-> unassigned])
    /\ priorInSlot' = priorInSlot \cup Given
    /\ queue' = Tail(queue)
    /\ lastRow' = [lastRow EXCEPT ![Head(queue).taskSet] =
                      [roster |-> available, assignments |-> assignments]]
    /\ UNCHANGED <<plan, snapshots, runs, date, available, engineVars>>

StoreDay ==
    /\ date # 0
    /\ ~calling
    /\ queue = <<>>
    /\ snapshots' = [snapshots EXCEPT ![date] = rows]
    /\ date' = 0
    /\ UNCHANGED <<plan, cursors, runs, available, queue, rows, priorInSlot, calling,
                   lastRow, engineVars>>

Next ==
    \/ \E d \in Date : ComputeDay(d)
    \/ CallEngine
    \/ EngineStep
    \/ TakeResult
    \/ StoreDay

Spec == Init /\ [][Next]_vars

-----------------------------------------------------------------------------
(* Properties *)

Row == [slot : Nat, category : Category, taskSet : TaskSet,
        assignments : Seq([taskId : Task, workerId : Worker]),
        unassigned : [Task -> Nat]]

TypeOK ==
    /\ cursors \in [TaskSet -> Nat]
    /\ snapshots \in [Date -> Seq(Row)]
    /\ runs \in 0 .. MaxRuns
    /\ date \in 0 .. LastDate
    /\ available \in Engine!Roster
    /\ queue \in Seq([slot : Nat, category : Category, taskSet : TaskSet])
    /\ rows \in Seq(Row)
    /\ priorInSlot \subseteq Worker \X Task
    /\ calling \in BOOLEAN
    /\ lastRow \in [TaskSet -> [roster : Engine!Roster,
                                assignments : Seq([taskId : Task, workerId : Worker])]]

\* What computeDay passes is what the proofs about the engine assume of their
\* Inputs: in particular the carried-over results hold no conflict.
CallsAreSound ==
    calling => /\ input \in Engine!AssignInput
               /\ Engine!SoundPrior(input)

\* On a stored day nobody has conflicting tasks, or a task twice, in one task
\* set; with crossSetConflicts on, in one time slot (D-002).
SlotsConflictFree ==
    \A d \in Date : LET day == snapshots[d] IN
      \A i, j \in 1 .. Len(day) :
        (day[i].slot = day[j].slot /\ (i = j \/ plan.crossSetConflicts)) =>
          \A k \in 1 .. Len(day[i].assignments), m \in 1 .. Len(day[j].assignments) :
            LET a == day[i].assignments[k]
                b == day[j].assignments[m]
            IN  (<<i, k>> # <<j, m>> /\ a.workerId = b.workerId) =>
                   /\ a.taskId # b.taskId
                   /\ ~Engine!ConflictsIn(plan.tasks, a.taskId, b.taskId)

\* A computed day has one row for every task set of every slot due that day,
\* in the order the day runs, and in it every seat is given or unassigned.
EverySeatOnRecord ==
    \A d \in Date : LET day == snapshots[d] IN
        day # <<>> =>
          /\ \A i \in 1 .. Len(day) - 1 :
                plan.timeSlots[day[i].slot].start <= plan.timeSlots[day[i + 1].slot].start
          /\ \A s \in 1 .. Len(plan.timeSlots) :
              \A c \in Range(plan.timeSlots[s].categoryIds) \cap DOMAIN plan.categories :
              \A set \in Range(plan.categories[c]) :
              \A t \in Task :
                LET slot == plan.timeSlots[s]
                    task == plan.tasks[t]
                IN  ( /\ slot.start >= 0
                      /\ slot.weekdays = {} \/ WeekdayOf[d] \in slot.weekdays
                      /\ set \in task.taskSetIds
                      /\ task.weekdays = {} \/ WeekdayOf[d] \in task.weekdays )
                    => \E i \in 1 .. Len(day) :
                         /\ day[i].slot = s /\ day[i].category = c /\ day[i].taskSet = set
                         /\ Cardinality({k \in 1 .. Len(day[i].assignments) :
                                             day[i].assignments[k].taskId = t})
                              + day[i].unassigned[t] = Max({task.requiredCount, 0})

\* The first available worker after w in the order of workers.json, cyclically.
NextAfter(w, roster) ==
    LET after == {k \in 1 .. Len(roster) : roster[k] > w}
    IN  IF after # {} THEN roster[Min(after)] ELSE roster[1]

LastWorker(row) == row.assignments[Len(row.assignments)].workerId

Continues(s) ==
    assignments[1].workerId = NextAfter(LastWorker(lastRow[s]), available)

\* While the same people are there, a task set goes on with the person after
\* the one who got its last seat, whatever was computed in between.
RotationContinues ==
    \A s \in TaskSet :
        (/\ calling /\ Head(queue).taskSet = s /\ ~plan.crossSetConflicts
         /\ assignments # <<>> /\ lastRow[s].assignments # <<>>
         /\ lastRow[s].roster = available)
        => Continues(s)

\* While the same people are there, whoever got nothing in a task set last
\* time is served first the next time (DESIGN 3.2, D-004).
LeftOverGoFirst ==
    \A s \in TaskSet :
        LET had  == {lastRow[s].assignments[k].workerId :
                        k \in 1 .. Len(lastRow[s].assignments)}
            left == Range(available) \ had
        IN  (/\ calling /\ Head(queue).taskSet = s /\ ~plan.crossSetConflicts
             /\ lastRow[s].roster = available
             /\ assignments # <<>> /\ left # {})
            => assignments[1].workerId \in left

-----------------------------------------------------------------------------
(* What the documents say and the code does not do. *)

\* README.md:302, for everybody: today starts with the person after the one
\* who was assigned last, absences or not.
StartsAfterYesterdaysLast ==
    \A s \in TaskSet :
        (/\ calling /\ Head(queue).taskSet = s /\ ~plan.crossSetConflicts
         /\ assignments # <<>> /\ lastRow[s].assignments # <<>>)
        => Continues(s)

=============================================================================
