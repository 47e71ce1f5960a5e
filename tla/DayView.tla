------------------------------- MODULE DayView -------------------------------
(***************************************************************************)
(* What a stored day looks like on the screen: findSlot says what is going *)
(* on now or comes next, buildDayView lays the stored assignments over the *)
(* configuration.  The screen is a function of the files and the moment;   *)
(* between two looks days are computed (DayAssignment), absences come and  *)
(* go, and weekly days off change.                                         *)
(*                                                                         *)
(* A plan has two more fields here: taskSets, the sets defined in          *)
(* tasks.json, and the end of every time slot.                             *)
(***************************************************************************)
EXTENDS DayAssignment

CONSTANTS
    SearchLimit,    \* kSearchLimitDays
    LastTime,       \* the clock shows 0 .. LastTime
    LateAbsence,    \* absences that may be registered at any time
    WeeklyOff       \* weekly days off that may be set at any time

\* What of a plan stays as it is between two looks.
Lasting == {"tasks", "taskSets", "workWeekdays", "holidays", "timeSlots", "categories",
            "crossSetConflicts"}

ASSUME ViewAssumption ==
    /\ SearchLimit \in Nat
    /\ \A p \in Plans :
          /\ Lasting \subseteq DOMAIN p
          /\ \A slot \in Range(p.timeSlots) : slot.end \in Int

\* Moments from which the search stays within the dates there are.
Moment == [date : 1 .. LastDate - SearchLimit, time : 0 .. LastTime]

-----------------------------------------------------------------------------
(* findSlot. *)

Slot(i) == plan.timeSlots[i]

NextWorkdayWithSlots(after) ==
    LET days == {d \in after + 1 .. after + SearchLimit : SlotsForDate(d) # <<>>}
    IN  IF days = {} THEN {} ELSE {Min(days)}

\* A slip: a slot lasts to its last minute included.
InsideToTheEnd(i, time) == Slot(i).start <= time /\ time <= Slot(i).end

\* [start, end)
Inside(i, time) == Slot(i).start <= time /\ time < Slot(i).end

Found(placement, d, i) == [placement |-> placement, date |-> d, slot |-> i]

\* The slots of today come in the order of their starts.
FindSlot(now) ==
    LET today  == SlotsForDate(now.date)
        inside == {k \in DOMAIN today : Inside(today[k], now.time)}
        later  == {k \in DOMAIN today : now.time < Slot(today[k]).start}
        next   == NextWorkdayWithSlots(now.date)
    IN  IF inside # {} THEN Found("inside", now.date, today[Min(inside)])
        ELSE IF later # {} THEN Found("upcoming", now.date, today[Min(later)])
        ELSE IF next # {} THEN Found("upcoming", Min(next), SlotsForDate(Min(next))[1])
        ELSE Found("none", now.date, 0)

-----------------------------------------------------------------------------
(* buildDayView. *)

\* A slip: the record of a task set is looked for by the set alone.
RecordOfSet(d, block) ==
    LET at == {i \in DOMAIN snapshots[d] : snapshots[d][i].taskSet = block.taskSet}
    IN  IF at = {} THEN {} ELSE {snapshots[d][Min(at)]}

\* findSnapshotSet: the first record of this slot, category and task set.
RecordOf(d, block) ==
    LET at == {i \in DOMAIN snapshots[d] :
                 /\ snapshots[d][i].slot = block.slot
                 /\ snapshots[d][i].category = block.category
                 /\ snapshots[d][i].taskSet = block.taskSet}
    IN  IF at = {} THEN {} ELSE {snapshots[d][Min(at)]}

\* tasksIn: the tasks of a set that are due that day, with the people on
\* record and those of them who are away as things stand now (D-009).
Lines(d, block) ==
    LET onRecord(t) == UNION {{row.assignments[k].workerId :
                                  k \in {j \in DOMAIN row.assignments :
                                            row.assignments[j].taskId = t}} :
                              row \in RecordOf(d, block)}
        due == {t \in Task : /\ block.taskSet \in plan.tasks[t].taskSetIds
                             /\ \/ plan.tasks[t].weekdays = {}
                                \/ WeekdayOf[d] \in plan.tasks[t].weekdays}
    IN  [t \in due |->
            [workers    |-> onRecord(t),
             absent     |-> {w \in onRecord(t) : IsAbsentOn(w, d)},
             unassigned |-> SumSet({row.unassigned[t] : row \in RecordOf(d, block)})]]

\* The blocks of the screen, in order: sets that are not defined are left out,
\* as categories are (DayCalls).
Blocks(d) ==
    LET calls == DayCalls(d)
        Shown(call) == IF call.taskSet \in plan.taskSets THEN <<call>> ELSE <<>>
    IN  FlattenSeq([i \in DOMAIN calls |-> Shown(calls[i])])

View(d) == [b \in DOMAIN Blocks(d) |->
               [at |-> Blocks(d)[b], lines |-> Lines(d, Blocks(d)[b])]]

\* Marks and the hint are for today only.
Current(d, now) ==
    {i \in Range(SlotsForDate(d)) :
        d = now.date /\ FindSlot(now).placement = "inside" /\ FindSlot(now).slot = i}

Past(d, now) == {i \in Range(SlotsForDate(d)) : d = now.date /\ Slot(i).end <= now.time}

Upcoming(d, now) ==
    IF d = now.date /\ FindSlot(now).placement = "upcoming" THEN {FindSlot(now)} ELSE {}

-----------------------------------------------------------------------------
(* What changes between two looks. *)

AddAbsence(a) == plan' = [plan EXCEPT !.absences = @ \cup {a}]

RemoveAbsence(w, d) ==
    /\ IsAbsentOn(w, d)
    /\ plan' = [plan EXCEPT !.absences =
                   {a \in @ : ~(a.workerId = w /\ a.from <= d /\ d <= a.to)}]

SetWeeklyOff(w, days) == plan' = [plan EXCEPT !.workers[w].weeklyOff = days]

\* One command at a time: they all take the lock.
Between ==
    /\ date = 0
    /\ \/ \E a \in LateAbsence : AddAbsence(a)
       \/ \E w \in Worker, d \in Date : RemoveAbsence(w, d)
       \/ \E w \in Worker, days \in WeeklyOff : SetWeeklyOff(w, days)
    /\ UNCHANGED <<cursors, snapshots, runs, date, available, queue, rows, priorInSlot,
                   calling, lastRow, engineVars>>

ShowSpec == Init /\ [][Next \/ Between]_vars

-----------------------------------------------------------------------------
(* Properties.  Screens are looked at between two commands, which lock. *)

\* The slots that start after a moment and within the search, with their days.
Ahead(now) ==
    {s \in [date : now.date .. now.date + SearchLimit, slot : DOMAIN plan.timeSlots] :
        /\ IsWorkday(s.date)
        /\ Slot(s.slot).weekdays = {} \/ WeekdayOf[s.date] \in Slot(s.slot).weekdays
        /\ Slot(s.slot).start >= 0
        /\ s.date > now.date \/ Slot(s.slot).start > now.time}

\* The screen of today is never without an answer while there is one (D-003):
\* it marks one slot that runs now and is not over, or announces the first of
\* all slots still to come, today or on a later workday.
NowOrNext ==
    date = 0 => \A now \in Moment :
        LET running == {i \in Range(SlotsForDate(now.date)) :
                          Slot(i).start <= now.time /\ now.time < Slot(i).end}
            current == Current(now.date, now)
            next    == Upcoming(now.date, now)
        IN  /\ running # {} => /\ Cardinality(current) = 1
                               /\ current \subseteq running \ Past(now.date, now)
                               /\ next = {}
            /\ running = {} /\ Ahead(now) # {} =>
                  /\ current = {}
                  /\ \E found \in next :
                        /\ [date |-> found.date, slot |-> found.slot] \in Ahead(now)
                        /\ \A other \in Ahead(now) :
                              \/ found.date < other.date
                              \/ /\ found.date = other.date
                                 /\ Slot(found.slot).start <= Slot(other.slot).start

\* Whatever absences and days off are entered or cancelled after a day has
\* been stored, its screen shows every record in its place: everybody who was
\* assigned, every seat that was left, and nothing twice (D-009).
EveryRecordShown ==
    \A d \in Date : date = 0 /\ snapshots[d] # <<>> =>
        /\ Len(View(d)) = Len(snapshots[d])
        /\ \A i \in DOMAIN snapshots[d] :
             LET row == snapshots[d][i] IN
             \E b \in DOMAIN View(d) :
                LET lines == View(d)[b].lines IN
                /\ View(d)[b].at = [slot |-> row.slot, category |-> row.category,
                                    taskSet |-> row.taskSet]
                /\ \A k \in DOMAIN row.assignments :
                      /\ row.assignments[k].taskId \in DOMAIN lines
                      /\ row.assignments[k].workerId
                            \in lines[row.assignments[k].taskId].workers
                /\ \A t \in DOMAIN lines :
                      Cardinality(lines[t].workers) + lines[t].unassigned
                         = Max({plan.tasks[t].requiredCount, 0})

=============================================================================
