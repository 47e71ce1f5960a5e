-------------------------------- MODULE JsonIo --------------------------------
(***************************************************************************)
(* storage::json_io, migration and weekday.cpp: what the program reads out *)
(* of the JSON of a data file and what it writes for the values it holds.  *)
(* Any field may be missing, null or of another type, as people edit these *)
(* files by hand; reading stays total and reports what it gives up.        *)
(***************************************************************************)
EXTENDS Integers, Sequences, SequencesExt

-----------------------------------------------------------------------------
(* JSON values: pairs of a type and what the value holds. *)

Null == <<"null", 0>>
String(s) == <<"string", s>>
Integer(n) == <<"integer", n>>
Boolean(b) == <<"boolean", b>>
Array(items) == <<"array", items>>
Object(fields) == <<"object", fields>>

Is(type, value) == value[1] = type

\* A field that is missing reads like one that is null.
Field(object, key) ==
    IF Is("object", object) /\ key \in DOMAIN object[2] THEN object[2][key] ELSE Null

Get(type, object, key, fallback) ==
    LET value == Field(object, key)
    IN  IF Is(type, value) THEN value[2] ELSE fallback

Str(object, key) == Get("string", object, key, "")
Num(object, key, fallback) == Get("integer", object, key, fallback)
Bool(object, key, fallback) == Get("boolean", object, key, fallback)

\* The elements a loop over the field visits: those of an array, the values of
\* an object, and any other value once.
Elements(object, key) ==
    LET value == Field(object, key)
        keys == SetToSeq(DOMAIN value[2])
    IN  IF Is("null", value) THEN <<>>
        ELSE IF Is("array", value) THEN value[2]
        ELSE IF Is("object", value) THEN [i \in DOMAIN keys |-> value[2][keys[i]]]
        ELSE <<value>>

\* Read(item) for every element of the field.
Each(object, key, Read(_)) ==
    LET items == Elements(object, key) IN [i \in DOMAIN items |-> Read(items[i])]

\* What a loop over the items pushes: for every item one piece, or none.
Pushed(items, Push(_)) == FlattenSeq([i \in DOMAIN items |-> Push(items[i])])

\* Elements that are not strings are passed over.
Strings(object, key) ==
    Pushed(Get("array", object, key, <<>>),
           LAMBDA v : IF Is("string", v) THEN <<v[2]>> ELSE <<>>)

StringsJson(strings) == Array([i \in DOMAIN strings |-> String(strings[i])])

EachJson(values, ToJson(_)) == Array([i \in DOMAIN values |-> ToJson(values[i])])

-----------------------------------------------------------------------------
(* Weekdays and versions *)

Code == <<"SUN", "MON", "TUE", "WED", "THU", "FRI", "SAT">>

Weekday == 0..6

ParseWeekday(code) == {d \in Weekday : Code[d + 1] = code}

\* Codes nobody knows are dropped; the report names them (Unknown).
Weekdays(object, key) ==
    Pushed(Strings(object, key), LAMBDA code : SetToSeq(ParseWeekday(code)))

Unknown(object, key) ==
    {c \in ToSet(Strings(object, key)) : ParseWeekday(c) = {}}

WeekdaysJson(days) == EachJson(days, LAMBDA d : String(Code[d + 1]))

SchemaVersion == 1

\* migrateIfNeeded: no step from one version to the next exists yet, so all it
\* can do with another version than its own is to report it.
VersionReport(root) ==
    IF ~Is("object", root) THEN {"not an object"}
    ELSE IF ~Is("integer", Field(root, "version")) THEN {"no version"}
    ELSE LET found == Field(root, "version")[2]
         IN  IF found = SchemaVersion THEN {}
             ELSE IF found > SchemaVersion THEN {"newer"} ELSE {"older"}

Version(root) == Num(root, "version", SchemaVersion)

-----------------------------------------------------------------------------
(* config.json *)

ReadTimeSlot(item) == [
    id |-> Str(item, "id"), displayName |-> Str(item, "displayName"),
    start |-> Str(item, "start"), end |-> Str(item, "end"),
    weekdays |-> Weekdays(item, "weekdays"), categoryIds |-> Strings(item, "categoryIds")]

ReadCategory(item) == [
    id |-> Str(item, "id"), displayName |-> Str(item, "displayName"),
    taskSetIds |-> Strings(item, "taskSetIds")]

\* Without an "update" object the defaults of the type stay, which are the same.
LoadConfig(root) ==
    LET calendar == Field(root, "workCalendar")
        update == Field(root, "update")
    IN  [version |-> Version(root),
         workWeekdays |-> Weekdays(calendar, "workWeekdays"),
         holidays |-> Strings(calendar, "holidays"),
         timeSlots |-> Each(root, "timeSlots", ReadTimeSlot),
         categories |-> Each(root, "categories", ReadCategory),
         crossSetConflicts |-> Bool(Field(root, "assignment"), "crossSetConflicts", FALSE),
         enabled |-> Bool(update, "enabled", TRUE),
         repo |-> Str(update, "repo"),
         checkIntervalHours |-> Num(update, "checkIntervalHours", 24)]

ConfigReport(root) ==
    VersionReport(root)
        \cup Unknown(Field(root, "workCalendar"), "workWeekdays")
        \cup UNION {Unknown(s, "weekdays") : s \in ToSet(Elements(root, "timeSlots"))}

TimeSlotJson(s) == Object([
    id |-> String(s.id), displayName |-> String(s.displayName),
    start |-> String(s.start), end |-> String(s.end),
    weekdays |-> WeekdaysJson(s.weekdays), categoryIds |-> StringsJson(s.categoryIds)])

CategoryJson(c) == Object([
    id |-> String(c.id), displayName |-> String(c.displayName),
    taskSetIds |-> StringsJson(c.taskSetIds)])

ConfigJson(v) == Object([
    version |-> Integer(v.version),
    workCalendar |-> Object([workWeekdays |-> WeekdaysJson(v.workWeekdays),
                             holidays |-> StringsJson(v.holidays)]),
    timeSlots |-> EachJson(v.timeSlots, TimeSlotJson),
    categories |-> EachJson(v.categories, CategoryJson),
    assignment |-> Object([crossSetConflicts |-> Boolean(v.crossSetConflicts)]),
    update |-> Object([enabled |-> Boolean(v.enabled), repo |-> String(v.repo),
                       checkIntervalHours |-> Integer(v.checkIntervalHours)])])

-----------------------------------------------------------------------------
(* workers.json: the order of the array is the order of the rotation. *)

ReadWorker(item) == [
    id |-> Str(item, "id"), name |-> Str(item, "name"),
    active |-> Bool(item, "active", TRUE),
    weeklyOff |-> Weekdays(item, "weeklyOff"), note |-> Str(item, "note")]

LoadWorkers(root) ==
    [version |-> Version(root), workers |-> Each(root, "workers", ReadWorker)]

WorkersReport(root) ==
    VersionReport(root)
        \cup UNION {Unknown(w, "weeklyOff") : w \in ToSet(Elements(root, "workers"))}

\* A slip: the note is not written back.
WorkerJsonNoNote(w) == Object([
    id |-> String(w.id), name |-> String(w.name), active |-> Boolean(w.active),
    weeklyOff |-> WeekdaysJson(w.weeklyOff)])

WorkerJson(w) == Object([
    id |-> String(w.id), name |-> String(w.name), active |-> Boolean(w.active),
    weeklyOff |-> WeekdaysJson(w.weeklyOff), note |-> String(w.note)])

WorkersJson(v) == Object([
    version |-> Integer(v.version), workers |-> EachJson(v.workers, WorkerJson)])

-----------------------------------------------------------------------------
(* tasks.json *)

ReadTaskSet(item) == [id |-> Str(item, "id"), displayName |-> Str(item, "displayName")]

\* A priority is there or not: a set of at most one.
ReadTask(item) ==
    LET priority == Field(item, "priority")
    IN  [id |-> Str(item, "id"), name |-> Str(item, "name"),
         taskSetIds |-> Strings(item, "taskSetIds"),
         requiredCount |-> Num(item, "requiredCount", 1),
         conflictsWith |-> Strings(item, "conflictsWith"),
         weekdays |-> Weekdays(item, "weekdays"),
         priority |-> IF Is("integer", priority) THEN {priority[2]} ELSE {}]

\* Conflicts on either side count on both; own ones first, in their order,
\* then those of the tasks that name this one; none with itself, none twice.
Normalized(tasks, t) ==
    LET naming(s) == IF s.id # t.id /\ t.id \in ToSet(s.conflictsWith) THEN <<s.id>> ELSE <<>>
        found == t.conflictsWith \o Pushed(tasks, naming)
        new(i) == found[i] # t.id /\ \A j \in 1 .. i - 1 : found[j] # found[i]
    IN  [t EXCEPT !.conflictsWith =
            FlattenSeq([i \in DOMAIN found |-> IF new(i) THEN <<found[i]>> ELSE <<>>])]

NormalizeConflicts(tasks) == [i \in DOMAIN tasks |-> Normalized(tasks, tasks[i])]

LoadTasks(root) ==
    [version |-> Version(root),
     taskSets |-> Each(root, "taskSets", ReadTaskSet),
     tasks |-> NormalizeConflicts(Each(root, "tasks", ReadTask))]

TasksReport(root) ==
    VersionReport(root)
        \cup UNION {Unknown(t, "weekdays") : t \in ToSet(Elements(root, "tasks"))}

TaskSetJson(s) == Object([id |-> String(s.id), displayName |-> String(s.displayName)])

PriorityJson(priority) ==
    IF priority = {} THEN Null ELSE Integer(CHOOSE p \in priority : TRUE)

TaskJson(t) == Object([
    id |-> String(t.id), name |-> String(t.name),
    taskSetIds |-> StringsJson(t.taskSetIds),
    requiredCount |-> Integer(t.requiredCount),
    conflictsWith |-> StringsJson(t.conflictsWith),
    weekdays |-> WeekdaysJson(t.weekdays),
    priority |-> PriorityJson(t.priority)])

TasksJson(v) == Object([
    version |-> Integer(v.version), taskSets |-> EachJson(v.taskSets, TaskSetJson),
    tasks |-> EachJson(v.tasks, TaskJson)])

-----------------------------------------------------------------------------
(* absences.json *)

ReadAbsence(item) == [
    workerId |-> Str(item, "workerId"), from |-> Str(item, "from"), to |-> Str(item, "to"),
    reason |-> Str(item, "reason"), createdAt |-> Str(item, "createdAt")]

LoadAbsences(root) ==
    [version |-> Version(root), absences |-> Each(root, "absences", ReadAbsence)]

AbsenceJson(a) == Object([
    workerId |-> String(a.workerId), from |-> String(a.from), to |-> String(a.to),
    reason |-> String(a.reason), createdAt |-> String(a.createdAt)])

AbsencesJson(v) == Object([
    version |-> Integer(v.version), absences |-> EachJson(v.absences, AbsenceJson)])

-----------------------------------------------------------------------------
(* cursors.json: a map from task sets to places in the list of workers. *)

LoadCursors(root) ==
    LET cursors == Field(root, "cursors")
        kept == IF Is("object", cursors)
                THEN {k \in DOMAIN cursors[2] : Is("integer", cursors[2][k])} ELSE {}
    IN  [version |-> Version(root), cursors |-> [k \in kept |-> cursors[2][k][2]]]

CursorsJson(v) == Object([
    version |-> Integer(v.version),
    cursors |-> Object([k \in DOMAIN v.cursors |-> Integer(v.cursors[k])])])

-----------------------------------------------------------------------------
(* state/assign-<date>.json *)

ReadAssignment(item) ==
    LET doneAt == Field(item, "doneAt")
    IN  [taskId |-> Str(item, "taskId"), workerId |-> Str(item, "workerId"),
         absentAssignee |-> Bool(item, "absentAssignee", FALSE),
         done |-> Bool(item, "done", FALSE),
         doneAt |-> IF Is("string", doneAt) THEN {doneAt[2]} ELSE {}]

ReadUnassigned(item) == [taskId |-> Str(item, "taskId"), count |-> Num(item, "count", 0)]

ReadSet(item) == [
    taskSetId |-> Str(item, "taskSetId"),
    assignments |-> Each(item, "assignments", ReadAssignment),
    unassigned |-> Each(item, "unassigned", ReadUnassigned)]

ReadSlot(item) == [
    timeSlotId |-> Str(item, "timeSlotId"), categoryId |-> Str(item, "categoryId"),
    taskSets |-> Each(item, "taskSets", ReadSet)]

\* A weekday nobody knows reads as Sunday, and is not reported.
LoadSnapshot(root) ==
    LET day == ParseWeekday(Str(root, "weekday"))
    IN  [version |-> Version(root), date |-> Str(root, "date"),
         weekday |-> IF day = {} THEN 0 ELSE CHOOSE d \in day : TRUE,
         generatedAt |-> Str(root, "generatedAt"),
         slots |-> Each(root, "slots", ReadSlot)]

DoneAtJson(doneAt) == IF doneAt = {} THEN Null ELSE String(CHOOSE d \in doneAt : TRUE)

AssignmentJson(a) == Object([
    taskId |-> String(a.taskId), workerId |-> String(a.workerId),
    absentAssignee |-> Boolean(a.absentAssignee), done |-> Boolean(a.done),
    doneAt |-> DoneAtJson(a.doneAt)])

UnassignedJson(u) == Object([taskId |-> String(u.taskId), count |-> Integer(u.count)])

SetJson(s) == Object([
    taskSetId |-> String(s.taskSetId),
    assignments |-> EachJson(s.assignments, AssignmentJson),
    unassigned |-> EachJson(s.unassigned, UnassignedJson)])

SlotJson(s) == Object([
    timeSlotId |-> String(s.timeSlotId), categoryId |-> String(s.categoryId),
    taskSets |-> EachJson(s.taskSets, SetJson)])

SnapshotJson(v) == Object([
    version |-> Integer(v.version), date |-> String(v.date),
    weekday |-> String(Code[v.weekday + 1]), generatedAt |-> String(v.generatedAt),
    slots |-> EachJson(v.slots, SlotJson)])

=============================================================================
