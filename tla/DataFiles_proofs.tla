---------------------------- MODULE DataFiles_proofs ----------------------------
(***************************************************************************)
(* For any set of contents and any number of saves, failures and crashes:  *)
(* atomicWrite implements one atomic file, and the backup of a successful  *)
(* save is what the save replaced.  For any JSON text people put into the  *)
(* files and any number of commands: what a command wrote is loaded as it  *)
(* was meant.                                                              *)
(***************************************************************************)
EXTENDS DataFiles, SequenceLemmas, TLAPS

(* atomicWrite *)

\* The temporary file is whole from its last write to the swap.
TmpWhole ==
    pc \in {"look", "dropBackup", "copy", "copying", "swap"} => tmp = content

\* Nothing has reached the target before the swap.
TargetUntouched ==
    pc \in Running => target = prev

\* A save that has a target to keep, and finds it, takes the way over the backup.
BackupTaken ==
    /\ pc \in {"dropBackup", "copy", "copying"} => target # NoFile
    /\ pc \in {"swap", "swapped", "ok"} /\ prev # NoFile /\ ~overlooked => bak = prev

IInv == TypeOK /\ TmpWhole /\ TargetUntouched /\ BackupTaken

-----------------------------------------------------------------------------

\* The files and the program counter of a save stay within their types.
LEMMA TypeStep == IInv /\ [Next]_vars => TypeOK'
<1> SUFFICES ASSUME IInv, [Next]_vars PROVE TypeOK'
  OBVIOUS
<1> USE DEF IInv, TypeOK, File, Ended, Running
<1>1. CASE \E c \in Content : Begin(c) \/ HandEdit(c)
  BY <1>1 DEF Begin, HandEdit
<1>2. CASE OpenFails \/ OpenTmp \/ FillTmp \/ FillFails \/ LookForTarget
  BY <1>2 DEF OpenFails, OpenTmp, FillTmp, FillFails, LookForTarget, GiveUp
<1>3. CASE DropBackup \/ StartCopy \/ FinishCopy \/ CopyFails
  BY <1>3 DEF DropBackup, StartCopy, FinishCopy, CopyFails, GiveUp
<1>4. CASE Swap
  BY <1>4, NoFileAssumption, TornAssumption DEF Swap, TmpWhole
<1>5. CASE SwapFails \/ Return \/ Crash
  BY <1>5 DEF SwapFails, Return, Crash, GiveUp
<1>6. CASE UNCHANGED vars
  BY <1>6 DEF vars
<1> QED
  BY <1>1, <1>2, <1>3, <1>4, <1>5, <1>6 DEF Next, SaveStep

\* What the steps before the swap have prepared stays prepared.
LEMMA PreparedStep ==
    IInv /\ [Next]_vars => (TmpWhole /\ TargetUntouched /\ BackupTaken)'
<1> SUFFICES ASSUME IInv, [Next]_vars
             PROVE  (TmpWhole /\ TargetUntouched /\ BackupTaken)'
  OBVIOUS
<1> USE DEF IInv, TypeOK, TmpWhole, TargetUntouched, BackupTaken, Ended, Running
<1>1. CASE \E c \in Content : Begin(c) \/ HandEdit(c)
  BY <1>1 DEF Begin, HandEdit
<1>2. CASE OpenFails \/ OpenTmp \/ FillTmp \/ FillFails \/ LookForTarget
  BY <1>2 DEF OpenFails, OpenTmp, FillTmp, FillFails, LookForTarget, GiveUp
<1>3. CASE DropBackup \/ StartCopy \/ FinishCopy \/ CopyFails
  BY <1>3 DEF DropBackup, StartCopy, FinishCopy, CopyFails, GiveUp
<1>4. CASE Swap \/ SwapFails \/ Return \/ Crash
  BY <1>4 DEF Swap, SwapFails, Return, Crash, GiveUp
<1>5. CASE UNCHANGED vars
  BY <1>5 DEF vars
<1> QED
  BY <1>1, <1>2, <1>3, <1>4, <1>5 DEF Next, SaveStep

\* A first save starts with nothing prepared.
LEMMA IInvInit == Init => IInv
  BY DEF Init, IInv, TypeOK, TmpWhole, TargetUntouched, BackupTaken, File, Ended,
         Running

\* The inductive invariant of a save.
THEOREM Inductive == Spec => []IInv
<1>1. IInv /\ [Next]_vars => IInv'
  BY TypeStep, PreparedStep DEF IInv
<1> QED
  BY IInvInit, <1>1, PTL DEF Spec

\* The target is never torn, and a save is always at one of its steps.
THEOREM TypeCorrect == Spec => []TypeOK
<1>1. IInv => TypeOK
  BY DEF IInv
<1> QED
  BY Inductive, <1>1, PTL

\* The backup of a successful save over an existing file is the content that
\* the save replaced, whatever failed or died before, unless the test whether
\* the file exists failed in that save (exists(target, ec), whose error nobody
\* looks at).
THEOREM BackupKept == Spec => []BackupIsPrevious
<1>1. IInv => BackupIsPrevious
  BY DEF IInv, BackupTaken, BackupIsPrevious
<1> QED
  BY Inductive, <1>1, PTL

-----------------------------------------------------------------------------

\* Every operation of a save is a step of the atomic file, or none at all.
LEMMA StepSimulated == IInv /\ [Next]_vars => [Atomic!Next]_(Atomic!vars)
<1> SUFFICES ASSUME IInv, [Next]_vars PROVE [Atomic!Next]_(Atomic!vars)
  OBVIOUS
<1> USE DEF Phase, Running, Ended
<1>1. ASSUME NEW c \in Content, Begin(c) PROVE Atomic!Begin
  BY <1>1 DEF Begin, Atomic!Begin, Atomic!AtRest
<1>8. ASSUME NEW c \in Content, HandEdit(c) PROVE Atomic!HandEdit
  BY <1>8 DEF HandEdit, Atomic!HandEdit, Atomic!AtRest
<1>2. CASE OpenTmp \/ FillTmp \/ LookForTarget \/ DropBackup \/ StartCopy \/ FinishCopy
  <2>1. UNCHANGED <<target, content>> /\ pc \in Running /\ pc' \in Running
    BY <1>2 DEF OpenTmp, FillTmp, LookForTarget, DropBackup, StartCopy, FinishCopy
  <2> QED
    BY <2>1 DEF Atomic!vars
<1>3. CASE OpenFails \/ FillFails \/ CopyFails \/ SwapFails
  <2>1. UNCHANGED <<target, content>> /\ pc \in Running /\ pc' = "failed"
    BY <1>3 DEF OpenFails, FillFails, CopyFails, SwapFails, GiveUp
  <2> QED
    BY <2>1 DEF Atomic!Fail, Atomic!Next
<1>4. CASE Swap
  <2>1. tmp = content
    BY <1>4 DEF Swap, IInv, TmpWhole
  <2> QED
    BY <1>4, <2>1 DEF Swap, Atomic!Commit, Atomic!Next
<1>5. CASE Return
  BY <1>5 DEF Return, Atomic!Succeed, Atomic!Next
<1>6. CASE Crash
  <2>1. pc \in Running \cup {"swapped"}
    BY <1>6 DEF Crash, IInv, TypeOK
  <2> QED
    BY <1>6, <2>1 DEF Crash, Atomic!Crash, Atomic!Next
<1>7. CASE UNCHANGED vars
  BY <1>7 DEF vars, Atomic!vars
<1> QED
  BY <1>1, <1>2, <1>3, <1>4, <1>5, <1>6, <1>7, <1>8 DEF Next, SaveStep, Atomic!Next

\* atomicWrite keeps the promise of D-008: the three files and their dozen of
\* operations implement one atomic file.
THEOREM Implements == Spec => ImplementsAtomicFile
<1>1. Init => Atomic!Init
  BY DEF Init, Atomic!Init, Phase, Running
<1> QED
  BY <1>1, Inductive, StepSimulated, PTL
     DEF Spec, ImplementsAtomicFile, Atomic!Spec

-----------------------------------------------------------------------------
(* The values the program holds, by kind of file. *)

\* This is STRING: the provers do not know of a literal that it is a string.
Text == STRING \cup {"", "A", "C"} \cup {Code[d + 1] : d \in Weekday}

Strs == Seq(Text)
Days == Seq(Weekday)

TimeSlot == [id : Text, displayName : Text, start : Text, end : Text,
             weekdays : Days, categoryIds : Strs]

Category == [id : Text, displayName : Text, taskSetIds : Strs]

Config == [version : Int, workWeekdays : Days, holidays : Strs, timeSlots : Seq(TimeSlot),
           categories : Seq(Category), crossSetConflicts : BOOLEAN, enabled : BOOLEAN,
           repo : Text, checkIntervalHours : Int]

Worker == [id : Text, name : Text, active : BOOLEAN, weeklyOff : Days, note : Text]

WorkerList == [version : Int, workers : Seq(Worker)]

TaskSet == [id : Text, displayName : Text]

Task == [id : Text, name : Text, taskSetIds : Strs, requiredCount : Int,
         conflictsWith : Strs, weekdays : Days, priority : {{}} \cup {{p} : p \in Int}]

TaskList == [version : Int, taskSets : Seq(TaskSet), tasks : Seq(Task)]

Absence == [workerId : Text, from : Text, to : Text, reason : Text, createdAt : Text]

AbsenceList == [version : Int, absences : Seq(Absence)]

CursorState ==
    [version : Int, cursors : UNION {[D -> Int] : D \in {D \in SUBSET Text : IsFiniteSet(D)}}]

Assignment == [taskId : Text, workerId : Text, absentAssignee : BOOLEAN,
               done : BOOLEAN, doneAt : {{}} \cup {{s} : s \in Text}]

Unassigned == [taskId : Text, count : Int]

Set == [taskSetId : Text, assignments : Seq(Assignment), unassigned : Seq(Unassigned)]

Slot == [timeSlotId : Text, categoryId : Text, taskSets : Seq(Set)]

DaySnapshot == [version : Int, date : Text, weekday : Weekday, generatedAt : Text,
                slots : Seq(Slot)]

Values(k) ==
    CASE k = "config" -> Config
      [] k = "workers" -> WorkerList
      [] k = "tasks" -> TaskList
      [] k = "absences" -> AbsenceList
      [] k = "cursors" -> CursorState
      [] k = "snapshot" -> DaySnapshot

Kinds == {"config", "workers", "tasks", "absences", "cursors", "snapshot"}

-----------------------------------------------------------------------------
(* Reading: whatever JSON a file holds, what is loaded has its type. *)

\* J is a set of JSON values that holds the parts of every one of them.
Json(J) ==
    /\ Null \in J
    /\ \A v \in J :
        \/ v = Null
        \/ \E s \in Text : v = String(s)
        \/ \E n \in Int : v = Integer(n)
        \/ \E b \in BOOLEAN : v = Boolean(b)
        \/ \E q \in Seq(J) : v = Array(q)
        \/ \E D \in SUBSET Text : IsFiniteSet(D) /\ \E f \in [D -> J] : v = Object(f)

\* By the type a value says it has.
LEMMA Holds ==
    ASSUME NEW J, Json(J), NEW v \in J
    PROVE  /\ Is("string", v) => v[2] \in Text
           /\ Is("integer", v) => v[2] \in Int
           /\ Is("boolean", v) => v[2] \in BOOLEAN
           /\ Is("array", v) => v[2] \in Seq(J)
           /\ Is("object", v) => \E D \in SUBSET Text : IsFiniteSet(D) /\ v[2] \in [D -> J]
<1>1. CASE v = Null
  BY <1>1 DEF Is, Null
<1>2. CASE \E s \in Text : v = String(s)
  BY <1>2 DEF Is, String
<1>3. CASE \E n \in Int : v = Integer(n)
  BY <1>3 DEF Is, Integer
<1>4. CASE \E b \in BOOLEAN : v = Boolean(b)
  BY <1>4 DEF Is, Boolean
<1>5. CASE \E q \in Seq(J) : v = Array(q)
  BY <1>5 DEF Is, Array
<1>6. CASE \E D \in SUBSET Text : IsFiniteSet(D) /\ \E f \in [D -> J] : v = Object(f)
  BY <1>6 DEF Is, Object
<1>. QED BY <1>1, <1>2, <1>3, <1>4, <1>5, <1>6 DEF Json

LEMMA FieldTyped ==
    ASSUME NEW J, Json(J), NEW v \in J, NEW key
    PROVE  Field(v, key) \in J
<1>1. CASE Is("object", v)
  <2>1. PICK D \in SUBSET Text : v[2] \in [D -> J]
    BY <1>1, Holds
  <2>2. PICK f \in [D -> J] : v[2] = f
    BY <2>1
  <2>3. CASE key \in D
    BY <1>1, <2>2, <2>3 DEF Field
  <2>4. CASE key \notin D
    BY <2>2, <2>4 DEF Field, Json
  <2>. QED BY <2>3, <2>4
<1>2. CASE ~Is("object", v)
  BY <1>2 DEF Field, Json
<1>. QED BY <1>1, <1>2

LEMMA GetTyped ==
    ASSUME NEW J, Json(J), NEW v \in J, NEW key
    PROVE  /\ Str(v, key) \in Text
           /\ \A n \in Int : Num(v, key, n) \in Int
           /\ \A b \in BOOLEAN : Bool(v, key, b) \in BOOLEAN
           /\ Version(v) \in Int
<1>1. Field(v, key) \in J /\ Field(v, "version") \in J
  BY FieldTyped
<1>2. Str(v, key) \in Text
  <2>1. "" \in Text
    BY DEF Text
  <2>2. CASE Is("string", Field(v, key))
    BY <1>1, <2>2, Holds DEF Str, Get
  <2>3. CASE ~Is("string", Field(v, key))
    BY <2>1, <2>3 DEF Str, Get
  <2>. QED BY <2>2, <2>3
<1>3. \A n \in Int : Num(v, key, n) \in Int
  BY <1>1, Holds DEF Num, Get
<1>4. \A b \in BOOLEAN : Bool(v, key, b) \in BOOLEAN
  BY <1>1, Holds DEF Bool, Get
<1>5. Version(v) \in Int
  BY <1>1, Holds DEF Version, Num, Get, SchemaVersion
<1>. QED BY <1>2, <1>3, <1>4, <1>5

LEMMA ElementsTyped ==
    ASSUME NEW J, Json(J), NEW v \in J, NEW key
    PROVE  Elements(v, key) \in Seq(J)
<1>. PICK w \in J : w = Field(v, key)
  BY FieldTyped
<1>1. CASE Is("array", w)
  BY <1>1, Holds DEF Elements
<1>2. CASE Is("object", w)
  <2>1. PICK D \in SUBSET Text : IsFiniteSet(D) /\ w[2] \in [D -> J]
    BY <1>2, Holds
  <2>2. DOMAIN w[2] = D
    BY <2>1
  <2>3. PICK keys \in Seq(D) : keys = SetToSeq(DOMAIN w[2])
    BY <2>1, <2>2, SetSequence
  <2>4. [i \in DOMAIN keys |-> w[2][keys[i]]] \in Seq(J)
    <3>1. PICK f \in [D -> J] : f = w[2]
      BY <2>1
    <3>2. \A i \in DOMAIN keys : keys[i] \in D
      OBVIOUS
    <3>3. \A i \in DOMAIN keys : f[keys[i]] \in J
      BY <3>2
    <3>. QED BY <3>1, <3>3
  <2>. QED BY <1>2, <2>3, <2>4 DEF Elements, Is
<1>3. CASE ~Is("array", w) /\ ~Is("object", w)
  BY <1>3 DEF Elements
<1>. QED BY <1>1, <1>2, <1>3

LEMMA StringsTyped ==
    ASSUME NEW J, Json(J), NEW v \in J, NEW key
    PROVE  Strings(v, key) \in Strs
<1>1. PICK items \in Seq(J) : items = Get("array", v, key, <<>>)
  <2>1. CASE Is("array", Field(v, key))
    BY <2>1, FieldTyped, Holds DEF Get
  <2>2. CASE ~Is("array", Field(v, key))
    <3>1. <<>> \in Seq(J)
      OBVIOUS
    <3>2. Get("array", v, key, <<>>) = <<>>
      BY <2>2 DEF Get
    <3>. QED BY <3>1, <3>2
  <2>. QED BY <2>1, <2>2
<1>. DEFINE piece(i) == IF Is("string", items[i]) THEN <<items[i][2]>> ELSE <<>>
            pieces == [i \in DOMAIN items |-> piece(i)]
<1>2. \A i \in DOMAIN items : piece(i) \in Seq(Text)
  <2>. TAKE i \in DOMAIN items
  <2>1. items[i] \in J
    OBVIOUS
  <2>2. Is("string", items[i]) => items[i][2] \in Text
    BY <2>1, Holds
  <2>3. CASE Is("string", items[i])
    <3>1. PICK s \in Text : s = items[i][2]
      BY <2>2, <2>3
    <3>. QED BY <2>3, <3>1
  <2>4. CASE ~Is("string", items[i])
    BY <2>4
  <2>. QED BY <2>3, <2>4
<1>. HIDE DEF piece
<1>3. pieces \in Seq(Seq(Text))
  BY <1>2
<1>4. Strings(v, key) = FlattenSeq(pieces)
  BY <1>1 DEF Strings, Pushed, piece
<1>. QED BY <1>3, <1>4, FlattenType DEF Strs

LEMMA ParseTyped ==
    ASSUME NEW code
    PROVE  /\ ParseWeekday(code) \subseteq Weekday
           /\ SetToSeq(ParseWeekday(code)) \in Days
<1>1. ParseWeekday(code) \subseteq Weekday
  BY DEF ParseWeekday
<1>2. IsFiniteSet(ParseWeekday(code))
  <2>1. IsFiniteSet(0 .. 6)
    <3>1. 0 \in Int /\ 6 \in Int
      OBVIOUS
    <3>. QED BY <3>1, FS_Interval
  <2>. QED BY <1>1, <2>1, FS_Subset DEF Weekday
<1>3. SetToSeq(ParseWeekday(code)) \in Seq(ParseWeekday(code))
  BY <1>2, SetSequence
<1>. QED BY <1>1, <1>3 DEF Days

LEMMA WeekdaysTyped ==
    ASSUME NEW J, Json(J), NEW v \in J, NEW key
    PROVE  Weekdays(v, key) \in Days
<1>1. PICK codes \in Seq(Text) : codes = Strings(v, key)
  BY StringsTyped DEF Strs
<1>. DEFINE pieces == [i \in DOMAIN codes |-> SetToSeq(ParseWeekday(codes[i]))]
<1>2. pieces \in Seq(Seq(Weekday))
  BY ParseTyped DEF Days
<1>3. Weekdays(v, key) = FlattenSeq(pieces)
  BY <1>1 DEF Weekdays, Pushed
<1>. QED BY <1>2, <1>3, FlattenType DEF Days

LEMMA ReadTimeSlotTyped ==
    ASSUME NEW J, Json(J), NEW v \in J
    PROVE  ReadTimeSlot(v) \in TimeSlot
BY GetTyped, StringsTyped, WeekdaysTyped DEF ReadTimeSlot, TimeSlot

LEMMA ReadCategoryTyped ==
    ASSUME NEW J, Json(J), NEW v \in J
    PROVE  ReadCategory(v) \in Category
BY GetTyped, StringsTyped DEF ReadCategory, Category

LEMMA ReadWorkerTyped ==
    ASSUME NEW J, Json(J), NEW v \in J
    PROVE  ReadWorker(v) \in Worker
BY GetTyped, WeekdaysTyped DEF ReadWorker, Worker

LEMMA ReadTaskSetTyped ==
    ASSUME NEW J, Json(J), NEW v \in J
    PROVE  ReadTaskSet(v) \in TaskSet
BY GetTyped DEF ReadTaskSet, TaskSet

LEMMA ReadTaskTyped ==
    ASSUME NEW J, Json(J), NEW v \in J
    PROVE  ReadTask(v) \in Task
<1>. DEFINE p == Field(v, "priority")
            priority == IF Is("integer", p) THEN {p[2]} ELSE {}
<1>1. p \in J
  BY FieldTyped
<1>2. priority \in {{}} \cup {{n} : n \in Int}
  <2>1. Is("integer", p) => p[2] \in Int
    BY <1>1, Holds
  <2>. QED BY <2>1
<1>. HIDE DEF p
<1>3. /\ Str(v, "id") \in Text /\ Str(v, "name") \in Text
      /\ Num(v, "requiredCount", 1) \in Int
  <2>1. 1 \in Int
    OBVIOUS
  <2>. QED BY <2>1, GetTyped
<1>4. /\ Strings(v, "taskSetIds") \in Strs /\ Strings(v, "conflictsWith") \in Strs
      /\ Weekdays(v, "weekdays") \in Days
  BY StringsTyped, WeekdaysTyped
<1>5. ReadTask(v) = [id |-> Str(v, "id"), name |-> Str(v, "name"),
                     taskSetIds |-> Strings(v, "taskSetIds"),
                     requiredCount |-> Num(v, "requiredCount", 1),
                     conflictsWith |-> Strings(v, "conflictsWith"),
                     weekdays |-> Weekdays(v, "weekdays"), priority |-> priority]
  BY DEF ReadTask, p
<1>. HIDE DEF priority
<1>. QED BY <1>2, <1>3, <1>4, <1>5 DEF Task

LEMMA ReadAbsenceTyped ==
    ASSUME NEW J, Json(J), NEW v \in J
    PROVE  ReadAbsence(v) \in Absence
BY GetTyped DEF ReadAbsence, Absence

LEMMA ReadAssignmentTyped ==
    ASSUME NEW J, Json(J), NEW v \in J
    PROVE  ReadAssignment(v) \in Assignment
<1>. DEFINE d == Field(v, "doneAt")
            doneAt == IF Is("string", d) THEN {d[2]} ELSE {}
<1>1. d \in J
  BY FieldTyped
<1>2. doneAt \in {{}} \cup {{s} : s \in Text}
  <2>1. Is("string", d) => d[2] \in Text
    BY <1>1, Holds
  <2>. QED BY <2>1
<1>. HIDE DEF d
<1>3. /\ Str(v, "taskId") \in Text /\ Str(v, "workerId") \in Text
      /\ Bool(v, "absentAssignee", FALSE) \in BOOLEAN /\ Bool(v, "done", FALSE) \in BOOLEAN
  BY GetTyped
<1>4. ReadAssignment(v) = [taskId |-> Str(v, "taskId"), workerId |-> Str(v, "workerId"),
                           absentAssignee |-> Bool(v, "absentAssignee", FALSE),
                           done |-> Bool(v, "done", FALSE), doneAt |-> doneAt]
  BY DEF ReadAssignment, d
<1>. HIDE DEF doneAt
<1>5. PICK b \in BOOLEAN, c \in BOOLEAN :
          b = Bool(v, "absentAssignee", FALSE) /\ c = Bool(v, "done", FALSE)
  BY <1>3
<1>6. [taskId |-> Str(v, "taskId"), workerId |-> Str(v, "workerId"),
       absentAssignee |-> b, done |-> c, doneAt |-> doneAt] \in Assignment
  BY <1>2, <1>3 DEF Assignment
<1>. QED BY <1>4, <1>5, <1>6

LEMMA ReadUnassignedTyped ==
    ASSUME NEW J, Json(J), NEW v \in J
    PROVE  ReadUnassigned(v) \in Unassigned
BY GetTyped DEF ReadUnassigned, Unassigned

LEMMA ReadSetTyped ==
    ASSUME NEW J, Json(J), NEW v \in J
    PROVE  ReadSet(v) \in Set
<1>1. Each(v, "assignments", ReadAssignment) \in Seq(Assignment)
  <2>1. PICK items \in Seq(J) : items = Elements(v, "assignments")
    BY ElementsTyped
  <2>2. \A i \in DOMAIN items : ReadAssignment(items[i]) \in Assignment
    BY ReadAssignmentTyped
  <2>. QED BY <2>1, <2>2 DEF Each
<1>2. Each(v, "unassigned", ReadUnassigned) \in Seq(Unassigned)
  <2>1. PICK items \in Seq(J) : items = Elements(v, "unassigned")
    BY ElementsTyped
  <2>2. \A i \in DOMAIN items : ReadUnassigned(items[i]) \in Unassigned
    BY ReadUnassignedTyped
  <2>. QED BY <2>1, <2>2 DEF Each
<1>. QED BY <1>1, <1>2, GetTyped DEF ReadSet, Set

LEMMA ReadSlotTyped ==
    ASSUME NEW J, Json(J), NEW v \in J
    PROVE  ReadSlot(v) \in Slot
<1>1. Each(v, "taskSets", ReadSet) \in Seq(Set)
  <2>1. PICK items \in Seq(J) : items = Elements(v, "taskSets")
    BY ElementsTyped
  <2>2. \A i \in DOMAIN items : ReadSet(items[i]) \in Set
    BY ReadSetTyped
  <2>. QED BY <2>1, <2>2 DEF Each
<1>. QED BY <1>1, GetTyped DEF ReadSlot, Slot

LEMMA LoadConfigTyped ==
    ASSUME NEW J, Json(J), NEW v \in J
    PROVE  LoadConfig(v) \in Config
<1>. DEFINE calendar == Field(v, "workCalendar")
            update == Field(v, "update")
<1>1. Each(v, "timeSlots", ReadTimeSlot) \in Seq(TimeSlot)
  <2>1. PICK items \in Seq(J) : items = Elements(v, "timeSlots")
    BY ElementsTyped
  <2>2. \A i \in DOMAIN items : ReadTimeSlot(items[i]) \in TimeSlot
    BY ReadTimeSlotTyped
  <2>. QED BY <2>1, <2>2 DEF Each
<1>2. Each(v, "categories", ReadCategory) \in Seq(Category)
  <2>1. PICK items \in Seq(J) : items = Elements(v, "categories")
    BY ElementsTyped
  <2>2. \A i \in DOMAIN items : ReadCategory(items[i]) \in Category
    BY ReadCategoryTyped
  <2>. QED BY <2>1, <2>2 DEF Each
<1>3. calendar \in J /\ update \in J /\ Field(v, "assignment") \in J
  BY FieldTyped
<1>. HIDE DEF calendar, update
<1>4. /\ Weekdays(calendar, "workWeekdays") \in Days
      /\ Strings(calendar, "holidays") \in Strs
      /\ Version(v) \in Int
      /\ Bool(Field(v, "assignment"), "crossSetConflicts", FALSE) \in BOOLEAN
      /\ Bool(update, "enabled", TRUE) \in BOOLEAN
      /\ Str(update, "repo") \in Text
      /\ Num(update, "checkIntervalHours", 24) \in Int
  <2>1. 24 \in Int /\ TRUE \in BOOLEAN /\ FALSE \in BOOLEAN
    OBVIOUS
  <2>. QED BY <1>3, <2>1, GetTyped, StringsTyped, WeekdaysTyped
<1>. QED BY <1>1, <1>2, <1>4 DEF LoadConfig, Config, calendar, update

LEMMA LoadWorkersTyped ==
    ASSUME NEW J, Json(J), NEW v \in J
    PROVE  LoadWorkers(v) \in WorkerList
<1>1. Each(v, "workers", ReadWorker) \in Seq(Worker)
  <2>1. PICK items \in Seq(J) : items = Elements(v, "workers")
    BY ElementsTyped
  <2>2. \A i \in DOMAIN items : ReadWorker(items[i]) \in Worker
    BY ReadWorkerTyped
  <2>. QED BY <2>1, <2>2 DEF Each
<1>. QED BY <1>1, GetTyped DEF LoadWorkers, WorkerList

LEMMA LoadAbsencesTyped ==
    ASSUME NEW J, Json(J), NEW v \in J
    PROVE  LoadAbsences(v) \in AbsenceList
<1>1. Each(v, "absences", ReadAbsence) \in Seq(Absence)
  <2>1. PICK items \in Seq(J) : items = Elements(v, "absences")
    BY ElementsTyped
  <2>2. \A i \in DOMAIN items : ReadAbsence(items[i]) \in Absence
    BY ReadAbsenceTyped
  <2>. QED BY <2>1, <2>2 DEF Each
<1>. QED BY <1>1, GetTyped DEF LoadAbsences, AbsenceList

LEMMA LoadCursorsTyped ==
    ASSUME NEW J, Json(J), NEW v \in J
    PROVE  LoadCursors(v) \in CursorState
<1>. PICK c \in J : c = Field(v, "cursors")
  BY FieldTyped
<1>. DEFINE kept == IF Is("object", c)
                    THEN {k \in DOMAIN c[2] : Is("integer", c[2][k])} ELSE {}
            cursors == [k \in kept |-> c[2][k][2]]
<1>1. kept \in SUBSET Text /\ IsFiniteSet(kept) /\ cursors \in [kept -> Int]
  <2>1. CASE Is("object", c)
    <3>1. PICK D \in SUBSET Text : IsFiniteSet(D) /\ c[2] \in [D -> J]
      BY <2>1, Holds
    <3>2. PICK f \in [D -> J] : f = c[2]
      BY <3>1
    <3>3. kept = {k \in D : Is("integer", f[k])}
      BY <2>1, <3>2
    <3>4. \A k \in kept : f[k] \in J /\ f[k][2] \in Int
      BY <3>2, <3>3, Holds
    <3>. QED BY <3>1, <3>2, <3>3, <3>4, FS_Subset
  <2>2. CASE ~Is("object", c)
    BY <2>2, FS_EmptySet
  <2>. QED BY <2>1, <2>2
<1>2. LoadCursors(v) = [version |-> Version(v), cursors |-> cursors]
  BY DEF LoadCursors
<1>3. Version(v) \in Int
  BY GetTyped
<1>. HIDE DEF kept, cursors
<1>4. cursors \in UNION {[D -> Int] : D \in {D \in SUBSET Text : IsFiniteSet(D)}}
  BY <1>1
<1>. QED BY <1>2, <1>3, <1>4 DEF CursorState

LEMMA LoadSnapshotTyped ==
    ASSUME NEW J, Json(J), NEW v \in J
    PROVE  LoadSnapshot(v) \in DaySnapshot
<1>1. Each(v, "slots", ReadSlot) \in Seq(Slot)
  <2>1. PICK items \in Seq(J) : items = Elements(v, "slots")
    BY ElementsTyped
  <2>2. \A i \in DOMAIN items : ReadSlot(items[i]) \in Slot
    BY ReadSlotTyped
  <2>. QED BY <2>1, <2>2 DEF Each
<1>. DEFINE day == ParseWeekday(Str(v, "weekday"))
<1>2. (IF day = {} THEN 0 ELSE CHOOSE d \in day : TRUE) \in Weekday
  <2>1. day \subseteq Weekday
    BY ParseTyped
  <2>2. 0 \in Weekday
    BY DEF Weekday
  <2>. HIDE DEF day
  <2>. QED BY <2>1, <2>2
<1>. HIDE DEF day
<1>3. Version(v) \in Int /\ Str(v, "date") \in Text /\ Str(v, "generatedAt") \in Text
  BY GetTyped
<1>. QED BY <1>1, <1>2, <1>3 DEF LoadSnapshot, DaySnapshot, day

-----------------------------------------------------------------------------
(* Writing and reading back. *)

\* A field of the type it should have is read as written.
LEMMA FieldRead ==
    ASSUME NEW fields, NEW key \in DOMAIN fields, NEW type, NEW x, NEW fallback,
           fields[key] = <<type, x>>
    PROVE  Get(type, Object(fields), key, fallback) = x
BY DEF Get, Field, Is, Object

LEMMA ArrayRead ==
    ASSUME NEW fields, NEW key \in DOMAIN fields, NEW items,
           fields[key] = Array(items)
    PROVE  Elements(Object(fields), key) = items
BY DEF Elements, Field, Is, Object, Array

\* No two weekdays have one code.
LEMMA WeekdayRoundTrip ==
    ASSUME NEW d \in Weekday
    PROVE  ParseWeekday(Code[d + 1]) = {d}
BY DEF ParseWeekday, Weekday, Code

LEMMA StringsRead ==
    ASSUME NEW fields, NEW key \in DOMAIN fields, NEW s \in Strs,
           fields[key] = StringsJson(s)
    PROVE  Strings(Object(fields), key) = s
<1>. DEFINE items == [i \in DOMAIN s |-> String(s[i])]
            pieces == [i \in DOMAIN items |->
                        IF Is("string", items[i]) THEN <<items[i][2]>> ELSE <<>>]
<1>1. Get("array", Object(fields), key, <<>>) = items
  BY FieldRead DEF StringsJson, Array
<1>2. Strings(Object(fields), key) = FlattenSeq(pieces)
  BY <1>1 DEF Strings, Pushed
<1>3. PICK n \in Nat : n = Len(s) /\ DOMAIN s = 1 .. n /\ s \in Seq(Text)
  BY DEF Strs
<1>4. \A i \in 1 .. n : pieces[i] = <<s[i]>> /\ s[i] \in Text
  BY <1>3 DEF Is, String
<1>5. pieces \in Seq(Seq(Text)) /\ Len(pieces) = n
  <2>1. DOMAIN pieces = 1 .. n /\ pieces = [i \in 1 .. n |-> pieces[i]]
    BY <1>3
  <2>. HIDE DEF pieces
  <2>2. ASSUME NEW i \in 1 .. n PROVE pieces[i] \in Seq(Text)
    <3>1. s[i] \in Text /\ pieces[i] = <<s[i]>>
      BY <1>4
    <3>. QED BY <3>1
  <2>. QED BY <2>1, <2>2
<1>. HIDE DEF pieces
<1>. QED BY <1>2, <1>3, <1>4, <1>5, FlattenKeeps

LEMMA WeekdaysRead ==
    ASSUME NEW fields, NEW key \in DOMAIN fields, NEW days \in Days,
           fields[key] = WeekdaysJson(days)
    PROVE  Weekdays(Object(fields), key) = days
<1>. DEFINE codes == [i \in DOMAIN days |-> Code[days[i] + 1]]
            pieces == [i \in DOMAIN codes |-> SetToSeq(ParseWeekday(codes[i]))]
<1>1. PICK n \in Nat : n = Len(days) /\ DOMAIN days = 1 .. n /\ days \in Seq(Weekday)
  BY DEF Days
<1>2. Strings(Object(fields), key) = codes
  <2>1. \A i \in 1 .. n : days[i] \in Weekday /\ codes[i] = Code[days[i] + 1]
    BY <1>1
  <2>2. codes \in Strs
    <3>1. \A i \in 1 .. n : Code[days[i] + 1] \in Text
      BY <2>1 DEF Text
    <3>. QED BY <1>1, <3>1 DEF Strs
  <2>3. StringsJson(codes) = WeekdaysJson(days)
    BY <1>1 DEF StringsJson, WeekdaysJson, EachJson
  <2>. QED BY <2>2, <2>3, StringsRead
<1>3. Weekdays(Object(fields), key) = FlattenSeq(pieces)
  BY <1>2 DEF Weekdays, Pushed
<1>4. ASSUME NEW i \in 1 .. n PROVE pieces[i] = <<days[i]>> /\ days[i] \in Weekday
  <2>1. days[i] \in Weekday
    BY <1>1
  <2>2. pieces[i] = SetToSeq(ParseWeekday(Code[days[i] + 1]))
    BY <1>1
  <2>3. pieces[i] = SetToSeq({days[i]})
    BY <2>1, <2>2, WeekdayRoundTrip
  <2>. QED BY <2>1, <2>3, SingletonSequence
<1>5. pieces \in Seq(Seq(Weekday)) /\ Len(pieces) = n
  <2>1. DOMAIN pieces = 1 .. n /\ pieces = [i \in 1 .. n |-> pieces[i]]
    BY <1>1
  <2>. HIDE DEF pieces
  <2>2. ASSUME NEW i \in 1 .. n PROVE pieces[i] \in Seq(Weekday)
    <3>1. days[i] \in Weekday /\ pieces[i] = <<days[i]>>
      BY <1>4
    <3>. QED BY <3>1
  <2>. QED BY <2>1, <2>2
<1>. HIDE DEF pieces
<1>. QED BY <1>1, <1>3, <1>4, <1>5, FlattenKeeps

LEMMA TimeSlotRoundTrip ==
    ASSUME NEW s \in TimeSlot
    PROVE  ReadTimeSlot(TimeSlotJson(s)) = s
<1>. DEFINE f == [id |-> String(s.id), displayName |-> String(s.displayName),
                  start |-> String(s.start), end |-> String(s.end),
                  weekdays |-> WeekdaysJson(s.weekdays),
                  categoryIds |-> StringsJson(s.categoryIds)]
<1>1. TimeSlotJson(s) = Object(f)
  BY DEF TimeSlotJson
<1>2. /\ Str(Object(f), "id") = s.id
      /\ Str(Object(f), "displayName") = s.displayName
      /\ Str(Object(f), "start") = s.start
      /\ Str(Object(f), "end") = s.end
  BY DEF Str, String, Get, Field, Is, Object
<1>3. Weekdays(Object(f), "weekdays") = s.weekdays
  BY WeekdaysRead DEF TimeSlot
<1>4. Strings(Object(f), "categoryIds") = s.categoryIds
  BY StringsRead DEF TimeSlot
<1>. QED BY <1>1, <1>2, <1>3, <1>4 DEF ReadTimeSlot, TimeSlot

LEMMA CategoryRoundTrip ==
    ASSUME NEW c \in Category
    PROVE  ReadCategory(CategoryJson(c)) = c
<1>. DEFINE f == [id |-> String(c.id), displayName |-> String(c.displayName),
                  taskSetIds |-> StringsJson(c.taskSetIds)]
<1>1. CategoryJson(c) = Object(f)
  BY DEF CategoryJson
<1>2. Str(Object(f), "id") = c.id /\ Str(Object(f), "displayName") = c.displayName
  BY DEF Str, String, Get, Field, Is, Object
<1>3. Strings(Object(f), "taskSetIds") = c.taskSetIds
  BY StringsRead DEF Category
<1>. QED BY <1>1, <1>2, <1>3 DEF ReadCategory, Category

LEMMA ConfigRoundTrip ==
    ASSUME NEW v \in Config
    PROVE  LoadConfig(ConfigJson(v)) = v
<1>. DEFINE slots == [i \in DOMAIN v.timeSlots |-> TimeSlotJson(v.timeSlots[i])]
            cats == [i \in DOMAIN v.categories |-> CategoryJson(v.categories[i])]
            calendar == [workWeekdays |-> WeekdaysJson(v.workWeekdays),
                         holidays |-> StringsJson(v.holidays)]
            assignment == [crossSetConflicts |-> Boolean(v.crossSetConflicts)]
            update == [enabled |-> Boolean(v.enabled), repo |-> String(v.repo),
                       checkIntervalHours |-> Integer(v.checkIntervalHours)]
            f == [version |-> Integer(v.version), workCalendar |-> Object(calendar),
                  timeSlots |-> Array(slots), categories |-> Array(cats),
                  assignment |-> Object(assignment), update |-> Object(update)]
<1>1. Each(Object(f), "timeSlots", ReadTimeSlot) = v.timeSlots
  <2>1. Elements(Object(f), "timeSlots") = slots
    BY ArrayRead
  <2>2. \A i \in DOMAIN v.timeSlots : ReadTimeSlot(slots[i]) = v.timeSlots[i]
    BY TimeSlotRoundTrip DEF Config
  <2>3. v.timeSlots = [i \in DOMAIN v.timeSlots |-> v.timeSlots[i]]
    BY DEF Config
  <2>. QED BY <2>1, <2>2, <2>3 DEF Each
<1>2. Each(Object(f), "categories", ReadCategory) = v.categories
  <2>1. Elements(Object(f), "categories") = cats
    BY ArrayRead
  <2>2. \A i \in DOMAIN v.categories : ReadCategory(cats[i]) = v.categories[i]
    BY CategoryRoundTrip DEF Config
  <2>3. v.categories = [i \in DOMAIN v.categories |-> v.categories[i]]
    BY DEF Config
  <2>. QED BY <2>1, <2>2, <2>3 DEF Each
<1>3. ConfigJson(v) = Object(f)
  BY DEF ConfigJson, EachJson
<1>4. Version(Object(f)) = v.version
  BY FieldRead DEF Version, Num, Integer
<1>5. /\ Field(Object(f), "workCalendar") = Object(calendar)
      /\ Field(Object(f), "assignment") = Object(assignment)
      /\ Field(Object(f), "update") = Object(update)
  BY DEF Field, Is, Object
<1>. HIDE DEF f
<1>6. Weekdays(Object(calendar), "workWeekdays") = v.workWeekdays
  BY WeekdaysRead DEF Config
<1>7. Strings(Object(calendar), "holidays") = v.holidays
  BY StringsRead DEF Config
<1>8. Bool(Object(assignment), "crossSetConflicts", FALSE) = v.crossSetConflicts
  BY DEF Bool, Boolean, Get, Field, Is, Object
<1>9. Bool(Object(update), "enabled", TRUE) = v.enabled
  BY DEF Bool, Boolean, Get, Field, Is, Object
<1>10. Str(Object(update), "repo") = v.repo
  BY DEF Str, String, Get, Field, Is, Object
<1>11. Num(Object(update), "checkIntervalHours", 24) = v.checkIntervalHours
  BY FieldRead DEF Num, Integer
<1>. HIDE DEF calendar, assignment, update
<1>12. LoadConfig(Object(f)) = [
          version |-> v.version, workWeekdays |-> v.workWeekdays, holidays |-> v.holidays,
          timeSlots |-> v.timeSlots, categories |-> v.categories,
          crossSetConflicts |-> v.crossSetConflicts, enabled |-> v.enabled,
          repo |-> v.repo, checkIntervalHours |-> v.checkIntervalHours]
  BY <1>1, <1>2, <1>4, <1>5, <1>6, <1>7, <1>8, <1>9, <1>10, <1>11, Zenon DEF LoadConfig
<1>. QED BY <1>3, <1>12 DEF Config

LEMMA WorkerRoundTrip ==
    ASSUME NEW w \in Worker
    PROVE  ReadWorker(WorkerJson(w)) = w
<1>. DEFINE f == [id |-> String(w.id), name |-> String(w.name), active |-> Boolean(w.active),
                  weeklyOff |-> WeekdaysJson(w.weeklyOff), note |-> String(w.note)]
<1>1. WorkerJson(w) = Object(f)
  BY DEF WorkerJson
<1>2. /\ Str(Object(f), "id") = w.id
      /\ Str(Object(f), "name") = w.name
      /\ Str(Object(f), "note") = w.note
  BY DEF Str, String, Get, Field, Is, Object
<1>3. Bool(Object(f), "active", TRUE) = w.active
  BY DEF Bool, Boolean, Get, Field, Is, Object
<1>4. Weekdays(Object(f), "weeklyOff") = w.weeklyOff
  BY WeekdaysRead DEF Worker
<1>. QED BY <1>1, <1>2, <1>3, <1>4 DEF ReadWorker, Worker

LEMMA WorkersRoundTrip ==
    ASSUME NEW v \in WorkerList
    PROVE  LoadWorkers(WorkersJson(v)) = v
<1>. DEFINE items == [i \in DOMAIN v.workers |-> WorkerJson(v.workers[i])]
            f == [version |-> Integer(v.version), workers |-> Array(items)]
<1>1. Each(Object(f), "workers", ReadWorker) = v.workers
  <2>1. Elements(Object(f), "workers") = items
    BY ArrayRead
  <2>2. \A i \in DOMAIN v.workers : ReadWorker(items[i]) = v.workers[i]
    BY WorkerRoundTrip DEF WorkerList
  <2>3. v.workers = [i \in DOMAIN v.workers |-> v.workers[i]]
    BY DEF WorkerList
  <2>. QED BY <2>1, <2>2, <2>3 DEF Each
<1>2. WorkersJson(v) = Object(f)
  BY DEF WorkersJson, EachJson
<1>3. Version(Object(f)) = v.version
  BY FieldRead DEF Version, Num, Integer
<1>. QED BY <1>1, <1>2, <1>3 DEF LoadWorkers, WorkerList

LEMMA TaskSetRoundTrip ==
    ASSUME NEW s \in TaskSet
    PROVE  ReadTaskSet(TaskSetJson(s)) = s
<1>. DEFINE f == [id |-> String(s.id), displayName |-> String(s.displayName)]
<1>1. TaskSetJson(s) = Object(f)
  BY DEF TaskSetJson
<1>2. Str(Object(f), "id") = s.id /\ Str(Object(f), "displayName") = s.displayName
  BY DEF Str, String, Get, Field, Is, Object
<1>. QED BY <1>1, <1>2 DEF ReadTaskSet, TaskSet

LEMMA TaskRoundTrip ==
    ASSUME NEW t \in Task
    PROVE  ReadTask(TaskJson(t)) = t
<1>. DEFINE f == [id |-> String(t.id), name |-> String(t.name),
                  taskSetIds |-> StringsJson(t.taskSetIds),
                  requiredCount |-> Integer(t.requiredCount),
                  conflictsWith |-> StringsJson(t.conflictsWith),
                  weekdays |-> WeekdaysJson(t.weekdays),
                  priority |-> PriorityJson(t.priority)]
            p == Field(Object(f), "priority")
<1>1. TaskJson(t) = Object(f)
  BY DEF TaskJson
<1>2. Str(Object(f), "id") = t.id /\ Str(Object(f), "name") = t.name
  BY DEF Str, String, Get, Field, Is, Object
<1>3. Num(Object(f), "requiredCount", 1) = t.requiredCount
  BY FieldRead DEF Num, Integer
<1>4. /\ Strings(Object(f), "taskSetIds") = t.taskSetIds
      /\ Strings(Object(f), "conflictsWith") = t.conflictsWith
  BY StringsRead DEF Task
<1>5. Weekdays(Object(f), "weekdays") = t.weekdays
  BY WeekdaysRead DEF Task
<1>6. (IF Is("integer", p) THEN {p[2]} ELSE {}) = t.priority
  <2>1. p = PriorityJson(t.priority)
    BY DEF Field, Is, Object
  <2>2. CASE t.priority = {}
    BY <2>1, <2>2 DEF PriorityJson, Null, Is
  <2>3. CASE t.priority # {}
    <3>1. PICK n \in Int : t.priority = {n}
      BY <2>3 DEF Task
    <3>2. (CHOOSE x \in t.priority : TRUE) = n
      BY <3>1
    <3>. QED BY <2>1, <2>3, <3>1, <3>2 DEF PriorityJson, Integer, Is
  <2>. QED BY <2>2, <2>3
<1>. QED BY <1>1, <1>2, <1>3, <1>4, <1>5, <1>6 DEF ReadTask, Task

\* But for the conflicts, which are normalized.
LEMMA TasksRoundTrip ==
    ASSUME NEW v \in TaskList
    PROVE  LoadTasks(TasksJson(v)) = [v EXCEPT !.tasks = NormalizeConflicts(@)]
<1>. DEFINE sets == [i \in DOMAIN v.taskSets |-> TaskSetJson(v.taskSets[i])]
            items == [i \in DOMAIN v.tasks |-> TaskJson(v.tasks[i])]
            f == [version |-> Integer(v.version), taskSets |-> Array(sets),
                  tasks |-> Array(items)]
<1>1. Each(Object(f), "taskSets", ReadTaskSet) = v.taskSets
  <2>1. Elements(Object(f), "taskSets") = sets
    BY ArrayRead
  <2>2. \A i \in DOMAIN v.taskSets : ReadTaskSet(sets[i]) = v.taskSets[i]
    BY TaskSetRoundTrip DEF TaskList
  <2>3. v.taskSets = [i \in DOMAIN v.taskSets |-> v.taskSets[i]]
    BY DEF TaskList
  <2>. QED BY <2>1, <2>2, <2>3 DEF Each
<1>2. Each(Object(f), "tasks", ReadTask) = v.tasks
  <2>1. Elements(Object(f), "tasks") = items
    BY ArrayRead
  <2>2. \A i \in DOMAIN v.tasks : ReadTask(items[i]) = v.tasks[i]
    BY TaskRoundTrip DEF TaskList
  <2>3. v.tasks = [i \in DOMAIN v.tasks |-> v.tasks[i]]
    BY DEF TaskList
  <2>. QED BY <2>1, <2>2, <2>3 DEF Each
<1>3. TasksJson(v) = Object(f)
  BY DEF TasksJson, EachJson
<1>4. Version(Object(f)) = v.version
  BY FieldRead DEF Version, Num, Integer
<1>. QED BY <1>1, <1>2, <1>3, <1>4 DEF LoadTasks, TaskList

LEMMA CursorsRoundTrip ==
    ASSUME NEW v \in CursorState
    PROVE  LoadCursors(CursorsJson(v)) = v
<1>1. PICK D \in SUBSET Text : v.cursors \in [D -> Int]
  BY DEF CursorState
<1>. PICK c \in [D -> Int] : c = v.cursors
  BY <1>1
<1>. DEFINE g == [k \in D |-> Integer(c[k])]
            f == [version |-> Integer(v.version), cursors |-> Object(g)]
<1>2. CursorsJson(v) = Object(f)
  BY DEF CursorsJson
<1>3. Version(Object(f)) = v.version
  BY FieldRead DEF Version, Num, Integer
<1>4. Field(Object(f), "cursors") = Object(g)
  BY DEF Field, Is, Object
<1>5. \A k \in D : Is("integer", g[k]) /\ g[k][2] = c[k]
  BY DEF Integer, Is
<1>6. Is("object", Object(g)) /\ Object(g)[2] = g /\ DOMAIN g = D
  BY DEF Is, Object
<1>. HIDE DEF g, f
<1>7. {k \in DOMAIN g : Is("integer", g[k])} = D
  BY <1>5, <1>6
<1>8. [k \in D |-> g[k][2]] = c
  BY <1>5
<1>9. LoadCursors(Object(f)) = [version |-> v.version, cursors |-> c]
  BY <1>3, <1>4, <1>6, <1>7, <1>8 DEF LoadCursors
<1>. QED BY <1>2, <1>9 DEF CursorState

LEMMA AbsenceRoundTrip ==
    ASSUME NEW a \in Absence
    PROVE  ReadAbsence(AbsenceJson(a)) = a
<1> DEFINE f == [workerId |-> String(a.workerId), from |-> String(a.from), to |-> String(a.to),
                 reason |-> String(a.reason), createdAt |-> String(a.createdAt)]
<1>1. AbsenceJson(a) = Object(f)
  BY DEF AbsenceJson
<1>2. /\ Str(Object(f), "workerId") = a.workerId
      /\ Str(Object(f), "from") = a.from
      /\ Str(Object(f), "to") = a.to
      /\ Str(Object(f), "reason") = a.reason
      /\ Str(Object(f), "createdAt") = a.createdAt
  BY DEF Str, String, Get, Field, Is, Object
<1> QED
  BY <1>1, <1>2 DEF ReadAbsence, Absence

\* Every list of absences that is saved is loaded as it was.
THEOREM AbsencesRoundTrip ==
    ASSUME NEW v \in AbsenceList
    PROVE  LoadAbsences(AbsencesJson(v)) = v
<1> DEFINE items == [i \in DOMAIN v.absences |-> AbsenceJson(v.absences[i])]
           f == [version |-> Integer(v.version), absences |-> Array(items)]
<1>1. AbsencesJson(v) = Object(f)
  BY DEF AbsencesJson, EachJson
<1>2. Version(Object(f)) = v.version
  BY FieldRead DEF Version, Num, Integer
<1>3. Elements(Object(f), "absences") = items
  BY ArrayRead
<1>4. \A i \in DOMAIN v.absences : ReadAbsence(items[i]) = v.absences[i]
  BY AbsenceRoundTrip DEF AbsenceList
<1>5. Each(Object(f), "absences", ReadAbsence) = v.absences
  <2>1. v.absences = [i \in DOMAIN v.absences |-> v.absences[i]]
    BY DEF AbsenceList
  <2> QED
    BY <1>3, <1>4, <2>1 DEF Each
<1> QED
  BY <1>1, <1>2, <1>5 DEF LoadAbsences, AbsenceList

LEMMA AssignmentRoundTrip ==
    ASSUME NEW a \in Assignment
    PROVE  ReadAssignment(AssignmentJson(a)) = a
<1> DEFINE f == [taskId |-> String(a.taskId), workerId |-> String(a.workerId),
                 absentAssignee |-> Boolean(a.absentAssignee), done |-> Boolean(a.done),
                 doneAt |-> DoneAtJson(a.doneAt)]
           d == Field(Object(f), "doneAt")
<1>1. AssignmentJson(a) = Object(f)
  BY DEF AssignmentJson
<1>2. /\ Str(Object(f), "taskId") = a.taskId
      /\ Str(Object(f), "workerId") = a.workerId
      /\ Bool(Object(f), "absentAssignee", FALSE) = a.absentAssignee
      /\ Bool(Object(f), "done", FALSE) = a.done
  BY DEF Str, Bool, String, Boolean, Get, Field, Is, Object
<1>3. d = DoneAtJson(a.doneAt)
  BY DEF Field, Is, Object
<1>4. (IF Is("string", d) THEN {d[2]} ELSE {}) = a.doneAt
  <2>1. CASE a.doneAt = {}
    BY <1>3, <2>1 DEF DoneAtJson, Null, Is
  <2>2. CASE a.doneAt # {}
    <3>1. PICK s \in Text : a.doneAt = {s}
      BY <2>2 DEF Assignment
    <3>2. (CHOOSE x \in a.doneAt : TRUE) = s
      BY <3>1
    <3> QED
      BY <1>3, <2>2, <3>1, <3>2 DEF DoneAtJson, String, Is
  <2> QED
    BY <2>1, <2>2
<1> QED
  BY <1>1, <1>2, <1>4 DEF ReadAssignment, Assignment

LEMMA UnassignedRoundTrip ==
    ASSUME NEW u \in Unassigned
    PROVE  ReadUnassigned(UnassignedJson(u)) = u
<1> DEFINE f == [taskId |-> String(u.taskId), count |-> Integer(u.count)]
<1>1. UnassignedJson(u) = Object(f)
  BY DEF UnassignedJson
<1>2. Str(Object(f), "taskId") = u.taskId /\ Num(Object(f), "count", 0) = u.count
  BY DEF Str, Num, String, Integer, Get, Field, Is, Object
<1> QED
  BY <1>1, <1>2 DEF ReadUnassigned, Unassigned

LEMMA SetRoundTrip ==
    ASSUME NEW s \in Set
    PROVE  ReadSet(SetJson(s)) = s
<1> DEFINE as == [i \in DOMAIN s.assignments |-> AssignmentJson(s.assignments[i])]
           us == [i \in DOMAIN s.unassigned |-> UnassignedJson(s.unassigned[i])]
           f == [taskSetId |-> String(s.taskSetId), assignments |-> Array(as),
                 unassigned |-> Array(us)]
<1>1. SetJson(s) = Object(f)
  BY DEF SetJson, EachJson
<1>2. Str(Object(f), "taskSetId") = s.taskSetId
  BY DEF Str, String, Get, Field, Is, Object
<1>3. Elements(Object(f), "assignments") = as /\ Elements(Object(f), "unassigned") = us
  BY ArrayRead
<1>4. \A i \in DOMAIN s.assignments : ReadAssignment(as[i]) = s.assignments[i]
  BY AssignmentRoundTrip DEF Set
<1>5. \A i \in DOMAIN s.unassigned : ReadUnassigned(us[i]) = s.unassigned[i]
  BY UnassignedRoundTrip DEF Set
<1>6. Each(Object(f), "assignments", ReadAssignment) = s.assignments
  <2>1. s.assignments = [i \in DOMAIN s.assignments |-> s.assignments[i]]
    BY DEF Set
  <2> QED
    BY <1>3, <1>4, <2>1 DEF Each
<1>7. Each(Object(f), "unassigned", ReadUnassigned) = s.unassigned
  <2>1. s.unassigned = [i \in DOMAIN s.unassigned |-> s.unassigned[i]]
    BY DEF Set
  <2> QED
    BY <1>3, <1>5, <2>1 DEF Each
<1> QED
  BY <1>1, <1>2, <1>6, <1>7 DEF ReadSet, Set

LEMMA SlotRoundTrip ==
    ASSUME NEW s \in Slot
    PROVE  ReadSlot(SlotJson(s)) = s
<1> DEFINE items == [i \in DOMAIN s.taskSets |-> SetJson(s.taskSets[i])]
           f == [timeSlotId |-> String(s.timeSlotId), categoryId |-> String(s.categoryId),
                 taskSets |-> Array(items)]
<1>1. SlotJson(s) = Object(f)
  BY DEF SlotJson, EachJson
<1>2. Str(Object(f), "timeSlotId") = s.timeSlotId /\ Str(Object(f), "categoryId") = s.categoryId
  BY DEF Str, String, Get, Field, Is, Object
<1>3. Elements(Object(f), "taskSets") = items
  BY ArrayRead
<1>4. \A i \in DOMAIN s.taskSets : ReadSet(items[i]) = s.taskSets[i]
  BY SetRoundTrip DEF Slot
<1>5. Each(Object(f), "taskSets", ReadSet) = s.taskSets
  <2>1. s.taskSets = [i \in DOMAIN s.taskSets |-> s.taskSets[i]]
    BY DEF Slot
  <2> QED
    BY <1>3, <1>4, <2>1 DEF Each
<1> QED
  BY <1>1, <1>2, <1>5 DEF ReadSlot, Slot

\* A stored day is loaded as it was stored: who does what, what nobody does,
\* whether there was a note of its being done.
THEOREM SnapshotRoundTrip ==
    ASSUME NEW v \in DaySnapshot
    PROVE  LoadSnapshot(SnapshotJson(v)) = v
<1> DEFINE items == [i \in DOMAIN v.slots |-> SlotJson(v.slots[i])]
           f == [version |-> Integer(v.version), date |-> String(v.date),
                 weekday |-> String(Code[v.weekday + 1]),
                 generatedAt |-> String(v.generatedAt), slots |-> Array(items)]
           day == ParseWeekday(Str(Object(f), "weekday"))
<1>1. SnapshotJson(v) = Object(f)
  BY DEF SnapshotJson, EachJson
<1>2. /\ Version(Object(f)) = v.version
      /\ Str(Object(f), "date") = v.date
      /\ Str(Object(f), "generatedAt") = v.generatedAt
  BY DEF Version, Num, Integer, Str, String, Get, Field, Is, Object
<1>3. (IF day = {} THEN 0 ELSE CHOOSE d \in day : TRUE) = v.weekday
  <2>1. Str(Object(f), "weekday") = Code[v.weekday + 1]
    BY DEF Str, String, Get, Field, Is, Object
  <2>2. day = {v.weekday}
    BY <2>1, WeekdayRoundTrip DEF DaySnapshot
  <2> QED
    BY <2>2
<1>4. Elements(Object(f), "slots") = items
  BY ArrayRead
<1>5. \A i \in DOMAIN v.slots : ReadSlot(items[i]) = v.slots[i]
  BY SlotRoundTrip DEF DaySnapshot
<1>6. Each(Object(f), "slots", ReadSlot) = v.slots
  <2>1. v.slots = [i \in DOMAIN v.slots |-> v.slots[i]]
    BY DEF DaySnapshot
  <2> QED
    BY <1>4, <1>5, <2>1 DEF Each
<1> QED
  BY <1>1, <1>2, <1>3, <1>6 DEF LoadSnapshot, DaySnapshot


-----------------------------------------------------------------------------
(* The conflicts of a task as normalizeConflicts leaves them. *)

NamedBy(tasks, t) ==
    FlattenSeq([j \in DOMAIN tasks |->
        IF tasks[j].id # t.id /\ t.id \in ToSet(tasks[j].conflictsWith)
        THEN <<tasks[j].id>> ELSE <<>>])

IsNew(found, id, i) == found[i] # id /\ \A j \in 1 .. i - 1 : found[j] # found[i]

Merged(found, id) ==
    FlattenSeq([i \in DOMAIN found |-> IF IsNew(found, id, i) THEN <<found[i]>> ELSE <<>>])

Distinct(s) == \A a, b \in DOMAIN s : s[a] = s[b] => a = b

LEMMA NormalizedIs ==
    ASSUME NEW tasks, NEW t
    PROVE  Normalized(tasks, t) = [t EXCEPT !.conflictsWith =
                Merged(t.conflictsWith \o NamedBy(tasks, t), t.id)]
BY DEF Normalized, Pushed, NamedBy, Merged, IsNew

LEMMA NamedByIs ==
    ASSUME NEW tasks \in Seq(Task), NEW t \in Task
    PROVE  /\ NamedBy(tasks, t) \in Strs
           /\ \A x : x \in ToSet(NamedBy(tasks, t)) <=>
                \E j \in DOMAIN tasks :
                    tasks[j].id = x /\ x # t.id /\ t.id \in ToSet(tasks[j].conflictsWith)
<1>. DEFINE Names(j) == tasks[j].id # t.id /\ t.id \in ToSet(tasks[j].conflictsWith)
            pieces == [j \in DOMAIN tasks |-> IF Names(j) THEN <<tasks[j].id>> ELSE <<>>]
            named == FlattenSeq(pieces)
<1>. HIDE DEF Names
<1>1. PICK n \in Nat : n = Len(tasks) /\ DOMAIN tasks = 1 .. n
  OBVIOUS
<1>2. \A j \in 1 .. n : tasks[j].id \in Text
  <2>. TAKE j \in 1 .. n
  <2>1. tasks[j] \in Task
    BY <1>1
  <2>. QED BY <2>1 DEF Task
<1>3. ASSUME NEW j \in 1 .. n
      PROVE  /\ pieces[j] \in Seq(Text)
             /\ Names(j) => pieces[j] = <<tasks[j].id>>
             /\ ~Names(j) => pieces[j] = <<>>
  <2>1. PICK x \in Text : x = tasks[j].id
    BY <1>2
  <2>2. <<x>> \in Seq(Text) /\ <<>> \in Seq(Text)
    OBVIOUS
  <2>3. pieces[j] = IF Names(j) THEN <<x>> ELSE <<>>
    BY <1>1, <2>1
  <2>. HIDE DEF pieces
  <2>. QED BY <2>1, <2>2, <2>3
<1>4. pieces \in Seq(Seq(Text)) /\ Len(pieces) = n
  <2>1. DOMAIN pieces = 1 .. n /\ pieces = [i \in 1 .. n |-> pieces[i]]
    BY <1>1
  <2>. HIDE DEF pieces
  <2>. QED BY <1>3, <2>1
<1>. HIDE DEF pieces
<1>5. named \in Seq(Text)
  BY <1>4, FlattenType
<1>. PICK m \in Nat : m = Len(named) /\ DOMAIN named = 1 .. m
  BY <1>5
<1>6. ASSUME NEW x \in ToSet(named)
      PROVE  \E j \in 1 .. n : tasks[j].id = x /\ Names(j)
  <2>1. PICK a \in 1 .. m : named[a] = x
    BY DEF ToSet
  <2>2. \A j \in 1 .. n : pieces[j] = <<>> \/ \E y \in Text : pieces[j] = <<y>>
    BY <1>2, <1>3
  <2>3. PICK j \in 1 .. n : pieces[j] = <<x>>
    BY <1>4, <2>1, <2>2, FlattenSingles
  <2>4. Names(j)
    <3>1. <<x>> # <<>>
      OBVIOUS
    <3>. QED BY <1>3, <2>3, <3>1
  <2>5. <<tasks[j].id>> = <<x>>
    BY <1>3, <2>3, <2>4
  <2>. QED BY <2>4, <2>5
<1>7. ASSUME NEW j \in 1 .. n, Names(j) PROVE tasks[j].id \in ToSet(named)
  <2>1. pieces[j] = <<tasks[j].id>>
    BY <1>3, <1>7
  <2>2. 1 \in 1 .. Len(pieces[j]) /\ pieces[j][1] = tasks[j].id
    BY <2>1
  <2>4. \E a \in 1 .. Len(FlattenSeq(pieces)) : FlattenSeq(pieces)[a] = pieces[j][1]
    <3>1. ASSUME NEW y \in 1 .. Len(pieces), NEW k \in 1 .. Len(pieces[y])
          PROVE  \E a \in 1 .. Len(FlattenSeq(pieces)) : FlattenSeq(pieces)[a] = pieces[y][k]
      BY <1>4, FlattenCovers
    <3>. QED BY <1>4, <2>2, <3>1
  <2>3. PICK a \in 1 .. m : named[a] = pieces[j][1]
    BY <2>4
  <2>. QED BY <2>2, <2>3 DEF ToSet
<1>8. NamedBy(tasks, t) = named
  BY DEF NamedBy, pieces, Names
<1>. HIDE DEF named
<1>. QED BY <1>1, <1>5, <1>6, <1>7, <1>8 DEF Names, Strs

LEMMA MergedIs ==
    ASSUME NEW found \in Seq(Text), NEW id
    PROVE  /\ Merged(found, id) \in Seq(Text)
           /\ Distinct(Merged(found, id))
           /\ ToSet(Merged(found, id)) = ToSet(found) \ {id}
<1>. DEFINE pieces == [i \in DOMAIN found |->
                        IF IsNew(found, id, i) THEN <<found[i]>> ELSE <<>>]
            merged == FlattenSeq(pieces)
<1>1. PICK n \in Nat : n = Len(found) /\ DOMAIN found = 1 .. n
  OBVIOUS
<1>2. \A i \in 1 .. n : found[i] \in Text
  BY <1>1
<1>3. ASSUME NEW i \in 1 .. n
      PROVE  /\ pieces[i] \in Seq(Text)
             /\ IsNew(found, id, i) => pieces[i] = <<found[i]>>
             /\ ~IsNew(found, id, i) => pieces[i] = <<>>
  <2>1. PICK x \in Text : x = found[i]
    BY <1>2
  <2>2. <<x>> \in Seq(Text) /\ <<>> \in Seq(Text)
    OBVIOUS
  <2>3. pieces[i] = IF IsNew(found, id, i) THEN <<x>> ELSE <<>>
    BY <1>1, <2>1
  <2>. HIDE DEF pieces
  <2>. QED BY <2>1, <2>2, <2>3
<1>4. pieces \in Seq(Seq(Text)) /\ Len(pieces) = n
  <2>1. DOMAIN pieces = 1 .. n /\ pieces = [i \in 1 .. n |-> pieces[i]]
    BY <1>1
  <2>. HIDE DEF pieces
  <2>. QED BY <1>3, <2>1
<1>. HIDE DEF pieces
<1>5. merged \in Seq(Text)
  BY <1>4, FlattenType
<1>. PICK m \in Nat : m = Len(merged) /\ DOMAIN merged = 1 .. m
  BY <1>5
<1>6. \A i \in 1 .. n : pieces[i] = <<>> \/ \E y \in Text : pieces[i] = <<y>>
  BY <1>2, <1>3
<1>7. ASSUME NEW a \in 1 .. m
      PROVE  \E i \in 1 .. n : merged[a] = found[i] /\ found[i] # id
  <2>1. PICK i \in 1 .. n : pieces[i] = <<merged[a]>>
    BY <1>4, <1>6, FlattenSingles
  <2>2. IsNew(found, id, i)
    <3>1. <<merged[a]>> # <<>>
      OBVIOUS
    <3>. HIDE DEF merged
    <3>. QED BY <1>3, <2>1, <3>1, Zenon
  <2>3. <<found[i]>> = <<merged[a]>>
    BY <1>3, <2>1, <2>2
  <2>. QED BY <2>2, <2>3 DEF IsNew
<1>8. ASSUME NEW x \in ToSet(found), x # id PROVE \E a \in 1 .. m : merged[a] = x
  <2>. DEFINE S == {i \in 1 .. n : found[i] = x}
  <2>1. S \subseteq Nat /\ S # {}
    BY <1>1 DEF ToSet
  <2>2. PICK i \in S : \A j \in S : i <= j
    BY <2>1, LeastExists
  <2>3. i \in 1 .. n /\ found[i] = x
    OBVIOUS
  <2>4. IsNew(found, id, i)
    <3>1. ASSUME NEW j \in 1 .. i - 1 PROVE found[j] # found[i]
      <4>1. j \in 1 .. n /\ ~(i <= j)
        BY <2>3
      <4>. QED BY <2>2, <2>3, <4>1
    <3>. QED BY <1>8, <2>3, <3>1 DEF IsNew
  <2>5. pieces[i] = <<x>>
    BY <1>3, <2>3, <2>4
  <2>6. 1 \in 1 .. Len(pieces[i]) /\ pieces[i][1] = x
    BY <2>5
  <2>7. i \in 1 .. Len(pieces)
    BY <1>4, <2>3
  <2>8. \E a \in 1 .. Len(FlattenSeq(pieces)) : FlattenSeq(pieces)[a] = pieces[i][1]
    <3>1. ASSUME NEW y \in 1 .. Len(pieces), NEW k \in 1 .. Len(pieces[y])
          PROVE  \E a \in 1 .. Len(FlattenSeq(pieces)) : FlattenSeq(pieces)[a] = pieces[y][k]
      BY <1>4, FlattenCovers
    <3>. QED BY <1>4, <2>6, <2>7, <3>1
  <2>. QED BY <2>6, <2>8
<1>9. Distinct(merged)
  <2>1. ASSUME NEW i \in 1 .. n, NEW j \in 1 .. n, pieces[i] = pieces[j], pieces[i] # <<>>
        PROVE  i = j
    <3>1. IsNew(found, id, i) /\ IsNew(found, id, j)
      BY <1>3, <2>1
    <3>2. <<found[i]>> = <<found[j]>>
      BY <1>3, <2>1, <3>1
    <3>3. found[i] = found[j]
      BY <3>2
    <3>4. ~(i \in 1 .. j - 1) /\ ~(j \in 1 .. i - 1)
      BY <3>1, <3>3 DEF IsNew
    <3>. QED BY <3>4
  <2>2. \A a, b \in 1 .. m : merged[a] = merged[b] => a = b
    BY <1>4, <1>6, <2>1, FlattenSingles
  <2>. QED BY <2>2 DEF Distinct
<1>10. Merged(found, id) = merged
  BY DEF Merged, pieces
<1>11. ToSet(merged) = ToSet(found) \ {id}
  <2>. HIDE DEF merged
  <2>1. \A x \in ToSet(merged) : x \in ToSet(found) /\ x # id
    BY <1>1, <1>7 DEF ToSet
  <2>2. \A x \in ToSet(found) : x # id => x \in ToSet(merged)
    BY <1>8 DEF ToSet
  <2>. QED BY <2>1, <2>2
<1>. QED BY <1>5, <1>9, <1>10, <1>11

\* Nothing changes where all that is found is there already.
LEMMA MergedKeeps ==
    ASSUME NEW own \in Seq(Text), NEW more \in Seq(Text), NEW id,
           Distinct(own), id \notin ToSet(own), ToSet(more) \subseteq ToSet(own)
    PROVE  Merged(own \o more, id) = own
<1>. DEFINE found == own \o more
            pieces == [i \in DOMAIN found |->
                        IF IsNew(found, id, i) THEN <<found[i]>> ELSE <<>>]
<1>1. PICK n \in Nat, m \in Nat : /\ n = Len(own) /\ DOMAIN own = 1 .. n
                                  /\ m = Len(more) /\ DOMAIN more = 1 .. m
  OBVIOUS
<1>2. /\ found \in Seq(Text) /\ DOMAIN found = 1 .. n + m
      /\ \A i \in 1 .. n + m : found[i] = IF i <= n THEN own[i] ELSE more[i - n]
  BY <1>1, ConcatAt
<1>. HIDE DEF found
<1>3. ASSUME NEW i \in 1 .. n PROVE pieces[i] = <<own[i]>> /\ own[i] \in Text
  <2>1. i \in 1 .. n + m /\ i <= n
    OBVIOUS
  <2>2. found[i] = own[i] /\ own[i] # id
    BY <1>1, <1>2, <2>1 DEF ToSet
  <2>3. ASSUME NEW j \in 1 .. i - 1 PROVE found[j] # found[i]
    <3>1. j \in 1 .. n /\ j \in 1 .. n + m /\ j <= n /\ j # i
      OBVIOUS
    <3>2. found[j] = own[j] /\ own[j] # own[i]
      BY <1>1, <1>2, <3>1 DEF Distinct
    <3>. QED BY <2>2, <3>2
  <2>4. IsNew(found, id, i)
    BY <2>2, <2>3 DEF IsNew
  <2>. QED BY <1>1, <1>2, <2>1, <2>2, <2>4
<1>4. ASSUME NEW i \in 1 .. n + m, i > n PROVE pieces[i] = <<>>
  <2>1. i - n \in 1 .. m /\ ~(i <= n)
    BY <1>4
  <2>2. found[i] = more[i - n]
    BY <1>2, <2>1
  <2>3. more[i - n] \in ToSet(own)
    BY <1>1, <2>1 DEF ToSet
  <2>4. PICK j \in 1 .. n : own[j] = found[i]
    BY <1>1, <2>2, <2>3 DEF ToSet
  <2>5. j \in 1 .. n + m /\ j <= n /\ j \in 1 .. i - 1
    BY <2>1
  <2>6. found[j] = found[i]
    BY <1>2, <2>4, <2>5
  <2>7. ~IsNew(found, id, i)
    BY <2>5, <2>6 DEF IsNew
  <2>. QED BY <1>2, <2>7
<1>5. pieces \in Seq(Seq(Text)) /\ Len(pieces) = n + m
  <2>1. DOMAIN pieces = 1 .. n + m /\ pieces = [i \in 1 .. n + m |-> pieces[i]]
    BY <1>2
  <2>. HIDE DEF pieces
  <2>2. ASSUME NEW i \in 1 .. n + m PROVE pieces[i] \in Seq(Text)
    <3>1. CASE i <= n
      <4>1. i \in 1 .. n
        BY <3>1
      <4>2. pieces[i] = <<own[i]>> /\ own[i] \in Text
        BY <1>3, <4>1
      <4>. QED BY <4>2
    <3>2. CASE i > n
      <4>1. pieces[i] = <<>>
        BY <1>4, <3>2
      <4>. QED BY <4>1
    <3>. QED BY <3>1, <3>2
  <2>3. PICK k \in Nat : k = n + m
    OBVIOUS
  <2>4. pieces = [i \in 1 .. k |-> pieces[i]] /\ \A i \in 1 .. k : pieces[i] \in Seq(Text)
    BY <2>1, <2>2, <2>3
  <2>5. pieces \in Seq(Seq(Text)) /\ Len(pieces) = k
    <3>1. pieces \in [1 .. k -> Seq(Text)]
      BY <2>4, Zenon
    <3>. QED BY <3>1
  <2>. QED BY <2>3, <2>5
<1>6. Merged(own \o more, id) = FlattenSeq(pieces)
  BY DEF Merged, found
<1>. HIDE DEF pieces
<1>. QED BY <1>1, <1>3, <1>4, <1>5, <1>6, FlattenKeeps

LEMMA ConcatSet ==
    ASSUME NEW p \in Seq(Text), NEW q \in Seq(Text)
    PROVE  ToSet(p \o q) = ToSet(p) \cup ToSet(q)
<1>. PICK n \in Nat, m \in Nat : /\ n = Len(p) /\ DOMAIN p = 1 .. n
                                 /\ m = Len(q) /\ DOMAIN q = 1 .. m
  OBVIOUS
<1>. DEFINE r == p \o q
<1>1. /\ DOMAIN r = 1 .. n + m
      /\ \A i \in 1 .. n + m : r[i] = IF i <= n THEN p[i] ELSE q[i - n]
  BY ConcatAt
<1>. HIDE DEF r
<1>2. ToSet(r) \subseteq ToSet(p) \cup ToSet(q)
  <2>1. ASSUME NEW i \in 1 .. n + m PROVE r[i] \in ToSet(p) \cup ToSet(q)
    <3>1. CASE i <= n
      <4>1. i \in 1 .. n /\ r[i] = p[i]
        BY <1>1, <3>1
      <4>. QED BY <4>1 DEF ToSet
    <3>2. CASE ~(i <= n)
      <4>1. i - n \in 1 .. m /\ r[i] = q[i - n]
        BY <1>1, <3>2
      <4>. QED BY <4>1 DEF ToSet
    <3>. QED BY <3>1, <3>2
  <2>. QED BY <1>1, <2>1 DEF ToSet
<1>3. ToSet(p) \subseteq ToSet(r)
  <2>1. ASSUME NEW i \in 1 .. n PROVE p[i] \in ToSet(r)
    <3>1. i \in 1 .. n + m /\ i <= n
      OBVIOUS
    <3>2. r[i] = p[i]
      BY <1>1, <3>1
    <3>. QED BY <1>1, <3>1, <3>2 DEF ToSet
  <2>. QED BY <2>1 DEF ToSet
<1>4. ToSet(q) \subseteq ToSet(r)
  <2>1. ASSUME NEW i \in 1 .. m PROVE q[i] \in ToSet(r)
    <3>1. n + i \in 1 .. n + m /\ ~(n + i <= n) /\ (n + i) - n = i
      OBVIOUS
    <3>2. r[n + i] = q[i]
      BY <1>1, <3>1
    <3>. QED BY <1>1, <3>1, <3>2 DEF ToSet
  <2>. QED BY <2>1 DEF ToSet
<1>. QED BY <1>2, <1>3, <1>4 DEF r

\* What a task excludes when conflicts of either side count for both.
Excluded(tasks, t, x) ==
    /\ x # t.id
    /\ \/ x \in ToSet(t.conflictsWith)
       \/ \E j \in DOMAIN tasks : tasks[j].id = x /\ t.id \in ToSet(tasks[j].conflictsWith)

LEMMA NormalizedWhat ==
    ASSUME NEW tasks \in Seq(Task), NEW t \in Task, NEW r, r = Normalized(tasks, t)
    PROVE  /\ r \in Task
           /\ r.id = t.id
           /\ Distinct(r.conflictsWith)
           /\ \A x : x \in ToSet(r.conflictsWith) <=> Excluded(tasks, t, x)
<1>. DEFINE found == t.conflictsWith \o NamedBy(tasks, t)
            merged == Merged(found, t.id)
<1>0. t.conflictsWith \in Seq(Text) /\ NamedBy(tasks, t) \in Seq(Text)
  BY NamedByIs DEF Task, Strs
<1>1. /\ t.conflictsWith \in Seq(Text)
      /\ NamedBy(tasks, t) \in Seq(Text)
      /\ found \in Seq(Text)
  BY <1>0, ConcatAt
<1>2. ToSet(found) = ToSet(t.conflictsWith) \cup ToSet(NamedBy(tasks, t))
  BY <1>1, ConcatSet
<1>3. r = [t EXCEPT !.conflictsWith = merged]
  BY NormalizedIs
<1>. HIDE DEF found
<1>4. /\ merged \in Seq(Text)
      /\ Distinct(merged)
      /\ ToSet(merged) = ToSet(found) \ {t.id}
  BY <1>1, MergedIs
<1>. HIDE DEF merged
<1>5. r \in Task /\ r.id = t.id /\ r.conflictsWith = merged
  BY <1>3, <1>4 DEF Task, Strs
<1>6. \A x : x \in ToSet(merged) <=> Excluded(tasks, t, x)
  BY <1>2, <1>4, NamedByIs DEF Excluded
<1>. QED BY <1>4, <1>5, <1>6

LEMMA NormalizeWhat ==
    ASSUME NEW tasks \in Seq(Task), NEW r, r = NormalizeConflicts(tasks)
    PROVE  /\ r \in Seq(Task)
           /\ DOMAIN r = DOMAIN tasks
           /\ \A i \in DOMAIN tasks :
                /\ tasks[i] \in Task
                /\ r[i].id = tasks[i].id
                /\ Distinct(r[i].conflictsWith)
                /\ \A x : x \in ToSet(r[i].conflictsWith) <=> Excluded(tasks, tasks[i], x)
<1>1. \A i \in DOMAIN tasks : tasks[i] \in Task
  OBVIOUS
<1>2. r = [i \in DOMAIN tasks |-> Normalized(tasks, tasks[i])]
  BY DEF NormalizeConflicts
<1>3. ASSUME NEW i \in DOMAIN tasks
      PROVE  /\ r[i] \in Task
             /\ r[i].id = tasks[i].id
             /\ Distinct(r[i].conflictsWith)
             /\ \A x : x \in ToSet(r[i].conflictsWith) <=> Excluded(tasks, tasks[i], x)
  <2>1. tasks[i] \in Task /\ r[i] = Normalized(tasks, tasks[i])
    BY <1>1, <1>2
  <2>. QED BY <2>1, NormalizedWhat
<1>4. r \in Seq(Task)
  BY <1>2, <1>3
<1>. QED BY <1>1, <1>2, <1>3, <1>4

\* A list that normalizeConflicts leaves as it is.
Settled(tasks) ==
    \A i \in DOMAIN tasks :
        /\ Distinct(tasks[i].conflictsWith)
        /\ \A x : Excluded(tasks, tasks[i], x) => x \in ToSet(tasks[i].conflictsWith)
        /\ tasks[i].id \notin ToSet(tasks[i].conflictsWith)

LEMMA SettledKept ==
    ASSUME NEW tasks \in Seq(Task), Settled(tasks)
    PROVE  NormalizeConflicts(tasks) = tasks
<1>1. ASSUME NEW i \in DOMAIN tasks PROVE Normalized(tasks, tasks[i]) = tasks[i]
  <2>. PICK t \in Task : t = tasks[i]
    OBVIOUS
  <2>1. t.conflictsWith \in Seq(Text) /\ NamedBy(tasks, t) \in Seq(Text)
    BY NamedByIs DEF Task, Strs
  <2>2. /\ Distinct(t.conflictsWith) /\ t.id \notin ToSet(t.conflictsWith)
        /\ \A x : Excluded(tasks, t, x) => x \in ToSet(t.conflictsWith)
    BY DEF Settled
  <2>3. ToSet(NamedBy(tasks, t)) \subseteq ToSet(t.conflictsWith)
    BY <2>2, NamedByIs DEF Excluded
  <2>4. Merged(t.conflictsWith \o NamedBy(tasks, t), t.id) = t.conflictsWith
    BY <2>1, <2>2, <2>3, MergedKeeps
  <2>5. [t EXCEPT !.conflictsWith = t.conflictsWith] = t
    BY DEF Task
  <2>. QED BY <2>4, <2>5, NormalizedIs
<1>2. tasks = [i \in DOMAIN tasks |-> tasks[i]]
  OBVIOUS
<1>. QED BY <1>1, <1>2 DEF NormalizeConflicts

\* One pass is enough where tasks of one id agree.
LEMMA Settles ==
    ASSUME NEW tasks \in Seq(Task), NEW r, r = NormalizeConflicts(tasks), OneListPerId(r)
    PROVE  Settled(r)
<1>. SUFFICES ASSUME NEW i \in DOMAIN r
              PROVE  /\ Distinct(r[i].conflictsWith)
                     /\ \A x : Excluded(r, r[i], x) => x \in ToSet(r[i].conflictsWith)
                     /\ r[i].id \notin ToSet(r[i].conflictsWith)
  BY DEF Settled
<1>1. /\ i \in DOMAIN tasks /\ DOMAIN r = DOMAIN tasks
      /\ Distinct(r[i].conflictsWith)
      /\ r[i].id = tasks[i].id
      /\ \A x : x \in ToSet(r[i].conflictsWith) <=> Excluded(tasks, tasks[i], x)
  BY NormalizeWhat
<1>2. r[i].id \notin ToSet(r[i].conflictsWith)
  BY <1>1 DEF Excluded
<1>3. ASSUME NEW x, Excluded(r, r[i], x) PROVE x \in ToSet(r[i].conflictsWith)
  <2>1. CASE x \in ToSet(r[i].conflictsWith)
    BY <2>1
  <2>2. CASE x \notin ToSet(r[i].conflictsWith)
    <3>1. PICK j \in DOMAIN r : r[j].id = x /\ r[i].id \in ToSet(r[j].conflictsWith)
      BY <1>3, <2>2 DEF Excluded
    <3>2. /\ j \in DOMAIN tasks /\ tasks[j].id = x
          /\ Excluded(tasks, tasks[j], r[i].id)
      BY <3>1, NormalizeWhat
    <3>3. x # tasks[i].id
      BY <1>1, <1>3 DEF Excluded
    <3>4. CASE tasks[i].id \in ToSet(tasks[j].conflictsWith)
      <4>1. Excluded(tasks, tasks[i], x)
        BY <3>2, <3>3, <3>4 DEF Excluded
      <4>. QED BY <1>1, <4>1
    <3>5. CASE tasks[i].id \notin ToSet(tasks[j].conflictsWith)
      <4>1. PICK u \in DOMAIN tasks : /\ tasks[u].id = tasks[i].id
                                      /\ x \in ToSet(tasks[u].conflictsWith)
        BY <1>1, <3>2, <3>5 DEF Excluded
      <4>2. Excluded(tasks, tasks[u], x)
        BY <3>3, <4>1 DEF Excluded
      <4>3. x \in ToSet(r[u].conflictsWith) /\ r[u].id = r[i].id /\ u \in DOMAIN r
        BY <1>1, <4>1, <4>2, NormalizeWhat
      <4>. QED BY <4>3 DEF OneListPerId
    <3>. QED BY <3>4, <3>5
  <2>. QED BY <2>1, <2>2
<1>. QED BY <1>1, <1>2, <1>3

\* A task of a new id leaves those of one id in agreement.
LEMMA StaysPlain ==
    ASSUME NEW tasks \in Seq(Task), OneListPerId(tasks), NEW t \in Task,
           Unused(tasks, t.id), NEW r, r = NormalizeConflicts(Append(tasks, t))
    PROVE  OneListPerId(r)
<1>. PICK n \in Nat : n = Len(tasks) /\ DOMAIN tasks = 1 .. n
  OBVIOUS
<1>. DEFINE more == Append(tasks, t)
<1>1. /\ DOMAIN more = 1 .. n + 1 /\ more[n + 1] = t
      /\ \A i \in 1 .. n : more[i] = tasks[i]
      /\ more \in Seq(Task)
  OBVIOUS
<1>. HIDE DEF more
<1>2. /\ DOMAIN r = 1 .. n + 1
      /\ \A i \in 1 .. n + 1 :
            /\ r[i].id = more[i].id
            /\ \A x : x \in ToSet(r[i].conflictsWith) <=> Excluded(more, more[i], x)
  <2>1. r = NormalizeConflicts(more)
    BY DEF more
  <2>2. /\ DOMAIN r = DOMAIN more
        /\ \A i \in DOMAIN more :
            /\ r[i].id = more[i].id
            /\ \A x : x \in ToSet(r[i].conflictsWith) <=> Excluded(more, more[i], x)
    BY <1>1, <2>1, NormalizeWhat
  <2>. QED BY <1>1, <2>2
<1>. SUFFICES ASSUME NEW i \in 1 .. n + 1, NEW j \in 1 .. n + 1, r[i].id = r[j].id
              PROVE  ToSet(r[i].conflictsWith) = ToSet(r[j].conflictsWith)
  BY <1>2 DEF OneListPerId
<1>3. more[i].id = more[j].id
  BY <1>2
<1>4. ToSet(more[i].conflictsWith) = ToSet(more[j].conflictsWith)
  <2>1. CASE i \in 1 .. n /\ j \in 1 .. n
    BY <1>1, <1>3, <2>1 DEF OneListPerId
  <2>2. CASE i = n + 1 /\ j = n + 1
    BY <2>2
  <2>3. CASE i = n + 1 /\ j \in 1 .. n
    BY <1>1, <1>3, <2>3 DEF Unused
  <2>4. CASE j = n + 1 /\ i \in 1 .. n
    BY <1>1, <1>3, <2>4 DEF Unused
  <2>. QED BY <2>1, <2>2, <2>3, <2>4
<1>5. \A x : Excluded(more, more[i], x) <=> Excluded(more, more[j], x)
  BY <1>3, <1>4 DEF Excluded
<1>. QED BY <1>2, <1>5

-----------------------------------------------------------------------------
(* A data file through its life. *)

\* What the theorems assume of the constants: people leave some JSON or broken
\* text in the files, and files may hold that and whatever the program writes.
FileTexts(J) ==
    /\ Json(J)
    /\ Kind \subseteq Kinds
    /\ \A k \in Kind :
        /\ First(k) \subseteq J \cup {NoFile} /\ First(k) \subseteq Content \cup {NoFile}
        /\ Edits(k) \subseteq J \cup {Broken} /\ Edits(k) \subseteq Content
        /\ \A v \in Values(k) : ToJson(k, v) \in Content
    /\ Fresh("config") \in Category
    /\ Fresh("workers") \in Worker
    /\ Fresh("tasks") \in Task
    /\ Fresh("absences") \in Absence
    /\ Fresh("snapshot") \in DaySnapshot

\* Loading such tasks once more changes nothing.
Steady(k, v) == k = "tasks" => Settled(v.tasks)

\* What a file is written as is loaded as it was meant.
LEMMA RoundTrip ==
    ASSUME NEW k \in Kinds, NEW v \in Values(k), Steady(k, v)
    PROVE  Load(k, ToJson(k, v)) = v
<1>1. CASE k = "config"
  BY <1>1, ConfigRoundTrip DEF Values, Load, ToJson
<1>2. CASE k = "workers"
  BY <1>2, WorkersRoundTrip DEF Values, Load, ToJson
<1>3. CASE k = "tasks"
  <2>1. v \in TaskList /\ v.tasks \in Seq(Task) /\ Settled(v.tasks)
    BY <1>3 DEF Values, TaskList, Steady
  <2>2. [v EXCEPT !.tasks = NormalizeConflicts(@)] = v
    BY <2>1, SettledKept DEF TaskList
  <2>3. LoadTasks(TasksJson(v)) = v
    BY <2>1, <2>2, TasksRoundTrip
  <2>. QED BY <1>3, <2>3 DEF Load, ToJson
<1>4. CASE k = "absences"
  BY <1>4, AbsencesRoundTrip DEF Values, Load, ToJson
<1>5. CASE k = "cursors"
  BY <1>5, CursorsRoundTrip DEF Values, Load, ToJson
<1>6. CASE k = "snapshot"
  BY <1>6, SnapshotRoundTrip DEF Values, Load, ToJson
<1>. QED BY <1>1, <1>2, <1>3, <1>4, <1>5, <1>6 DEF Kinds

\* What was loaded, and excludes the same for one id, is loaded the same again.
LEMMA LoadTyped ==
    ASSUME NEW J, Json(J), NEW k \in Kinds, NEW text,
           text \in J \/ \E v \in Values(k) : text = ToJson(k, v)
    PROVE  Load(k, text) \in Values(k) /\ (Plain(k, Load(k, text)) => Steady(k, Load(k, text)))
<1>1. CASE k = "tasks"
  <2>1. PICK raw \in TaskList :
            Load(k, text) = [raw EXCEPT !.tasks = NormalizeConflicts(@)]
    <3>1. CASE text \in J
      <4>. DEFINE sets == Each(text, "taskSets", ReadTaskSet)
                  tasks == Each(text, "tasks", ReadTask)
                  raw == [version |-> Version(text), taskSets |-> sets, tasks |-> tasks]
      <4>1. PICK s \in Seq(J), t \in Seq(J) :
                s = Elements(text, "taskSets") /\ t = Elements(text, "tasks")
        BY <3>1, ElementsTyped
      <4>2. \A i \in DOMAIN s : ReadTaskSet(s[i]) \in TaskSet
        BY ReadTaskSetTyped
      <4>3. \A i \in DOMAIN t : ReadTask(t[i]) \in Task
        BY ReadTaskTyped
      <4>4. sets \in Seq(TaskSet)
        BY <4>1, <4>2 DEF Each
      <4>5. tasks \in Seq(Task)
        BY <4>1, <4>3 DEF Each
      <4>6. Version(text) \in Int
        BY <3>1, GetTyped
      <4>. HIDE DEF sets, tasks
      <4>7. raw \in TaskList
        BY <4>4, <4>5, <4>6 DEF TaskList
      <4>8. LoadTasks(text) = [raw EXCEPT !.tasks = NormalizeConflicts(@)]
        BY DEF LoadTasks, sets, tasks
      <4>. HIDE DEF raw
      <4>. QED BY <1>1, <4>7, <4>8 DEF Load
    <3>2. CASE \E v \in Values(k) : text = ToJson(k, v)
      <4>1. PICK v \in TaskList : text = TasksJson(v)
        BY <1>1, <3>2 DEF Values, ToJson
      <4>. QED BY <1>1, <4>1, TasksRoundTrip DEF Load
    <3>. QED BY <3>1, <3>2
  <2>. DEFINE r == NormalizeConflicts(raw.tasks)
  <2>2. raw.tasks \in Seq(Task)
    BY DEF TaskList
  <2>3. r \in Seq(Task) /\ (OneListPerId(r) => Settled(r))
    BY <2>2, NormalizeWhat, Settles
  <2>. HIDE DEF r
  <2>4. Load(k, text) \in TaskList /\ Load(k, text).tasks = r
    BY <2>1, <2>3 DEF TaskList, r
  <2>. QED BY <1>1, <2>3, <2>4 DEF Values, Plain, Steady
<1>2. CASE k # "tasks"
  <2>1. CASE text \in J
    <3>1. Load(k, text) \in Values(k)
      BY <1>2, <2>1, LoadConfigTyped, LoadWorkersTyped, LoadAbsencesTyped, LoadCursorsTyped,
         LoadSnapshotTyped DEF Values, Load, Kinds
    <3>. QED BY <1>2, <3>1 DEF Steady
  <2>2. CASE \E v \in Values(k) : text = ToJson(k, v)
    BY <1>2, <2>2, RoundTrip DEF Steady
  <2>. QED BY <2>1, <2>2
<1>. QED BY <1>1, <1>2

\* What commands make of it is of its type as well, and stays so.
LEMMA ChangedTyped ==
    ASSUME NEW J, FileTexts(J), NEW k \in Kinds, NEW v, NEW m \in Changed(k, v),
           k # "snapshot" => v \in Values(k)
    PROVE  /\ m \in Values(k)
           /\ Plain(k, v) /\ Steady(k, v) => Steady(k, m)
<1>1. CASE k = "config"
  <2>. PICK c \in Config : c = v
    BY <1>1 DEF Values
  <2>1. \/ m = [c EXCEPT !.categories = Append(@, Fresh(k))]
        \/ 1 \in DOMAIN c.timeSlots /\ m = [c EXCEPT !.timeSlots = Tail(@)]
    BY <1>1 DEF Changed
  <2>2. c.categories \in Seq(Category) /\ c.timeSlots \in Seq(TimeSlot)
    BY DEF Config
  <2>3. Append(c.categories, Fresh(k)) \in Seq(Category)
    BY <1>1, <2>2 DEF FileTexts
  <2>4. 1 \in DOMAIN c.timeSlots => Tail(c.timeSlots) \in Seq(TimeSlot)
    BY <2>2
  <2>5. m \in Config
    BY <2>1, <2>3, <2>4 DEF Config
  <2>. QED BY <1>1, <2>5 DEF Values, Steady
<1>2. CASE k = "workers"
  <2>. PICK c \in WorkerList : c = v
    BY <1>2 DEF Values
  <2>1. \/ m = [c EXCEPT !.workers = Append(@, Fresh(k))]
        \/ 1 \in DOMAIN c.workers /\ m = [c EXCEPT !.workers[1].weeklyOff = <<1>>]
    BY <1>2 DEF Changed
  <2>2. c.workers \in Seq(Worker)
    BY DEF WorkerList
  <2>3. Append(c.workers, Fresh(k)) \in Seq(Worker)
    BY <1>2, <2>2 DEF FileTexts
  <2>4. ASSUME 1 \in DOMAIN c.workers
        PROVE  [c.workers EXCEPT ![1].weeklyOff = <<1>>] \in Seq(Worker)
    <3>1. <<1>> \in Days
      BY DEF Days, Weekday
    <3>. PICK w \in Worker : w = c.workers[1]
      BY <2>2, <2>4
    <3>2. [w EXCEPT !.weeklyOff = <<1>>] \in Worker
      BY <3>1 DEF Worker
    <3>. QED BY <2>2, <2>4, <3>2
  <2>5. m \in WorkerList
    BY <2>1, <2>3, <2>4 DEF WorkerList
  <2>. QED BY <1>2, <2>5 DEF Values, Steady
<1>3. CASE k = "tasks"
  <2>. PICK c \in TaskList : c = v
    BY <1>3 DEF Values
  <2>. DEFINE more == Append(c.tasks, Fresh(k))
              r == NormalizeConflicts(more)
              set == [id |-> "C", displayName |-> "C"]
  <2>1. \/ Unused(c.tasks, Fresh(k).id) /\ m = [c EXCEPT !.tasks = r]
        \/ m = [c EXCEPT !.taskSets = Append(@, set)]
    BY <1>3 DEF Changed
  <2>2. c.tasks \in Seq(Task) /\ c.taskSets \in Seq(TaskSet) /\ Fresh(k) \in Task
    BY <1>3 DEF TaskList, FileTexts
  <2>3. more \in Seq(Task)
    BY <2>2
  <2>4. /\ r \in Seq(Task)
        /\ OneListPerId(r) => Settled(r)
        /\ Unused(c.tasks, Fresh(k).id) /\ OneListPerId(c.tasks) => OneListPerId(r)
    <3>. HIDE DEF more
    <3>1. r \in Seq(Task) /\ (OneListPerId(r) => Settled(r))
      BY <2>3, NormalizeWhat, Settles
    <3>. USE DEF more
    <3>. QED BY <2>2, <3>1, StaysPlain
  <2>5. Append(c.taskSets, set) \in Seq(TaskSet)
    <3>1. set \in TaskSet
      BY DEF TaskSet, Text
    <3>. QED BY <2>2, <3>1
  <2>. HIDE DEF r, set
  <2>6. CASE Unused(c.tasks, Fresh(k).id) /\ m = [c EXCEPT !.tasks = r]
    <3>1. m \in TaskList /\ m.tasks = r
      BY <2>4, <2>6 DEF TaskList
    <3>. QED BY <1>3, <2>4, <2>6, <3>1 DEF Values, Plain, Steady
  <2>7. CASE m = [c EXCEPT !.taskSets = Append(@, set)]
    <3>1. m \in TaskList /\ m.tasks = c.tasks
      BY <2>5, <2>7 DEF TaskList
    <3>. QED BY <1>3, <3>1 DEF Values, Steady
  <2>. QED BY <2>1, <2>6, <2>7
<1>4. CASE k = "absences"
  <2>. PICK c \in AbsenceList : c = v
    BY <1>4 DEF Values
  <2>1. \/ m = [c EXCEPT !.absences = Append(@, Fresh(k))]
        \/ 1 \in DOMAIN c.absences /\ m = [c EXCEPT !.absences = Tail(@)]
    BY <1>4 DEF Changed
  <2>2. c.absences \in Seq(Absence)
    BY DEF AbsenceList
  <2>3. Append(c.absences, Fresh(k)) \in Seq(Absence)
    BY <1>4, <2>2 DEF FileTexts
  <2>4. 1 \in DOMAIN c.absences => Tail(c.absences) \in Seq(Absence)
    BY <2>2
  <2>5. m \in AbsenceList
    BY <2>1, <2>3, <2>4 DEF AbsenceList
  <2>. QED BY <1>4, <2>5 DEF Values, Steady
<1>5. CASE k = "cursors"
  <2>. PICK c \in CursorState : c = v
    BY <1>5 DEF Values
  <2>1. PICK D \in SUBSET Text : IsFiniteSet(D) /\ c.cursors \in [D -> Int]
    BY DEF CursorState
  <2>. DEFINE E == D \cup {"A"}
              g == [s \in E |-> IF s = "A" THEN 1 ELSE c.cursors[s]]
  <2>2. m = [c EXCEPT !.cursors = g]
    BY <1>5, <2>1 DEF Changed
  <2>3. E \in SUBSET Text /\ IsFiniteSet(E)
    BY <2>1, FS_AddElement DEF Text
  <2>4. g \in [E -> Int]
    BY <2>1
  <2>. HIDE DEF E, g
  <2>5. g \in UNION {[D2 -> Int] : D2 \in {D2 \in SUBSET Text : IsFiniteSet(D2)}}
    BY <2>3, <2>4
  <2>6. m \in CursorState
    BY <2>2, <2>5 DEF CursorState
  <2>. QED BY <1>5, <2>6 DEF Values, Steady
<1>6. CASE k = "snapshot"
  BY <1>6 DEF Changed, Values, FileTexts, Steady
<1>. QED BY <1>1, <1>2, <1>3, <1>4, <1>5, <1>6 DEF Kinds

-----------------------------------------------------------------------------
(* The inductive invariant of a data file. *)

\* The command in hand, or the last one, writes what it means; it would be loaded
\* as just that.
WritesWhatItMeans ==
    /\ meant \in Values(kind)
    /\ content = ToJson(kind, meant)
    /\ Plain(kind, before) => Loaded(kind, content) = meant

TextOK(J, text) ==
    \/ text \in J \cup {NoFile, Broken}
    \/ \E v \in Values(kind) : text = ToJson(kind, v)

FilesInv(J) ==
    /\ kind \in Kind
    /\ TextOK(J, target)
    /\ pc # "idle" => WritesWhatItMeans
    /\ pc \in Running \cup {"failed"} => target # Broken /\ before = Loaded(kind, target)
    /\ pc \in {"swapped", "ok"} => target = content
    /\ pc = "idle" =>
        \/ target = Broken
        \/ before = Loaded(kind, target)
        \/ WritesWhatItMeans /\ target = content

LEMMA FilesInvInit ==
    ASSUME NEW J, FileTexts(J)
    PROVE  FilesInit => IInv /\ FilesInv(J)
<1>. SUFFICES ASSUME FilesInit PROVE IInv /\ FilesInv(J)
  OBVIOUS
<1>1. Init
  BY DEF FilesInit, Init, FileTexts
<1>2. FilesInv(J)
  BY DEF FilesInit, FilesInv, FileTexts, TextOK, Running
<1>. QED BY <1>1, <1>2, IInvInit

\* A command loads, changes and starts to save.
LEMMA CommandStep ==
    ASSUME NEW J, FileTexts(J), IInv, FilesInv(J), Command
    PROVE  Next /\ FilesInv(J)'
<1>. PICK b, m : b = before' /\ m = meant'
  OBVIOUS
<1>1. /\ Readable(kind, target) /\ pc \in Ended
      /\ b = Loaded(kind, target) /\ m \in Changed(kind, b)
      /\ content' = ToJson(kind, m) /\ Begin(ToJson(kind, m))
      /\ pc' = "open" /\ target' = target /\ kind' = kind
  BY DEF Command, Begin
<1>2. Json(J) /\ kind \in Kind /\ kind \in Kinds
  BY DEF FilesInv, FileTexts
<1>3. ASSUME target # NoFile
      PROVE  b \in Values(kind) /\ (Plain(kind, b) => Steady(kind, b))
  <2>1. b = Load(kind, target) /\ target # Broken
    BY <1>1, <1>3 DEF Loaded, Readable
  <2>2. target \in J \/ \E v \in Values(kind) : target = ToJson(kind, v)
    BY <1>3, <2>1 DEF FilesInv, TextOK
  <2>3. b \in Values(kind) /\ (Plain(kind, b) => Steady(kind, b))
    BY <1>2, <2>1, <2>2, LoadTyped
  <2>. QED BY <2>3
<1>4. ASSUME target = NoFile
      PROVE  (kind # "snapshot" => b \in Values(kind)) /\ Steady(kind, b)
  <2>1. kind \in {"cursors", "snapshot"} /\ b = Missing(kind)
    BY <1>1, <1>4 DEF Loaded, Readable
  <2>2. kind = "cursors" => b \in CursorState
    <3>1. <<>> \in [{} -> Int] /\ {} \in SUBSET Text /\ IsFiniteSet({})
      BY FS_EmptySet
    <3>2. <<>> \in UNION {[D -> Int] : D \in {D \in SUBSET Text : IsFiniteSet(D)}}
      BY <3>1
    <3>. QED BY <2>1, <3>2 DEF Missing, CursorState, SchemaVersion
  <2>. QED BY <2>1, <2>2 DEF Values, Steady
<1>5. (kind # "snapshot" => b \in Values(kind)) /\ (Plain(kind, b) => Steady(kind, b))
  BY <1>3, <1>4
<1>6. m \in Values(kind) /\ (Plain(kind, b) => Steady(kind, m))
  BY <1>1, <1>2, <1>5, ChangedTyped
<1>7. ToJson(kind, m) \in Content /\ ToJson(kind, m) # NoFile
  BY <1>2, <1>6, NoFileAssumption DEF FileTexts
<1>8. Plain(kind, b) => Loaded(kind, ToJson(kind, m)) = m
  BY <1>2, <1>6, <1>7, RoundTrip DEF Loaded
<1>9. Next
  BY <1>1, <1>7 DEF Next
<1>10. WritesWhatItMeans'
  BY <1>1, <1>6, <1>8 DEF WritesWhatItMeans
<1>11. TextOK(J, target)'
  BY <1>1 DEF FilesInv, TextOK
<1>12. target' # Broken /\ before' = Loaded(kind', target')
  BY <1>1 DEF Readable
<1>. QED BY <1>1, <1>2, <1>9, <1>10, <1>11, <1>12 DEF FilesInv, Running

\* People put another text in the place of the file.
LEMMA EditStep ==
    ASSUME NEW J, FileTexts(J), IInv, FilesInv(J), Edit
    PROVE  Next /\ FilesInv(J)'
<1>. PICK text \in Edits(kind) :
        /\ HandEdit(text)
        /\ before' = IF Readable(kind, text) THEN Loaded(kind, text) ELSE NoFile
  BY DEF Edit
<1>1. kind \in Kind /\ kind' = kind
  BY DEF FilesInv, Edit
<1>2. text \in J \cup {Broken} /\ text \in Content /\ text # NoFile
  BY <1>1, NoFileAssumption DEF FileTexts
<1>3. Next
  BY <1>2 DEF Next
<1>4. pc' = "idle" /\ target' = text
  BY DEF HandEdit
<1>5. text # Broken => before' = Loaded(kind, text)
  BY <1>2 DEF Readable
<1>6. TextOK(J, target)'
  BY <1>2, <1>4 DEF TextOK
<1>. QED BY <1>1, <1>3, <1>4, <1>5, <1>6 DEF FilesInv, Running

\* A save that is under way, ends or dies.
LEMMA SaveKeeps ==
    ASSUME NEW J, FileTexts(J), IInv, FilesInv(J), Save
    PROVE  Next /\ FilesInv(J)'
<1>1. Next
  BY DEF Save, Next
<1>2. UNCHANGED <<kind, before, meant>>
  BY DEF Save
<1>3. content' = content
  BY DEF Save, SaveStep, Crash, OpenFails, OpenTmp, FillTmp, FillFails, LookForTarget,
         DropBackup, StartCopy, FinishCopy, CopyFails, Swap, SwapFails, Return, GiveUp
<1>4. WritesWhatItMeans => WritesWhatItMeans'
  BY <1>2, <1>3 DEF WritesWhatItMeans
<1>5. CASE \/ OpenFails \/ OpenTmp \/ FillTmp \/ FillFails \/ LookForTarget
           \/ DropBackup \/ StartCopy \/ FinishCopy \/ CopyFails \/ SwapFails
  <2>1. pc \in Running /\ pc' \in Running \cup {"failed"} /\ target' = target
    BY <1>5 DEF OpenFails, OpenTmp, FillTmp, FillFails, LookForTarget,
                DropBackup, StartCopy, FinishCopy, CopyFails, SwapFails, GiveUp, Running
  <2>2. TextOK(J, target)'
    BY <1>2, <2>1 DEF FilesInv, TextOK
  <2>3. WritesWhatItMeans'
    BY <1>4, <2>1 DEF FilesInv, Running
  <2>. QED BY <1>1, <1>2, <2>1, <2>2, <2>3 DEF FilesInv, Running
<1>6. CASE Swap
  <2>1. pc = "swap" /\ pc' = "swapped" /\ target' = content
    BY <1>6 DEF Swap, IInv, TmpWhole
  <2>2. WritesWhatItMeans'
    BY <1>4, <2>1 DEF FilesInv
  <2>3. TextOK(J, target)'
    BY <1>3, <2>1, <2>2 DEF TextOK, WritesWhatItMeans
  <2>. QED BY <1>1, <1>2, <1>3, <2>1, <2>2, <2>3 DEF FilesInv, Running
<1>7. CASE Return
  <2>1. pc = "swapped" /\ pc' = "ok" /\ target' = target
    BY <1>7 DEF Return
  <2>2. WritesWhatItMeans'
    BY <1>4, <2>1 DEF FilesInv
  <2>3. TextOK(J, target)'
    BY <1>2, <2>1 DEF FilesInv, TextOK
  <2>. QED BY <1>1, <1>2, <1>3, <2>1, <2>2, <2>3 DEF FilesInv, Running
<1>8. CASE Crash
  <2>1. pc \in Running \cup {"swapped"} /\ pc' = "idle" /\ target' = target
    BY <1>8 DEF Crash, IInv, TypeOK
  <2>2. WritesWhatItMeans'
    BY <1>4, <2>1 DEF FilesInv, Running
  <2>3. TextOK(J, target)'
    BY <1>2, <2>1 DEF FilesInv, TextOK
  <2>4. before' = Loaded(kind', target') \/ target' = content'
    BY <1>2, <1>3, <2>1 DEF FilesInv
  <2>. QED BY <1>1, <1>2, <2>1, <2>2, <2>3, <2>4 DEF FilesInv, Running
<1>. QED BY <1>5, <1>6, <1>7, <1>8 DEF Save, SaveStep

LEMMA FilesStep ==
    ASSUME NEW J, FileTexts(J), IInv, FilesInv(J), [FilesNext]_fileVars
    PROVE  [Next]_vars /\ (IInv /\ FilesInv(J))'
<1>1. [Next]_vars /\ FilesInv(J)'
  <2>1. CASE FilesNext
    BY <2>1, CommandStep, EditStep, SaveKeeps DEF FilesNext
  <2>2. CASE UNCHANGED fileVars
    BY <2>2 DEF fileVars, vars, FilesInv, TextOK, WritesWhatItMeans
  <2>. QED BY <2>1, <2>2
<1>. QED BY <1>1, TypeStep, PreparedStep DEF IInv

\* The inductive invariant of a data file, whatever the files of its kind may hold.
THEOREM FilesInductive ==
    ASSUME NEW J, FileTexts(J)
    PROVE  FilesSpec => [](IInv /\ FilesInv(J))
<1>1. FilesInit => IInv /\ FilesInv(J)
  BY FilesInvInit
<1>2. IInv /\ FilesInv(J) /\ [FilesNext]_fileVars => (IInv /\ FilesInv(J))'
  BY FilesStep
<1>. QED BY <1>1, <1>2, PTL DEF FilesSpec

\* What commands do to a data file is what atomicWrite promises to do to one, so
\* all that is proved of atomicWrite holds of the files in use.
THEOREM FilesAreSaved ==
    ASSUME NEW J, FileTexts(J)
    PROVE  FilesSpec => Spec
<1>1. FilesInit => Init
  BY DEF FilesInit, Init, FileTexts
<1>2. IInv /\ FilesInv(J) /\ [FilesNext]_fileVars => [Next]_vars
  BY FilesStep
<1>. QED BY <1>1, <1>2, FilesInductive, PTL DEF FilesSpec, Spec

\* Whatever JSON people leave in a data file, whatever fails or dies while it is
\* saved: it says what the last command meant when that succeeded, and what it
\* said before when it failed, but for one id of two tasks with two lists.
THEOREM SavedIsLoaded ==
    ASSUME NEW J, FileTexts(J)
    PROVE  FilesSpec => []LoadsAsMeant
<1>1. IInv /\ FilesInv(J) => LoadsAsMeant
  BY DEF FilesInv, LoadsAsMeant, WritesWhatItMeans, Ended, Running
<1>. QED BY <1>1, FilesInductive, PTL

=============================================================================
