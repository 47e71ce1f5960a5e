---------------------------- MODULE TaskAdmin_proofs ----------------------------
(***************************************************************************)
(* What the administration commands keep, for any number of tasks, sets,   *)
(* categories, slots and times, in whatever order they are given.          *)
(***************************************************************************)
EXTENDS TaskAdmin, FiniteSetTheorems, TLAPS

TaskEntry == [taskSetIds : SUBSET TaskSetId, conflictsWith : SUBSET TaskId]

SlotEntry == [start : Nat, end : Nat, weekdays : WeekdayChoice,
              categoryIds : SUBSET CategoryId]

\* Every entry of the files has its fields.
Entries ==
    /\ DOMAIN tasks \subseteq TaskId
    /\ \A t \in DOMAIN tasks : tasks[t] \in TaskEntry
    /\ \A s \in DOMAIN timeSlots : timeSlots[s] \in SlotEntry

\* Slots refer to categories that are there, and these to sets that are there.
References ==
    /\ \A s \in DOMAIN timeSlots : /\ timeSlots[s].categoryIds # {}
                                   /\ timeSlots[s].categoryIds \subseteq DOMAIN categories
    /\ \A c \in DOMAIN categories : categories[c] # {} /\ categories[c] \subseteq taskSets

\* No two time slots share a moment of a workday.
Apart ==
    \A i, j \in DOMAIN timeSlots : i # j => ~Overlap(timeSlots[i], timeSlots[j])

AdminInv == Entries /\ ConflictsOnBothSides /\ References /\ Apart

-----------------------------------------------------------------------------
(* The files as functions *)

LEMMA WithoutEntry ==
    ASSUME NEW file, NEW id
    PROVE  /\ DOMAIN Without(file, id) = DOMAIN file \ {id}
           /\ \A x \in DOMAIN file \ {id} : Without(file, id)[x] = file[x]
BY DEF Without, Restrict

\* What normalizing makes of a file, whatever is in it.
IsNormal(new, file, D) ==
    /\ new \in [D -> TaskEntry]
    /\ \A t \in D : new[t].taskSetIds = file[t].taskSetIds
    /\ \A t \in D, u \in TaskId : u \in new[t].conflictsWith <=>
          u # t /\ (u \in file[t].conflictsWith \/ (u \in D /\ t \in file[u].conflictsWith))

LEMMA Normalized ==
    ASSUME NEW D \in SUBSET TaskId, NEW file \in [D -> TaskEntry],
           NEW new, new = NormalizeConflicts(file)
    PROVE  IsNormal(new, file, D)
<1>1. new = [t \in D |-> [file[t] EXCEPT !.conflictsWith =
                (@ \cup {u \in D : t \in file[u].conflictsWith}) \ {t}]]
  BY DEF NormalizeConflicts
<1>2. ASSUME NEW t \in D
      PROVE  /\ new[t] \in TaskEntry
             /\ new[t].taskSetIds = file[t].taskSetIds
             /\ \A u \in TaskId : u \in new[t].conflictsWith <=>
                   u # t /\ (u \in file[t].conflictsWith \/ (u \in D /\ t \in file[u].conflictsWith))
  <2>. DEFINE c == (file[t].conflictsWith \cup {u \in D : t \in file[u].conflictsWith}) \ {t}
  <2>1. new[t] = [file[t] EXCEPT !.conflictsWith = c]
    BY <1>1
  <2>2. file[t] \in TaskEntry /\ c \subseteq TaskId
    BY DEF TaskEntry
  <2>3. /\ new[t] \in TaskEntry /\ new[t].taskSetIds = file[t].taskSetIds
        /\ new[t].conflictsWith = c
    <3>. HIDE DEF c
    <3>. QED  BY <2>1, <2>2 DEF TaskEntry
  <2>. QED  BY <2>3
<1>3. new \in [D -> TaskEntry]
  BY <1>1, <1>2
<1>. QED  BY <1>2, <1>3 DEF IsNormal

-----------------------------------------------------------------------------
(* The commands on tasks *)

\* A file that has been normalized is fit to be the file.
LEMMA NormalizedFits ==
    ASSUME AdminInv, NEW D \in SUBSET TaskId, NEW file \in [D -> TaskEntry],
           tasks' = NormalizeConflicts(file), UNCHANGED <<taskSets, categories, timeSlots>>
    PROVE  AdminInv'
<1>. USE DEF AdminInv
<1>0. PICK new : new = NormalizeConflicts(file)
  OBVIOUS
<1>1. /\ new \in [D -> TaskEntry]
      /\ \A t \in D, u \in TaskId : u \in new[t].conflictsWith <=>
            u # t /\ (u \in file[t].conflictsWith \/ (u \in D /\ t \in file[u].conflictsWith))
  <2>1. IsNormal(new, file, D)
    BY <1>0, Normalized
  <2>. QED  BY <2>1 DEF IsNormal
<1>2. tasks' = new
  BY <1>0
<1>3. Entries'
  BY <1>1, <1>2 DEF Entries
<1>4. ConflictsOnBothSides'
  <2>. SUFFICES ASSUME NEW t \in D, NEW u \in D
                PROVE  /\ t \notin new[t].conflictsWith
                       /\ u \in new[t].conflictsWith => t \in new[u].conflictsWith
    BY <1>1, <1>2 DEF ConflictsOnBothSides
  <2>. QED  BY <1>1
<1>5. References' /\ Apart'
  BY DEF References, Apart, Overlap, EffectiveWeekdays
<1>. QED  BY <1>3, <1>4, <1>5

\* The file with one more entry.
LEMMA AddedEntry ==
    ASSUME AdminInv, NEW t \in TaskId, NEW entry \in TaskEntry
    PROVE  With(tasks, t, entry) \in [DOMAIN tasks \cup {t} -> TaskEntry]
BY DEF With, AdminInv, Entries

LEMMA AddTaskKeeps ==
    ASSUME AdminInv, NEW t \in TaskId, NEW sets \in SUBSET TaskSetId,
           NEW others \in SUBSET TaskId, AddTask(t, sets, others)
    PROVE  AdminInv'
<1>. DEFINE entry == [taskSetIds |-> sets, conflictsWith |-> others]
<1>1. entry \in TaskEntry
  BY DEF TaskEntry
<1>2. /\ tasks' = NormalizeConflicts(With(tasks, t, entry))
      /\ UNCHANGED <<taskSets, categories, timeSlots>>
  BY DEF AddTask
<1>. HIDE DEF entry
<1>3. DOMAIN tasks \cup {t} \in SUBSET TaskId
  BY DEF AdminInv, Entries
<1>. QED  BY <1>1, <1>2, <1>3, AddedEntry, NormalizedFits

\* The file with another entry for t, whom nobody else excludes.
LEMMA EditedFile ==
    ASSUME AdminInv, NEW t \in TaskId, NEW entry \in TaskEntry
    PROVE  [Unlink(tasks, t) EXCEPT ![t] = entry] \in [DOMAIN tasks -> TaskEntry]
<1>1. \A u \in DOMAIN tasks : [tasks[u] EXCEPT !.conflictsWith = @ \ {t}] \in TaskEntry
  BY DEF AdminInv, Entries, TaskEntry
<1>2. Unlink(tasks, t) \in [DOMAIN tasks -> TaskEntry]
  BY <1>1 DEF Unlink
<1>. QED  BY <1>2

LEMMA EditTaskKeeps ==
    ASSUME AdminInv, NEW t \in TaskId, NEW sets \in SUBSET TaskSetId,
           NEW others \in SUBSET TaskId, EditTask(t, sets, others)
    PROVE  AdminInv'
<1>. DEFINE entry == [taskSetIds |-> sets, conflictsWith |-> others]
<1>1. entry \in TaskEntry
  BY DEF TaskEntry
<1>2. /\ tasks' = NormalizeConflicts([Unlink(tasks, t) EXCEPT ![t] = entry])
      /\ UNCHANGED <<taskSets, categories, timeSlots>>
  BY DEF EditTask
<1>. HIDE DEF entry
<1>3. DOMAIN tasks \in SUBSET TaskId
  BY DEF AdminInv, Entries
<1>. QED  BY <1>1, <1>2, <1>3, EditedFile, NormalizedFits

\* What is left when a task is gone.
LEMMA Removed ==
    ASSUME AdminInv, NEW t \in TaskId, RemoveTask(t)
    PROVE  /\ DOMAIN tasks' = DOMAIN tasks \ {t}
           /\ \A u \in DOMAIN tasks \ {t} :
                 /\ tasks'[u] \in TaskEntry
                 /\ tasks'[u].taskSetIds = tasks[u].taskSetIds
                 /\ tasks'[u].conflictsWith = tasks[u].conflictsWith \ {t}
<1>. DEFINE rest == Without(tasks, t)
<1>1. /\ DOMAIN rest = DOMAIN tasks \ {t}
      /\ \A u \in DOMAIN rest : rest[u] = tasks[u]
  BY WithoutEntry
<1>2. tasks' = Unlink(rest, t)
  BY DEF RemoveTask
<1>. HIDE DEF rest
<1>3. /\ DOMAIN tasks' = DOMAIN rest
      /\ \A u \in DOMAIN rest : tasks'[u] = [rest[u] EXCEPT !.conflictsWith = @ \ {t}]
  BY <1>2 DEF Unlink
<1>4. \A u \in DOMAIN rest : rest[u] \in TaskEntry
  BY <1>1 DEF AdminInv, Entries
<1>. QED  BY <1>1, <1>3, <1>4 DEF TaskEntry

LEMMA RemoveTaskKeeps ==
    ASSUME AdminInv, NEW t \in TaskId, RemoveTask(t)  PROVE AdminInv'
<1>. USE DEF AdminInv
<1>1. UNCHANGED <<taskSets, categories, timeSlots>>
  BY DEF RemoveTask
<1>2. Entries'
  BY <1>1, Removed DEF Entries
<1>3. ConflictsOnBothSides'
  <2>1. \A u \in DOMAIN tasks' :
           u \in DOMAIN tasks \ {t} /\ tasks'[u].conflictsWith = tasks[u].conflictsWith \ {t}
    BY Removed
  <2>. SUFFICES ASSUME NEW u \in DOMAIN tasks', NEW v \in DOMAIN tasks'
                PROVE  /\ u \notin tasks'[u].conflictsWith
                       /\ v \in tasks'[u].conflictsWith => u \in tasks'[v].conflictsWith
    BY DEF ConflictsOnBothSides
  <2>2. /\ u \in DOMAIN tasks \ {t} /\ tasks'[u].conflictsWith = tasks[u].conflictsWith \ {t}
        /\ v \in DOMAIN tasks \ {t} /\ tasks'[v].conflictsWith = tasks[v].conflictsWith \ {t}
    BY <2>1
  <2>3. /\ u \notin tasks[u].conflictsWith
        /\ v \in tasks[u].conflictsWith => u \in tasks[v].conflictsWith
    BY <2>2 DEF ConflictsOnBothSides
  <2>. QED  BY <2>2, <2>3
<1>4. References' /\ Apart'
  BY <1>1 DEF References, Apart, Overlap, EffectiveWeekdays
<1>. QED  BY <1>2, <1>3, <1>4

-----------------------------------------------------------------------------
(* The commands on sets, categories and slots *)

LEMMA TaskSetKeeps ==
    ASSUME AdminInv, NEW s \in TaskSetId, AddTaskSet(s) \/ RemoveTaskSet(s)
    PROVE  AdminInv'
<1>. USE DEF AdminInv
<1>1. UNCHANGED <<tasks, categories, timeSlots>>
  BY DEF AddTaskSet, RemoveTaskSet
<1>2. References'
  BY <1>1 DEF References, AddTaskSet, RemoveTaskSet
<1>. QED  BY <1>1, <1>2 DEF Entries, ConflictsOnBothSides, Apart, Overlap, EffectiveWeekdays

LEMMA CategoryKeeps ==
    ASSUME AdminInv, NEW c \in CategoryId, NEW sets \in SUBSET TaskSetId,
           AddCategory(c, sets) \/ RemoveCategory(c)
    PROVE  AdminInv'
<1>. USE DEF AdminInv
<1>1. UNCHANGED <<taskSets, tasks, timeSlots>>
  BY DEF AddCategory, RemoveCategory
<1>2. References'
  <2>1. CASE AddCategory(c, sets)
    BY <1>1, <2>1 DEF With, References, AddCategory
  <2>2. CASE RemoveCategory(c)
    <3>1. /\ DOMAIN categories' = DOMAIN categories \ {c}
          /\ \A d \in DOMAIN categories' : categories'[d] = categories[d]
      BY <2>2, WithoutEntry DEF RemoveCategory
    <3>2. \A s \in DOMAIN timeSlots : c \notin timeSlots[s].categoryIds
      BY <2>2 DEF RemoveCategory
    <3>. QED  BY <1>1, <3>1, <3>2 DEF References
  <2>. QED  BY <2>1, <2>2
<1>. QED  BY <1>1, <1>2 DEF Entries, ConflictsOnBothSides, Apart, Overlap, EffectiveWeekdays

LEMMA PairIsTwo == ASSUME NEW i, NEW j, i # j  PROVE Cardinality({i, j}) = 2
<1>1. IsFiniteSet({i}) /\ Cardinality({i}) = 1 /\ {i} \cup {j} = {i, j}
  BY FS_Singleton
<1>. QED  BY <1>1, FS_AddElement

LEMMA AddTimeSlotKeeps ==
    ASSUME AdminInv, NEW s \in SlotId, NEW span \in Span, NEW days \in WeekdayChoice,
           NEW cats \in SUBSET CategoryId, AddTimeSlot(s, span, days, cats)
    PROVE  AdminInv'
<1>. USE DEF AdminInv
<1>. DEFINE slot == [start |-> span[1], end |-> span[2], weekdays |-> days,
                     categoryIds |-> cats]
<1>1. slot \in SlotEntry /\ slot.categoryIds = cats
  BY SpanAssumption DEF SlotEntry
<1>2. /\ timeSlots' = With(timeSlots, s, slot) /\ s \notin DOMAIN timeSlots
      /\ FindTimeSlotOverlaps(timeSlots') = {}
      /\ cats # {} /\ cats \subseteq DOMAIN categories
      /\ UNCHANGED <<taskSets, tasks, categories>>
  BY DEF AddTimeSlot
<1>. HIDE DEF slot
<1>3. /\ DOMAIN timeSlots' = DOMAIN timeSlots \cup {s} /\ timeSlots'[s] = slot
      /\ \A x \in DOMAIN timeSlots : timeSlots'[x] = timeSlots[x]
  BY <1>2 DEF With
<1>4. Entries' /\ ConflictsOnBothSides'
  BY <1>1, <1>2, <1>3 DEF Entries, ConflictsOnBothSides
<1>5. References'
  BY <1>1, <1>2, <1>3 DEF References
<1>6. Apart'
  <2>. SUFFICES ASSUME NEW i \in DOMAIN timeSlots', NEW j \in DOMAIN timeSlots', i # j,
                       Overlap(timeSlots'[i], timeSlots'[j])
                PROVE  FALSE
    BY DEF Apart, Overlap, EffectiveWeekdays
  <2>1. Overlap(timeSlots'[j], timeSlots'[i])
    BY DEF Overlap
  <2>2. {i, j} \in FindTimeSlotOverlaps(timeSlots')
    BY <2>1, PairIsTwo DEF FindTimeSlotOverlaps
  <2>. QED  BY <1>2, <2>2
<1>. QED  BY <1>4, <1>5, <1>6

LEMMA RemoveTimeSlotKeeps ==
    ASSUME AdminInv, NEW s \in SlotId, RemoveTimeSlot(s)  PROVE AdminInv'
<1>. USE DEF AdminInv
<1>1. /\ DOMAIN timeSlots' = DOMAIN timeSlots \ {s}
      /\ \A x \in DOMAIN timeSlots \ {s} : timeSlots'[x] = timeSlots[x]
      /\ UNCHANGED <<taskSets, tasks, categories>>
  BY WithoutEntry DEF RemoveTimeSlot
<1>2. Apart'
  BY <1>1 DEF Apart, Overlap, EffectiveWeekdays
<1>3. Entries' /\ ConflictsOnBothSides' /\ References'
  BY <1>1 DEF Entries, ConflictsOnBothSides, References
<1>. QED  BY <1>2, <1>3

-----------------------------------------------------------------------------
(* The theorems *)

LEMMA InitHolds == Init => AdminInv
BY DEF Init, EmptyFile, AdminInv, Entries, ConflictsOnBothSides, References, Apart

LEMMA NextKeeps == AdminInv /\ [Next]_vars => AdminInv'
<1>. SUFFICES ASSUME AdminInv, [Next]_vars  PROVE AdminInv'
  OBVIOUS
<1>1. ASSUME NEW t \in TaskId, NEW sets \in SUBSET TaskSetId, NEW others \in SUBSET TaskId,
             AddTask(t, sets, others) \/ EditTask(t, sets, others)
      PROVE  AdminInv'
  BY <1>1, AddTaskKeeps, EditTaskKeeps
<1>2. ASSUME NEW t \in TaskId, RemoveTask(t)  PROVE AdminInv'
  BY <1>2, RemoveTaskKeeps
<1>3. ASSUME NEW s \in TaskSetId, AddTaskSet(s) \/ RemoveTaskSet(s)  PROVE AdminInv'
  BY <1>3, TaskSetKeeps
<1>4. ASSUME NEW c \in CategoryId, NEW sets \in SUBSET TaskSetId, AddCategory(c, sets)
      PROVE  AdminInv'
  BY <1>4, CategoryKeeps
<1>5. ASSUME NEW c \in CategoryId, RemoveCategory(c)  PROVE AdminInv'
  BY <1>5, CategoryKeeps
<1>6. ASSUME NEW s \in SlotId, NEW span \in Span, NEW days \in WeekdayChoice,
             NEW cats \in SUBSET CategoryId, AddTimeSlot(s, span, days, cats)
      PROVE  AdminInv'
  BY <1>6, AddTimeSlotKeeps
<1>7. ASSUME NEW s \in SlotId, RemoveTimeSlot(s)  PROVE AdminInv'
  BY <1>7, RemoveTimeSlotKeeps
<1>8. CASE UNCHANGED vars
  BY <1>8 DEF vars, AdminInv, Entries, ConflictsOnBothSides, References, Apart, Overlap,
              EffectiveWeekdays
<1>. QED  BY <1>1, <1>2, <1>3, <1>4, <1>5, <1>6, <1>7, <1>8 DEF Next

\* The inductive invariant of the administration commands.
THEOREM AdminInductive == Spec => []AdminInv
BY InitHolds, NextKeeps, PTL DEF Spec

\* Exclusions are on file on both sides, whatever is added, edited, removed.
THEOREM BothSides == Spec => []ConflictsOnBothSides
<1>1. AdminInv => ConflictsOnBothSides
  BY DEF AdminInv
<1>. QED  BY <1>1, AdminInductive, PTL

\* A time slot always leads to task sets: no removal leaves it hanging.
THEOREM LeadToSets == Spec => []SlotsLeadToSets
<1>1. AdminInv => SlotsLeadToSets
  BY DEF AdminInv, References, SlotsLeadToSets
<1>. QED  BY <1>1, AdminInductive, PTL

\* At no time of a workday are there two current slots.
THEOREM OneCurrent == Spec => []OneCurrentSlot
<1>1. AdminInv => OneCurrentSlot
  <2>. SUFFICES ASSUME AdminInv, NEW day \in WorkWeekdays,
                       NEW time \in UNION {{span[1], span[2]} : span \in Span}
                PROVE  Cardinality(SlotsAt(day, time)) <= 1
    BY DEF OneCurrentSlot
  <2>1. time \in Nat
    BY SpanAssumption
  <2>2. \A i, j \in SlotsAt(day, time) : i = j
    <3>. SUFFICES ASSUME NEW i \in SlotsAt(day, time), NEW j \in SlotsAt(day, time), i # j
                  PROVE  FALSE
      OBVIOUS
    <3>1. /\ i \in DOMAIN timeSlots /\ j \in DOMAIN timeSlots
          /\ timeSlots[i] \in SlotEntry /\ timeSlots[j] \in SlotEntry
      BY DEF SlotsAt, AdminInv, Entries
    <3>2. /\ day \in EffectiveWeekdays(timeSlots[i])
          /\ day \in EffectiveWeekdays(timeSlots[j])
      BY DEF SlotsAt, EffectiveWeekdays
    <3>3. timeSlots[i].start < timeSlots[j].end /\ timeSlots[j].start < timeSlots[i].end
      BY <2>1, <3>1 DEF SlotsAt, SlotEntry
    <3>. QED  BY <3>1, <3>2, <3>3 DEF AdminInv, Apart, Overlap
  <2>3. CASE SlotsAt(day, time) = {}
    BY <2>3, FS_EmptySet
  <2>4. CASE SlotsAt(day, time) # {}
    <3>1. PICK i : SlotsAt(day, time) = {i}
      BY <2>2, <2>4
    <3>. QED  BY <3>1, FS_Singleton
  <2>. QED  BY <2>3, <2>4
<1>. QED  BY <1>1, AdminInductive, PTL

\* Slots and categories never give anything to report: only tasks can.
TaskReports(file, sets) ==
    UNION ({Broken(t, file[t].taskSetIds, sets) : t \in DOMAIN file}
      \cup {{<<t, u>> : u \in file[t].conflictsWith \ DOMAIN file} : t \in DOMAIN file})

LEMMA OnlyTasksReport == References => CheckReferences = TaskReports(tasks, taskSets)
<1>. SUFFICES ASSUME References  PROVE CheckReferences = TaskReports(tasks, taskSets)
  OBVIOUS
<1>1. \A s \in DOMAIN timeSlots :
         Broken(s, timeSlots[s].categoryIds, DOMAIN categories) = {}
  BY DEF References, Broken
<1>2. \A c \in DOMAIN categories : Broken(c, categories[c], taskSets) = {}
  BY DEF References, Broken
<1>. QED  BY <1>1, <1>2 DEF CheckReferences, TaskReports

\* What there is to report of one task.
LEMMA TaskReport ==
    ASSUME NEW file, NEW sets, NEW x
    PROVE  x \in TaskReports(file, sets) <=>
              \E t \in DOMAIN file :
                 \/ x \in Broken(t, file[t].taskSetIds, sets)
                 \/ \E u \in file[t].conflictsWith \ DOMAIN file : x = <<t, u>>
<1>. DEFINE A == {Broken(t, file[t].taskSetIds, sets) : t \in DOMAIN file}
            B == {{<<t, u>> : u \in file[t].conflictsWith \ DOMAIN file} : t \in DOMAIN file}
<1>1. x \in TaskReports(file, sets) <=> (\E e \in A : x \in e) \/ (\E e \in B : x \in e)
  <2>. HIDE DEF A, B
  <2>1. TaskReports(file, sets) = UNION (A \cup B)
    BY DEF TaskReports, A, B
  <2>. QED  BY <2>1
<1>2. (\E e \in A : x \in e) <=> \E t \in DOMAIN file : x \in Broken(t, file[t].taskSetIds, sets)
  OBVIOUS
<1>3. (\E e \in B : x \in e)
        <=> \E t \in DOMAIN file : \E u \in file[t].conflictsWith \ DOMAIN file : x = <<t, u>>
  <2>. DEFINE R(t) == {<<t, u>> : u \in file[t].conflictsWith \ DOMAIN file}
  <2>1. \A t : x \in R(t) <=> \E u \in file[t].conflictsWith \ DOMAIN file : x = <<t, u>>
    OBVIOUS
  <2>2. (\E e \in B : x \in e) <=> \E t \in DOMAIN file : x \in R(t)
    OBVIOUS
  <2>. QED  BY <2>1, <2>2, Zenon
<1>. QED  BY <1>1, <1>2, <1>3

\* Another file, and other sets, with nothing new to report.
LEMMA NoNewReport ==
    ASSUME NEW old, NEW new, NEW oldSets, NEW newSets,
           \A t \in DOMAIN new : \A x : x \in Broken(t, new[t].taskSetIds, newSets)
              => t \in DOMAIN old /\ x \in Broken(t, old[t].taskSetIds, oldSets),
           \A t \in DOMAIN new : \A u : u \in new[t].conflictsWith \ DOMAIN new
              => t \in DOMAIN old /\ u \in old[t].conflictsWith \ DOMAIN old
    PROVE  TaskReports(new, newSets) \subseteq TaskReports(old, oldSets)
<1>. SUFFICES ASSUME NEW x \in TaskReports(new, newSets)  PROVE x \in TaskReports(old, oldSets)
  OBVIOUS
<1>1. PICK t \in DOMAIN new :
          \/ x \in Broken(t, new[t].taskSetIds, newSets)
          \/ \E u \in new[t].conflictsWith \ DOMAIN new : x = <<t, u>>
  BY TaskReport
<1>2. /\ t \in DOMAIN old
      /\ \/ x \in Broken(t, old[t].taskSetIds, oldSets)
         \/ \E u \in old[t].conflictsWith \ DOMAIN old : x = <<t, u>>
  BY <1>1
<1>. QED  BY <1>2, TaskReport

\* A new task refers to what is there; the others get at most it, which is there.
LEMMA AddedReports ==
    ASSUME AdminInv, NEW t \in TaskId, t \notin DOMAIN tasks, NEW entry \in TaskEntry,
           entry.taskSetIds # {}, entry.taskSetIds \subseteq taskSets,
           entry.conflictsWith \subseteq DOMAIN tasks,
           NEW D \in SUBSET TaskId, NEW file \in [D -> TaskEntry],
           NEW new, new = NormalizeConflicts(file)
    PROVE  D = DOMAIN tasks \cup {t} /\ file = With(tasks, t, entry) =>
              TaskReports(new, taskSets) \subseteq TaskReports(tasks, taskSets)
<1>2. /\ new \in [D -> TaskEntry]
      /\ \A u \in D : new[u].taskSetIds = file[u].taskSetIds
      /\ \A u \in D, v \in TaskId : v \in new[u].conflictsWith <=>
            v # u /\ (v \in file[u].conflictsWith \/ (v \in D /\ u \in file[v].conflictsWith))
  <2>1. IsNormal(new, file, D)
    BY Normalized
  <2>. QED  BY <2>1 DEF IsNormal
<1>. HAVE D = DOMAIN tasks \cup {t} /\ file = With(tasks, t, entry)
<1>1. file[t] = entry /\ \A u \in DOMAIN tasks : file[u] = tasks[u]
  BY DEF With
<1>3. ASSUME NEW u \in D, NEW x, x \in Broken(u, new[u].taskSetIds, taskSets)
      PROVE  u \in DOMAIN tasks /\ x \in Broken(u, tasks[u].taskSetIds, taskSets)
  <2>1. CASE u = t
    BY <1>1, <1>2, <1>3, <2>1 DEF Broken
  <2>2. CASE u # t
    BY <1>1, <1>2, <1>3, <2>2
  <2>. QED  BY <2>1, <2>2
<1>4. ASSUME NEW u \in D, NEW v \in new[u].conflictsWith \ D
      PROVE  u \in DOMAIN tasks /\ v \in tasks[u].conflictsWith \ DOMAIN tasks
  <2>1. v \in TaskId /\ v \in file[u].conflictsWith
    <3>1. new[u] \in TaskEntry
      BY <1>2
    <3>2. v \in TaskId
      BY <3>1 DEF TaskEntry
    <3>. QED  BY <1>2, <3>2
  <2>. QED  BY <1>1, <2>1
<1>5. DOMAIN new = D
  BY <1>2
<1>. QED  BY <1>3, <1>4, <1>5, NoNewReport

LEMMA AddTaskReports ==
    ASSUME AdminInv, NEW t \in TaskId, NEW sets \in SUBSET TaskSetId,
           NEW others \in SUBSET TaskId, AddTask(t, sets, others)
    PROVE  TaskReports(tasks', taskSets') \subseteq TaskReports(tasks, taskSets)
<1>. DEFINE entry == [taskSetIds |-> sets, conflictsWith |-> others]
            D     == DOMAIN tasks \cup {t}
            file  == With(tasks, t, entry)
            new   == NormalizeConflicts(file)
<1>1. entry \in TaskEntry /\ entry.taskSetIds = sets /\ entry.conflictsWith = others
  BY DEF TaskEntry
<1>2. /\ t \notin DOMAIN tasks /\ sets # {} /\ sets \subseteq taskSets
      /\ others \subseteq DOMAIN tasks /\ tasks' = new /\ taskSets' = taskSets
  BY DEF AddTask
<1>. HIDE DEF entry
<1>3. D \in SUBSET TaskId /\ file \in [D -> TaskEntry]
  BY <1>1, AddedEntry DEF AdminInv, Entries
<1>4. TaskReports(new, taskSets) \subseteq TaskReports(tasks, taskSets)
  BY <1>1, <1>2, <1>3, AddedReports
<1>. QED  BY <1>2, <1>4

LEMMA RemoveTaskReports ==
    ASSUME AdminInv, NEW t \in TaskId, RemoveTask(t)
    PROVE  TaskReports(tasks', taskSets') \subseteq TaskReports(tasks, taskSets)
<1>0. PICK new : new = tasks'
  OBVIOUS
<1>1. /\ DOMAIN new = DOMAIN tasks \ {t}
      /\ \A u \in DOMAIN new : /\ new[u].taskSetIds = tasks[u].taskSetIds
                               /\ new[u].conflictsWith = tasks[u].conflictsWith \ {t}
      /\ taskSets' = taskSets
  BY <1>0, Removed DEF RemoveTask
<1>2. \A u \in DOMAIN new : \A x : x \in Broken(u, new[u].taskSetIds, taskSets)
         => u \in DOMAIN tasks /\ x \in Broken(u, tasks[u].taskSetIds, taskSets)
  BY <1>1
<1>3. \A u \in DOMAIN new : \A v : v \in new[u].conflictsWith \ DOMAIN new
         => u \in DOMAIN tasks /\ v \in tasks[u].conflictsWith \ DOMAIN tasks
  BY <1>1
<1>. QED  BY <1>0, <1>1, <1>2, <1>3, NoNewReport

LEMMA TaskSetReports ==
    ASSUME NEW s \in TaskSetId, AddTaskSet(s) \/ RemoveTaskSet(s)
    PROVE  TaskReports(tasks', taskSets') \subseteq TaskReports(tasks, taskSets)
<1>1. tasks' = tasks
  BY DEF AddTaskSet, RemoveTaskSet
<1>2. \A t \in DOMAIN tasks : \A x : x \in Broken(t, tasks[t].taskSetIds, taskSets')
         => x \in Broken(t, tasks[t].taskSetIds, taskSets)
  BY DEF AddTaskSet, RemoveTaskSet, Broken
<1>. QED  BY <1>1, <1>2, NoNewReport

\* Nothing but `task edit` gives the validator something new to report.
THEOREM EditsAlone == Spec => OnlyEditsBreak
<1>. DEFINE Quiet ==
        \/ CheckReferences' \subseteq CheckReferences
        \/ \E t \in TaskId, sets \in SUBSET TaskSetId, others \in SUBSET TaskId :
              EditTask(t, sets, others)
<1>1. AdminInv /\ AdminInv' /\ [Next]_vars => [Quiet]_vars
  <2>. SUFFICES ASSUME AdminInv, AdminInv', [Next]_vars,
                       ~ \E t \in TaskId, sets \in SUBSET TaskSetId,
                            others \in SUBSET TaskId : EditTask(t, sets, others)
                PROVE  CheckReferences' \subseteq CheckReferences
    OBVIOUS
  <2>1. CheckReferences = TaskReports(tasks, taskSets)
    BY OnlyTasksReport DEF AdminInv
  <2>2. CheckReferences' = TaskReports(tasks', taskSets')
    <3>1. (References => CheckReferences = TaskReports(tasks, taskSets))'
      BY OnlyTasksReport, PTL
    <3>. QED  BY <3>1 DEF AdminInv, TaskReports, Broken
  <2>3. TaskReports(tasks', taskSets') \subseteq TaskReports(tasks, taskSets)
    <3>1. ASSUME NEW t \in TaskId, NEW sets \in SUBSET TaskSetId,
                 NEW others \in SUBSET TaskId, AddTask(t, sets, others)
          PROVE  TaskReports(tasks', taskSets') \subseteq TaskReports(tasks, taskSets)
      BY <3>1, AddTaskReports
    <3>2. ASSUME NEW t \in TaskId, RemoveTask(t)
          PROVE  TaskReports(tasks', taskSets') \subseteq TaskReports(tasks, taskSets)
      BY <3>2, RemoveTaskReports
    <3>3. ASSUME NEW s \in TaskSetId, AddTaskSet(s) \/ RemoveTaskSet(s)
          PROVE  TaskReports(tasks', taskSets') \subseteq TaskReports(tasks, taskSets)
      BY <3>3, TaskSetReports
    <3>4. CASE tasks' = tasks /\ taskSets' = taskSets
      BY <3>4
    <3>. QED
      BY <3>1, <3>2, <3>3, <3>4
      DEF Next, vars, AddCategory, RemoveCategory, AddTimeSlot, RemoveTimeSlot
  <2>. QED  BY <2>1, <2>2, <2>3
<1>. QED  BY <1>1, AdminInductive, PTL DEF Spec, OnlyEditsBreak

=============================================================================
