-------------------------------- MODULE DataDir --------------------------------
(***************************************************************************)
(* The data folder under the commands that go through the write lock:      *)
(* views (now, today, show, assign), assign --force, off add, off rm and   *)
(* prune.  A command loads what it needs, works on its copy and saves file *)
(* by file; every save may fail and the process may die at every step.     *)
(*                                                                         *)
(* A day is one task with one seat (module DayAssignment has the whole of  *)
(* computeDay): enough to tell which cursor and which absences an          *)
(* assignment was made from.                                               *)
(***************************************************************************)
EXTENDS WriteLock, Sequences, FiniteSets

CONSTANTS
    NWorkers,       \* active workers, in the order of workers.json
    LastDate,       \* dates are numbered from 1
    MonthOf,        \* [Date -> Nat]
    KeepDays,       \* --keep-days of prune
    Absence,        \* absences somebody may register
    ReadFaults,     \* may a file be unreadable for a moment?
    MaxCommands     \* bound on the number of commands

Worker == 1 .. NWorkers
Date   == 1 .. LastDate
Month  == {MonthOf[d] : d \in Date}

Nobody    == 0                                      \* the seat is unassigned
NoFile    == [who |-> -1, start |-> 0, next |-> 0]  \* no snapshot
NoCommand == [op |-> "none"]
Blank     == <<0, NoFile>>                          \* an empty line of the archive

\* A stored day: who has the seat, the cursor it was computed from and the
\* cursor after it.
Snapshot == [who : Worker \cup {Nobody}, start : Nat, next : Nat]

Command ==
    [op : {"view", "force"}, date : Date]
      \cup [op : {"offAdd"}, absence : Absence]
      \cup [op : {"offRm"}, worker : Worker, date : Date]
      \cup [op : {"prune"}]

ASSUME DataAssumption ==
    /\ NWorkers \in Nat /\ LastDate \in Nat /\ KeepDays \in Nat /\ MaxCommands \in Nat
    /\ MonthOf \in [Date -> Nat]
    /\ Absence \subseteq [worker : Worker, from : Date, to : Date]
    /\ \A a \in Absence : a.from <= a.to    \* others are refused on sight
    /\ ReadFaults \in BOOLEAN

VARIABLES
    absences,       \* absences.json
    cursorFile,     \* rr-cursor.json; 0 stands for a missing file too
    snap,           \* state/assign-*.json
    archive,        \* state/archive/*.jsonl: month -> its lines
    today,          \* the date
    commands,       \* commands begun so far
    win             \* what each window runs, and its memory

\* Histories.
VARIABLES
    registered,     \* absences registered, and not cancelled, with success
    kept,           \* <<date, snapshot>> stored and not replaced by --force
    answers         \* of each date: the snapshots shown since the last --force

files   == <<absences, cursorFile, snap, archive>>
history == <<registered, kept, answers>>
vars    == <<lockVars, files, today, commands, win, history>>

NoMemory == [cmd |-> NoCommand, step |-> "none", today |-> 0, known |-> {},
             result |-> NoFile, due |-> {}, toRemove |-> {}, told |-> FALSE]

Init ==
    /\ LockInit
    /\ absences = {}
    /\ cursorFile = 0
    /\ snap = [d \in Date |-> NoFile]
    /\ archive = [m \in Month |-> <<>>]
    /\ today = 1
    /\ commands = 0
    /\ win = [w \in Window |-> NoMemory]
    /\ registered = {}
    /\ kept = {}
    /\ answers = [d \in Date |-> {}]

-----------------------------------------------------------------------------

\* A slip: the last day of an absence is not counted.
IsAbsentBefore(known, worker, d) ==
    \E a \in known : a.worker = worker /\ a.from <= d /\ d < a.to

IsAbsent(known, worker, d) ==
    \E a \in known : a.worker = worker /\ a.from <= d /\ d <= a.to

\* What computeDay makes of the absences and the cursor it is given.
Computed(known, cursor, d) ==
    LET present == {v \in Worker : ~IsAbsent(known, v, d)}
        n       == Cardinality(present)
        place   == cursor % n
    IN  IF n = 0
        THEN [who |-> Nobody, start |-> cursor, next |-> cursor]
        ELSE [who |-> CHOOSE v \in present :
                          Cardinality({u \in present : u < v}) = place,
              start |-> cursor, next |-> (place + 1) % n]

\* The window holds the lock, or believes so, and is at this step.
At(w, step) == phase[w] = "held" /\ win[w].step = step

GoTo(w, step) == win' = [win EXCEPT ![w].step = step]

\* The command ends with an error message.
EndsInError(w) == GoTo(w, "end") /\ UNCHANGED <<files, history>>

Running == UNCHANGED <<lockVars, today, commands>>

-----------------------------------------------------------------------------
(* A command begins, if the lock lets it, and ends. *)

Enter(w, c) ==
    /\ commands < MaxCommands
    /\ win[w].cmd = NoCommand
    /\ ReadLock(w) \/ Refuse(w)
    /\ commands' = commands + 1
    /\ win' = [win EXCEPT ![w] = [NoMemory EXCEPT !.cmd = c, !.step = "load"]]
    /\ UNCHANGED <<files, today, history>>

Lock(w) ==
    /\ TakeLock(w)
    /\ UNCHANGED <<files, today, commands, win, history>>

\* The process ends: refused, done, without a lock, or killed.
Leave(w) ==
    /\ win[w].cmd # NoCommand
    /\ \/ phase[w] = "refused" /\ LeaveBehind(w)
       \/ TakeFails(w)
       \/ At(w, "end") /\ (Release(w) \/ ReleaseFails(w))
    /\ win' = [win EXCEPT ![w] = NoMemory]
    /\ UNCHANGED <<files, today, commands, history>>

Crash(w) ==
    /\ Die(w)
    /\ win' = [win EXCEPT ![w] = NoMemory]
    /\ UNCHANGED <<files, today, commands, history>>

\* Loads the model and goes to the command's own first step.
Load(w) ==
    /\ At(w, "load")
    /\ Running
    /\ LET c == win[w].cmd
           Matching == {a \in absences : a.worker = c.worker /\ a.from <= c.date
                                                             /\ c.date <= a.to}
           Due(d) == snap[d] # NoFile /\ today - d > KeepDays
           Go(step, known) ==
               win' = [win EXCEPT ![w].step = step, ![w].known = known,
                                  ![w].today = today]
       IN  \/ c.op = "view"   /\ Go("look", absences)
           \/ c.op = "force"  /\ Go("prompt", absences)
           \/ c.op = "offAdd" /\ Go("saveAbsences", absences \cup {c.absence})
           \/ c.op = "offRm" /\ Matching # {} /\ Go("saveAbsences", absences \ Matching)
           \/ c.op = "offRm" /\ Matching = {} /\ Go("end", absences)
           \/ /\ c.op = "prune"
              /\ win' = [win EXCEPT ![w].step = IF \E d \in Date : Due(d)
                                                THEN "archive" ELSE "end",
                                    ![w].due = {d \in Date : Due(d)}]
    /\ UNCHANGED <<files, history>>

\* A file that has to be read cannot be.
LoadFails(w) ==
    /\ At(w, "load") \/ At(w, "look")
    /\ Running
    /\ EndsInError(w)

-----------------------------------------------------------------------------
(* Views and assign --force. *)

\* "y", or anything else.
Answer(w) ==
    /\ At(w, "prompt")
    /\ Running
    /\ GoTo(w, "look") \/ GoTo(w, "end")
    /\ UNCHANGED <<files, history>>

Shown(d, s) == answers' = [answers EXCEPT ![d] = @ \cup {s}]

\* ensureSnapshot: an existing snapshot is only read.
ShowStored(w) ==
    LET c == win[w].cmd IN
    /\ At(w, "look")
    /\ Running
    /\ c.op = "view"
    /\ snap[c.date] # NoFile
    /\ Shown(c.date, snap[c.date])
    /\ GoTo(w, "end")
    /\ UNCHANGED <<files, registered, kept>>

\* A slip: a view computes the day although it is stored.
ComputeAnew(w) ==
    /\ At(w, "look")
    /\ Running
    /\ win' = [win EXCEPT ![w].step = "saveSnapshot",
                   ![w].result = Computed(win[w].known, cursorFile, win[w].cmd.date)]
    /\ UNCHANGED <<files, history>>

Compute(w) ==
    LET c == win[w].cmd IN
    /\ At(w, "look")
    /\ Running
    /\ c.op = "force" \/ snap[c.date] = NoFile
    /\ win' = [win EXCEPT ![w].step = "saveSnapshot",
                          ![w].result = Computed(win[w].known, cursorFile, c.date)]
    /\ UNCHANGED <<files, history>>

\* A slip: the cursors are saved though the snapshot has not been.
SaveSnapshotUnchecked(w) ==
    /\ At(w, "saveSnapshot")
    /\ Running
    /\ GoTo(w, "saveCursors")
    /\ \/ UNCHANGED <<files, history>>
       \/ /\ snap' = [snap EXCEPT ![win[w].cmd.date] = win[w].result]
          /\ kept' = kept \cup {<<win[w].cmd.date, win[w].result>>}
          /\ UNCHANGED <<absences, cursorFile, archive, registered, answers>>

SaveSnapshot(w) ==
    LET d == win[w].cmd.date
        s == win[w].result
        replaced == IF win[w].cmd.op = "force" THEN {<<d, snap[d]>>} ELSE {}
    IN
    /\ At(w, "saveSnapshot")
    /\ Running
    /\ \/ /\ snap' = [snap EXCEPT ![d] = s]
          /\ kept' = (kept \ replaced) \cup {<<d, s>>}
          /\ answers' = IF replaced = {} THEN answers ELSE [answers EXCEPT ![d] = {}]
          /\ GoTo(w, "saveCursors")
          /\ UNCHANGED <<absences, cursorFile, archive, registered>>
       \/ EndsInError(w)

\* Without the cursors the command ends in an error; the snapshot is there.
SaveCursors(w) ==
    /\ At(w, "saveCursors")
    /\ Running
    /\ \/ /\ cursorFile' = win[w].result.next
          /\ Shown(win[w].cmd.date, win[w].result)
          /\ GoTo(w, "end")
          /\ UNCHANGED <<absences, snap, archive, registered, kept>>
       \/ EndsInError(w)

-----------------------------------------------------------------------------
(* off add and off rm. *)

SaveAbsences(w) ==
    LET c == win[w].cmd IN
    /\ At(w, "saveAbsences")
    /\ Running
    /\ \/ /\ absences' = win[w].known
          /\ registered' = IF c.op = "offAdd" THEN registered \cup {c.absence}
                           ELSE {a \in registered : ~IsAbsent({a}, c.worker, c.date)}
          /\ GoTo(w, IF c.op = "offAdd" THEN "checkUrgent" ELSE "end")
          /\ UNCHANGED <<cursorFile, snap, archive, kept, answers>>
       \/ EndsInError(w)

\* Only an absence that starts today is looked up in the day's assignments.
CheckUrgent(w) ==
    LET a == win[w].cmd.absence IN
    /\ At(w, "checkUrgent")
    /\ Running
    /\ win' = [win EXCEPT ![w].step = "end",
                          ![w].told = /\ a.from = win[w].today
                                      /\ snap[a.from] # NoFile
                                      /\ snap[a.from].who = a.worker]
    /\ UNCHANGED <<files, history>>

-----------------------------------------------------------------------------
(* prune. *)

\* The old snapshots in the order of their dates, as lines.
LinesOf(dates) ==
    [i \in 1 .. Cardinality(dates) |->
        LET d == CHOOSE d \in dates : Cardinality({e \in dates : e < d}) = i - 1
        IN  <<d, snap[d]>>]

\* readWhole takes a file it cannot open for an empty one.
ReadAs(lines) ==
    IF ReadFaults THEN {lines, [i \in DOMAIN lines |-> Blank]} ELSE {lines}

\* The old snapshots that the earliest month has.
FirstMonth(due) == {d \in due : \A e \in due : MonthOf[d] <= MonthOf[e]}

\* On to the removal of what has been archived.
GoRemove(w, dates) ==
    win' = [win EXCEPT ![w].step = "remove", ![w].toRemove = dates,
                       ![w].due = @ \ dates]

\* A slip: the snapshots are removed though the archive has not been written.
ArchiveUnchecked(w) ==
    LET dates == FirstMonth(win[w].due) IN
    /\ At(w, "archive")
    /\ Running
    /\ archive' \in {archive, [m \in Month |-> IF m \in {MonthOf[d] : d \in dates}
                                               THEN archive[m] \o LinesOf(dates)
                                               ELSE archive[m]]}
    /\ GoRemove(w, dates)
    /\ UNCHANGED <<absences, cursorFile, snap, history>>

\* The archive of a month is read, extended and written as a whole.
Archive(w) ==
    LET dates == FirstMonth(win[w].due) IN
    /\ At(w, "archive")
    /\ Running
    /\ \/ /\ \E m \in {MonthOf[d] : d \in dates}, lines \in ReadAs(LinesOf(dates)) :
             \E before \in IF ReadFaults THEN {archive[m], <<>>} ELSE {archive[m]} :
                archive' = [archive EXCEPT ![m] = before \o lines]
          /\ GoRemove(w, dates)
          /\ UNCHANGED <<absences, cursorFile, snap, history>>
       \/ EndsInError(w)

\* One file after the other; a file that cannot be removed stays, unnoticed.
\* Then the next month has its turn.
RemoveNext(w) ==
    /\ At(w, "remove")
    /\ Running
    /\ \E d \in win[w].toRemove :
          /\ \A e \in win[w].toRemove : d <= e
          /\ snap' \in {snap, [snap EXCEPT ![d] = NoFile]}
          /\ win' = [win EXCEPT ![w].toRemove = @ \ {d},
                                ![w].step = IF win[w].toRemove # {d} THEN "remove"
                                            ELSE IF win[w].due = {} THEN "end"
                                            ELSE "archive"]
    /\ UNCHANGED <<absences, cursorFile, archive, history>>

-----------------------------------------------------------------------------

\* The clock moves on, by minutes and by days; the lock notices both.
TimePasses ==
    /\ Tick
    /\ today' \in {today, today + 1} \cap Date
    /\ UNCHANGED <<files, commands, win, history>>

CommandStep(w) ==
    \/ Lock(w) \/ Leave(w)
    \/ Load(w) \/ LoadFails(w)
    \/ Answer(w) \/ ShowStored(w) \/ Compute(w)
    \/ SaveSnapshot(w) \/ SaveCursors(w)
    \/ SaveAbsences(w) \/ CheckUrgent(w)
    \/ Archive(w) \/ RemoveNext(w)

Next ==
    \/ \E w \in Window :
          \/ \E c \in Command : Enter(w, c)
          \/ CommandStep(w)
          \/ Crash(w)
    \/ TimePasses

Spec == Init /\ [][Next]_vars

-----------------------------------------------------------------------------
(* Properties *)

Archived == UNION {{archive[m][i] : i \in DOMAIN archive[m]} : m \in Month}

OnRecord(d, s) == snap[d] = s \/ <<d, s>> \in Archived

\* What was once assigned, and not thrown away by assign --force, is in its
\* file or in the archive: no crash or failure of prune loses it (D-005).
NoHistoryLost == \A p \in kept : OnRecord(p[1], p[2])

\* A snapshot is replaced by assign --force alone, and goes away only when
\* its copy is in the archive (snapshot.h, DATA-SCHEMA.md:196).
SnapshotStable ==
    [][\A d \in Date : (snap[d] # NoFile /\ snap'[d] # snap[d]) =>
          \/ snap'[d] = NoFile /\ <<d, snap[d]>> \in Archived
          \/ \E w \in Window : /\ At(w, "saveSnapshot")
                               /\ win[w].cmd = [op |-> "force", date |-> d]]_vars

\* The cursor has never moved without the assignment that moved it being on
\* record (assign_service.cpp:140: the snapshot first).
CursorOnRecord ==
    cursorFile # 0 =>
        \E d \in Date, who \in Worker \cup {Nobody}, c \in 0 .. NWorkers :
            \/ OnRecord(d, [who |-> who, start |-> c, next |-> cursorFile])
            \/ OnRecord(d, [who |-> who, start |-> cursorFile, next |-> c])

\* Every absence registered or cancelled with success has its effect on the
\* file: no window writes back what it had read before another's change.
NoLostUpdate == absences = registered

\* A day is never assigned to somebody who, by the file of that moment, is
\* away: the absences a command computes from have not changed meanwhile.
SeesEveryAbsence ==
    [][\A d \in Date : (snap'[d] # snap[d] /\ snap'[d] # NoFile)
          => \A a \in absences : a.worker = snap'[d].who => d \notin a.from .. a.to]_vars

-----------------------------------------------------------------------------
(* What the documents say and the code does not do. *)

\* DESIGN.md:96: a day that is looked at again shows the same assignments,
\* unless assign --force has been given in between.
SameDaySameAnswer == \A d \in Date : Cardinality(answers[d]) <= 1

\* README.md:336: the commands that only look are not stopped.
ViewsNotBlocked ==
    \A w \in Window : phase[w] = "refused" => win[w].cmd.op # "view"

\* DECISIONS.md:86 (D-009): who registers an absence over an assignment that
\* has been made is told so.
UrgentIsTold ==
    \A w \in Window :
        (At(w, "end") /\ win[w].cmd.op = "offAdd" /\ win[w].cmd.absence \in absences)
        => LET a == win[w].cmd.absence IN
           (/\ today = win[w].today
            /\ a.from <= today /\ today <= a.to
            /\ snap[today] # NoFile
            /\ snap[today].who = a.worker) => win[w].told

=============================================================================
