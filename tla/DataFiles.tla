------------------------------- MODULE DataFiles -------------------------------
(***************************************************************************)
(* One data file through its life: commands load it, change what they hold *)
(* in memory and save it with atomicWrite; people edit it by hand and      *)
(* other versions of the program write it in between.                      *)
(***************************************************************************)
EXTENDS AtomicWrite, JsonIo

CONSTANTS
    Kind,           \* the data files looked at
    First(_),       \* kind -> what the file may hold at first
    Edits(_),       \* kind -> what it may hold after an edit
    Fresh(_),       \* kind -> the entry a command adds
    MaxCommands,
    MaxEdits

\* Text the parser refuses.
Broken == <<"broken", 0>>

VARIABLES
    kind,
    before,     \* history: what the file said when the command loaded it
    meant,      \* history: what the command wanted it to say
    commands, edits

fileVars == <<target, tmp, bak, content, pc, prev, overlooked, kind, before, meant, commands, edits>>

-----------------------------------------------------------------------------
(* Load and save, by kind of file *)

Load(k, root) ==
    CASE k = "config" -> LoadConfig(root)
      [] k = "workers" -> LoadWorkers(root)
      [] k = "tasks" -> LoadTasks(root)
      [] k = "absences" -> LoadAbsences(root)
      [] k = "cursors" -> LoadCursors(root)
      [] k = "snapshot" -> LoadSnapshot(root)

ToJson(k, value) ==
    CASE k = "config" -> ConfigJson(value)
      [] k = "workers" -> WorkersJson(value)
      [] k = "tasks" -> TasksJson(value)
      [] k = "absences" -> AbsencesJson(value)
      [] k = "cursors" -> CursorsJson(value)
      [] k = "snapshot" -> SnapshotJson(value)

Report(k, root) ==
    CASE k = "config" -> ConfigReport(root)
      [] k = "workers" -> WorkersReport(root)
      [] k = "tasks" -> TasksReport(root)
      [] OTHER -> VersionReport(root)

\* The two files under state/ are not there before the first computation.
Missing(k) ==
    IF k = "cursors" THEN [version |-> SchemaVersion, cursors |-> <<>>] ELSE NoFile

Loaded(k, file) == IF file = NoFile THEN Missing(k) ELSE Load(k, file)

\* Otherwise the command ends before it changes anything.
Readable(k, file) == file # Broken /\ (file = NoFile => k \in {"cursors", "snapshot"})

Unused(entries, id) == \A i \in DOMAIN entries : entries[i].id # id

\* What commands make of what they loaded: an entry more, of an id that no other
\* has, or one less, a field set; the day computed with --force, which reads
\* nothing of the old one.
Changed(k, v) ==
    CASE k = "config" -> {[v EXCEPT !.categories = Append(@, c)]
                : c \in {c \in {Fresh(k)} : Unused(v.categories, c.id)}}
            \cup {[v EXCEPT !.timeSlots = Tail(@)] : i \in DOMAIN v.timeSlots \cap {1}}
      [] k = "workers" -> {[v EXCEPT !.workers = Append(@, w)]
                : w \in {w \in {Fresh(k)} : Unused(v.workers, w.id)}}
            \cup {[v EXCEPT !.workers[i].weeklyOff = <<1>>] : i \in DOMAIN v.workers \cap {1}}
      [] k = "tasks" -> {[v EXCEPT !.tasks = NormalizeConflicts(Append(@, t))]
                : t \in {t \in {Fresh(k)} : Unused(v.tasks, t.id)}}
            \cup {[v EXCEPT !.taskSets = Append(@, s)]
                : s \in {s \in {[id |-> "C", displayName |-> "C"]} : Unused(v.taskSets, s.id)}}
      [] k = "absences" -> {[v EXCEPT !.absences = Append(@, Fresh(k))]}
            \cup {[v EXCEPT !.absences = Tail(@)] : i \in DOMAIN v.absences \cap {1}}
      [] k = "cursors" -> {[v EXCEPT !.cursors =
                [s \in DOMAIN @ \cup {"A"} |-> IF s = "A" THEN 1 ELSE @[s]]]}
      [] k = "snapshot" -> {Fresh(k)}

-----------------------------------------------------------------------------

FilesInit ==
    /\ kind \in Kind
    /\ target \in First(kind)
    /\ tmp = NoFile
    /\ bak = NoFile
    /\ content \in First(kind) \ {NoFile}
    /\ pc = "idle"
    /\ prev = target
    /\ overlooked = FALSE
    /\ before = Loaded(kind, target)
    /\ meant = before
    /\ commands = 0
    /\ edits = 0

\* A command of the program that changes this file.
Command ==
    /\ commands < MaxCommands
    /\ Readable(kind, target)
    /\ before' = Loaded(kind, target)
    /\ meant' \in Changed(kind, before')
    /\ Begin(ToJson(kind, meant'))
    /\ commands' = commands + 1
    /\ UNCHANGED <<kind, edits>>

Edit ==
    /\ edits < MaxEdits
    /\ \E text \in Edits(kind) :
        /\ HandEdit(text)
        /\ before' = IF Readable(kind, text) THEN Loaded(kind, text) ELSE NoFile
    /\ meant' = before'
    /\ edits' = edits + 1
    /\ UNCHANGED <<kind, commands>>

Save ==
    /\ SaveStep \/ Crash
    /\ UNCHANGED <<kind, before, meant, commands, edits>>

FilesNext == Command \/ Edit \/ Save

FilesSpec == FilesInit /\ [][FilesNext]_fileVars

-----------------------------------------------------------------------------
(* Properties *)

\* Tasks of one id exclude the same others.  Where an id is there twice with
\* two lists, which the validator reports, a second load makes more of them than
\* the first did.
OneListPerId(tasks) ==
    \A i, j \in DOMAIN tasks : tasks[i].id = tasks[j].id =>
        ToSet(tasks[i].conflictsWith) = ToSet(tasks[j].conflictsWith)

Plain(k, value) == k = "tasks" => OneListPerId(value.tasks)

\* Between any two commands the file says, to the program that loads it, what
\* the last command meant when that one succeeded, and what it said before when
\* it failed; after a crash one of the two.  This holds whatever an earlier hand
\* edit had left out, mistyped or repeated (json_io.cpp: load, change, save),
\* but for one id of two tasks with two lists of conflicts.
LoadsAsMeant ==
    pc \in Ended /\ target # Broken /\ Plain(kind, before) =>
        LET said == Loaded(kind, target)
        IN  /\ pc = "ok" => said = meant
            /\ pc = "failed" => said = before
            /\ pc = "idle" => said = before \/ said = meant

-----------------------------------------------------------------------------
(* What the documents say and the code does not do. *)

\* migration.cpp:43: a file of a newer version is not read by guesswork, which
\* would damage it; no command may write over one.
NewerFilesKept ==
    pc \in Running /\ prev # NoFile => "newer" \notin VersionReport(prev)

=============================================================================
