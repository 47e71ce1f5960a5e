------------------------------ MODULE AtomicWrite ------------------------------
(***************************************************************************)
(* storage::atomicWrite, one file operation per step: fill <target>.tmp,   *)
(* copy the target to <target>.bak, replace the target.  Every operation   *)
(* may fail, the process may die between and inside them, and a later save *)
(* meets what the earlier ones left behind.  One process at a time saves a *)
(* file (module WriteLock).                                                *)
(***************************************************************************)
CONSTANTS
    Content,    \* contents a data file may have
    NoFile,     \* stands for a file that is not there
    Torn        \* a file that was opened or copied to and not finished

ASSUME NoFileAssumption == NoFile \notin Content

ASSUME TornAssumption == Torn \notin Content /\ Torn # NoFile

VARIABLES
    target, tmp, bak,   \* the three files
    content,            \* what the current save writes
    pc,                 \* next operation, or how the last save ended
    prev,               \* history: target when the save began
    overlooked          \* history: the save did not find a target that is there

vars == <<target, tmp, bak, content, pc, prev, overlooked>>

Ended == {"idle", "ok", "failed"}

Running == {"open", "fill", "look", "dropBackup", "copy", "copying", "swap"}

Init ==
    /\ target \in Content \cup {NoFile}
    /\ tmp = NoFile
    /\ bak = NoFile
    /\ content \in Content
    /\ pc = "idle"
    /\ prev = target
    /\ overlooked = FALSE

Begin(c) ==
    /\ pc \in Ended
    /\ pc' = "open"
    /\ content' = c
    /\ prev' = target
    /\ overlooked' = FALSE
    /\ UNCHANGED <<target, tmp, bak>>

\* The folder cannot be made, or the temporary file cannot be opened.
OpenFails ==
    /\ pc = "open"
    /\ pc' = "failed"
    /\ UNCHANGED <<target, tmp, bak, content, prev, overlooked>>

\* A slip: the file itself is opened for writing.
OpenTarget ==
    /\ pc = "open"
    /\ pc' = "fill"
    /\ target' = Torn
    /\ UNCHANGED <<tmp, bak, content, prev, overlooked>>

OpenTmp ==
    /\ pc = "open"
    /\ pc' = "fill"
    /\ tmp' = Torn
    /\ UNCHANGED <<target, bak, content, prev, overlooked>>

\* On an error the temporary file is removed, which may fail unnoticed.
GiveUp ==
    /\ pc' = "failed"
    /\ tmp' \in {NoFile, tmp}
    /\ UNCHANGED <<target, content, prev, overlooked>>

FillTmp ==
    /\ pc = "fill"
    /\ pc' = "look"
    /\ tmp' = content
    /\ UNCHANGED <<target, bak, content, prev, overlooked>>

FillFails ==
    /\ pc = "fill"
    /\ GiveUp
    /\ UNCHANGED bak

\* exists(target, ec): an error, which nobody looks at, is answered like a file
\* that is not there, and what there is to back up is passed over.
LookForTarget ==
    /\ pc = "look"
    /\ \/ target # NoFile /\ pc' = "dropBackup" /\ UNCHANGED overlooked
       \/ pc' = "swap" /\ overlooked' = (target # NoFile)
    /\ UNCHANGED <<target, tmp, bak, content, prev>>

\* The old backup goes first; a failure is left to the copy to notice.
DropBackup ==
    /\ pc = "dropBackup"
    /\ pc' = "copy"
    /\ bak' \in {NoFile, bak}
    /\ UNCHANGED <<target, tmp, content, prev, overlooked>>

\* A slip: the backup is made by renaming.
StartRename ==
    /\ pc = "copy"
    /\ pc' = "copying"
    /\ bak' = target
    /\ target' = NoFile
    /\ UNCHANGED <<tmp, content, prev, overlooked>>

StartCopy ==
    /\ pc = "copy"
    /\ pc' = "copying"
    /\ bak' = Torn
    /\ UNCHANGED <<target, tmp, content, prev, overlooked>>

FinishCopy ==
    /\ pc = "copying"
    /\ pc' = "swap"
    /\ bak' = target
    /\ UNCHANGED <<target, tmp, content, prev, overlooked>>

\* A slip: a backup that cannot be made is passed over.
CopyPassedOver ==
    /\ pc \in {"copy", "copying"}
    /\ pc' = "swap"
    /\ UNCHANGED <<target, tmp, bak, content, prev, overlooked>>

CopyFails ==
    /\ pc \in {"copy", "copying"}
    /\ GiveUp
    /\ UNCHANGED bak

\* g_replaceFile: the target is replaced in one operation of the file system.
Swap ==
    /\ pc = "swap"
    /\ pc' = "swapped"
    /\ target' = tmp
    /\ tmp' = NoFile
    /\ UNCHANGED <<bak, content, prev, overlooked>>

SwapFails ==
    /\ pc = "swap"
    /\ GiveUp
    /\ UNCHANGED bak

Return ==
    /\ pc = "swapped"
    /\ pc' = "ok"
    /\ UNCHANGED <<target, tmp, bak, content, prev, overlooked>>

\* The process dies; the files stay as they are.
Crash ==
    /\ pc \notin Ended
    /\ pc' = "idle"
    /\ UNCHANGED <<target, tmp, bak, content, prev, overlooked>>

\* Somebody edits the file, or another version of the program writes it.
HandEdit(c) ==
    /\ pc \in Ended
    /\ pc' = "idle"
    /\ target' = c
    /\ UNCHANGED <<tmp, bak, content, prev, overlooked>>

SaveStep ==
    \/ OpenFails \/ OpenTmp
    \/ FillTmp \/ FillFails
    \/ LookForTarget
    \/ DropBackup \/ StartCopy \/ FinishCopy \/ CopyFails
    \/ Swap \/ SwapFails
    \/ Return

Next ==
    \/ \E c \in Content : Begin(c) \/ HandEdit(c)
    \/ SaveStep
    \/ Crash

Spec == Init /\ [][Next]_vars

-----------------------------------------------------------------------------
(* Properties *)

File == Content \cup {NoFile, Torn}

TypeOK ==
    /\ target \in Content \cup {NoFile}
    /\ tmp \in File
    /\ bak \in File
    /\ content \in Content
    /\ pc \in Ended \cup Running \cup {"swapped"}
    /\ prev \in Content \cup {NoFile}
    /\ overlooked \in BOOLEAN

Phase == IF pc \in Running THEN "running"
         ELSE IF pc = "swapped" THEN "committed" ELSE pc

\* The three files implement one atomic file.
Atomic == INSTANCE AtomicFile WITH file <- target, pending <- content, phase <- Phase

\* A save takes effect at one moment or not at all, and its answer tells which
\* (atomic_write.h: the original stays at every step that fails).
ImplementsAtomicFile == Atomic!Spec

\* After a save over an existing file the backup is what that save replaced:
\* neither torn nor of an earlier generation, whatever failed or died before,
\* unless the test whether the file exists has failed in that very save.
BackupIsPrevious == pc = "ok" /\ prev # NoFile /\ ~overlooked => bak = prev

-----------------------------------------------------------------------------
(* What the documents say and the code does not do. *)

\* atomic_write.cpp:63: nor is a backup that was not made passed over in silence.
NeverSilent == pc = "ok" /\ prev # NoFile => bak = prev

\* atomic_write.cpp:63: a backup that cannot be made does not stop the save.
SaveSurvivesBackupFailure ==
    [][(pc \in {"copy", "copying"}) => pc' # "failed"]_vars

=============================================================================
