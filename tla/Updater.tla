-------------------------------- MODULE Updater --------------------------------
(***************************************************************************)
(* updater.exe: moves the files of the staging folder into the program     *)
(* folder, one file operation per step.  Renames fail, the process may be  *)
(* killed at any point, and the user starts it again on what is left.      *)
(* Who fills the staging folder is UpdateService's matter.                 *)
(***************************************************************************)
CONSTANTS
    File,       \* names of what may lie in the staging folder
    Program,    \* the files the program consists of; others are moved like
                \* them, but what lies under their names elsewhere is not
                \* recorded
    Folder,     \* a folder in there
    Exe         \* the one the updater starts at the end

ASSUME ProgramAssumption ==
    Folder \in File /\ Program \subseteq File \ {Folder} /\ Exe \in Program

None == "none"      \* no such file

VARIABLES
    installed,      \* program folder: file -> the version it is of
    backup,         \* its .old files: file -> version
    staged,         \* staging folder: file or folder -> version
    current,        \* file being replaced, or NoOne
    hasBackup,      \* Replacement::backup of that file is set
    applied,        \* Replacement of each file done in this run: has a backup?
    pc,             \* where the process is
    launched        \* history: the version the program was last started as

folders == <<installed, backup, staged>>
process == <<current, hasBackup, applied, pc, launched>>

NoOne == "no file"
Emptied == [f \in File |-> None]
NoFiles == [f \in Program |-> None]

InPlace(f) == f \in Program /\ installed[f] # None

AtRest == {"idle", "failed", "nothing", "relaunched"}

UpdaterInit ==
    /\ backup = NoFiles
    /\ staged = Emptied
    /\ current = NoOne
    /\ hasBackup = FALSE
    /\ applied = {}
    /\ pc = "idle"
    /\ launched = installed[Exe]

\* The parent has ended, or is not waited for any longer.
Begin ==
    /\ pc \in AtRest
    /\ pc' = "next"
    /\ UNCHANGED <<folders, current, hasBackup, applied, launched>>

\* The parent is still there after 30 seconds.
ParentStays ==
    /\ pc \in AtRest
    /\ pc' = "idle"
    /\ UNCHANGED <<folders, current, hasBackup, applied, launched>>

\* What the process has in its memory is gone with it.
End(how) ==
    /\ pc' = how
    /\ current' = NoOne
    /\ hasBackup' = FALSE
    /\ applied' = {}

\* A slip: an .old file is removed whether there is a newer one or not.
NextFileForgetsOld(f) ==
    /\ pc = "next"
    /\ f # Folder
    /\ staged[f] # None
    /\ current' = f
    /\ hasBackup' = InPlace(f)
    /\ pc' = "dropBackup"
    /\ UNCHANGED <<folders, applied, launched>>

\* The next file of the staging folder, in the order the folder gives them.
\* What is no regular file is passed over.
NextFile(f) ==
    /\ pc = "next"
    /\ f # Folder
    /\ staged[f] # None
    /\ current' = f
    /\ hasBackup' = InPlace(f)
    /\ pc' = IF InPlace(f) THEN "dropBackup" ELSE "moveIn"
    /\ UNCHANGED <<folders, applied, launched>>

\* An .old file from before is removed, if it can be.
DropBackup ==
    /\ pc = "dropBackup"
    /\ backup' \in {backup, [backup EXCEPT ![current] = None]}
    /\ pc' = "moveAside"
    /\ UNCHANGED <<installed, staged, current, hasBackup, applied, launched>>

MoveAside ==
    /\ pc = "moveAside"
    /\ backup' = [backup EXCEPT ![current] = installed[current]]
    /\ installed' = [installed EXCEPT ![current] = None]
    /\ pc' = "moveIn"
    /\ UNCHANGED <<staged, current, hasBackup, applied, launched>>

MoveAsideFails ==
    /\ pc = "moveAside"
    /\ End("failed")
    /\ UNCHANGED <<folders, launched>>

MoveIn ==
    /\ pc = "moveIn"
    /\ staged[current] # None
    /\ installed' = IF current \in Program
                    THEN [installed EXCEPT ![current] = staged[current]]
                    ELSE installed
    /\ staged' = [staged EXCEPT ![current] = None]
    /\ applied' = applied \cup {<<current, hasBackup>>}
    /\ current' = NoOne
    /\ hasBackup' = FALSE
    /\ pc' = "next"
    /\ UNCHANGED <<backup, launched>>

\* A slip: a failure empties the staging folder.
MoveInFailsEmptying ==
    /\ pc = "moveIn"
    /\ End("failed")
    /\ staged' = Emptied
    /\ UNCHANGED <<installed, backup, launched>>

\* What was moved aside is moved back, if it can be.
MoveInFails ==
    /\ pc = "moveIn"
    /\ \/ UNCHANGED <<installed, backup>>
       \/ /\ hasBackup
          /\ installed' = [installed EXCEPT ![current] = backup[current]]
          /\ backup' = [backup EXCEPT ![current] = None]
    /\ End("failed")
    /\ UNCHANGED <<staged, launched>>

\* No file is left, whatever there is besides; or the staging folder is not
\* there or cannot be listed, which looks like an empty one.
NoMoreFiles ==
    /\ pc = "next"
    /\ applied = {} \/ \A f \in File \ {Folder} : staged[f] = None
    /\ pc' = IF applied = {} THEN "nothing" ELSE "cleanUp"
    /\ UNCHANGED <<folders, current, hasBackup, applied, launched>>

CleanUp(f) ==
    /\ pc = "cleanUp"
    /\ <<f, TRUE>> \in applied
    /\ backup' \in {backup, [backup EXCEPT ![f] = None]}
    /\ applied' = applied \ {<<f, TRUE>>}
    /\ UNCHANGED <<installed, staged, current, hasBackup, pc, launched>>

\* remove_all: what cannot be removed stays, and nobody notices.
RemoveAll ==
    \E left \in SUBSET {f \in File : staged[f] # None} :
        staged' = [f \in File |-> IF f \in left THEN staged[f] ELSE None]

\* The staging folder is removed with all that was passed over.  The program may fail to start.
Relaunch ==
    /\ pc = "cleanUp"
    /\ \A f \in File : <<f, TRUE>> \notin applied
    /\ End("relaunched")
    /\ launched' \in {launched, installed[Exe]} \ {None}
    /\ RemoveAll
    /\ UNCHANGED <<installed, backup>>

Killed ==
    /\ pc \notin AtRest
    /\ End("idle")
    /\ UNCHANGED <<folders, launched>>

UpdateStep ==
    \/ \E f \in File : NextFile(f) \/ CleanUp(f)
    \/ DropBackup
    \/ MoveAside \/ MoveAsideFails
    \/ MoveIn \/ MoveInFails
    \/ NoMoreFiles \/ Relaunch

=============================================================================
