------------------------------ MODULE AtomicFile ------------------------------
(***************************************************************************)
(* What atomicWrite promises about a data file (D-008): a save takes       *)
(* effect at one moment or not at all, and its answer says which.          *)
(***************************************************************************)
CONSTANTS Content, NoFile

VARIABLES
    file,       \* what a reader finds: a whole content, or no file
    pending,    \* the content of the current save
    phase       \* "idle", "running", "committed", "ok" or "failed"

vars == <<file, pending, phase>>

Init ==
    /\ file \in Content \cup {NoFile}
    /\ pending \in Content
    /\ phase = "idle"

AtRest == phase \in {"idle", "ok", "failed"}

Begin ==
    /\ AtRest
    /\ phase' = "running"
    /\ pending' \in Content
    /\ UNCHANGED file

\* The file is nobody's while no save runs: people edit it.
HandEdit ==
    /\ AtRest
    /\ phase' = "idle"
    /\ file' \in Content
    /\ UNCHANGED pending

Commit ==
    /\ phase = "running"
    /\ phase' = "committed"
    /\ file' = pending
    /\ UNCHANGED pending

Succeed ==
    /\ phase = "committed"
    /\ phase' = "ok"
    /\ UNCHANGED <<file, pending>>

Fail ==
    /\ phase = "running"
    /\ phase' = "failed"
    /\ UNCHANGED <<file, pending>>

\* The process is gone; the next one begins anew.
Crash ==
    /\ phase \in {"running", "committed"}
    /\ phase' = "idle"
    /\ UNCHANGED <<file, pending>>

Next ==
    \/ Begin
    \/ HandEdit
    \/ Commit
    \/ Succeed
    \/ Fail
    \/ Crash

Spec == Init /\ [][Next]_vars

=============================================================================
