------------------------------ MODULE WorkerAdmin ------------------------------
(***************************************************************************)
(* The commands `worker` and `off`: who an id stands for.  Ids are what    *)
(* absences and stored assignments refer to people by; the program hands   *)
(* them out, and `worker rm --hard` takes them back.                       *)
(***************************************************************************)
EXTENDS Integers, Sequences, FiniteSets, SequencesExt

CONSTANTS
    Person,         \* the people, in the flesh
    LastId          \* ids are w_1, w_2, ...: bound on the number

ASSUME IdsAssumption == LastId \in Nat

Id == 1 .. LastId

VARIABLES
    workers,        \* workers.json: sequence of [id, active, person]
    absences,       \* absences.json, a period left out: [workerId, person]
    records,        \* assignments in stored snapshots: [workerId, person]
    hardRemoved     \* history: ids that were taken back

vars == <<workers, absences, records, hardRemoved>>

\* `person` is no field of a file: it says who is meant.
Entry(id, p) == [id |-> id, active |-> TRUE, person |-> p]

Ids == {workers[i].id : i \in DOMAIN workers}

Employed == {workers[i].person : i \in DOMAIN workers}

Init ==
    /\ workers = <<>>
    /\ absences = {}
    /\ records = {}
    /\ hardRemoved = {}

\* The first number that is not taken.
FreeId == CHOOSE n \in Id : n \notin Ids /\ \A m \in 1 .. n - 1 : m \in Ids

\* A slip: an id is not checked for being taken.
JoinUnchecked(id, p) ==
    /\ p \notin Employed
    /\ workers' = Append(workers, Entry(id, p))
    /\ UNCHANGED <<absences, records, hardRemoved>>

\* At the end of the list: its order is the order of the rotation.
Join(id, p) ==
    /\ p \notin Employed
    /\ id \notin Ids
    /\ workers' = Append(workers, Entry(id, p))
    /\ UNCHANGED <<absences, records, hardRemoved>>

AddWorker(p) == Ids # Id /\ Join(FreeId, p)

\* With --id.
AddWorkerAs(id, p) == Join(id, p)

\* The first entry under an id: what a search through the list ends at.
FoundAt(id, i) == workers[i].id = id /\ \A j \in 1 .. i - 1 : workers[j].id # id

EditWorker(id, active) ==
    /\ \E i \in DOMAIN workers :
          FoundAt(id, i) /\ workers' = [workers EXCEPT ![i].active = active]
    /\ UNCHANGED <<absences, records, hardRemoved>>

\* A slip: the entry is erased with and without --hard.
RemoveWorkerAlways(id, hard) ==
    /\ \E i \in DOMAIN workers : FoundAt(id, i) /\ workers' = RemoveAt(workers, i)
    /\ hardRemoved' = IF hard THEN hardRemoved \cup {id} ELSE hardRemoved
    /\ UNCHANGED <<absences, records>>

\* Without --hard the worker stays on file.
RemoveWorker(id, hard) ==
    IF hard
    THEN /\ \E i \in DOMAIN workers : FoundAt(id, i) /\ workers' = RemoveAt(workers, i)
         /\ hardRemoved' = hardRemoved \cup {id}
         /\ UNCHANGED <<absences, records>>
    ELSE EditWorker(id, FALSE)

\* A reference to the entry at place i.
RefTo(i) == [workerId |-> workers[i].id, person |-> workers[i].person]

\* off add: the worker has been found on file, active or not.
AddAbsence(id) ==
    /\ \E i \in DOMAIN workers :
          workers[i].id = id /\ absences' = absences \cup {RefTo(i)}
    /\ UNCHANGED <<workers, records, hardRemoved>>

\* off rm: every absence on that day under the id.
RemoveAbsence(id) ==
    /\ id \in Ids
    /\ absences' = {a \in absences : a.workerId # id}
    /\ UNCHANGED <<workers, records, hardRemoved>>

IsAbsent(id) == \E a \in absences : a.workerId = id

\* A day is assigned: the active and present get work, and go on record.
AssignDay ==
    /\ records' = records \cup {RefTo(i) : i \in {k \in DOMAIN workers :
                      workers[k].active /\ ~IsAbsent(workers[k].id)}}
    /\ UNCHANGED <<workers, absences, hardRemoved>>

Next ==
    \/ \E p \in Person : AddWorker(p)
    \/ \E id \in Id, p \in Person : AddWorkerAs(id, p)
    \/ \E id \in Id, active \in BOOLEAN : EditWorker(id, active)
    \/ \E id \in Id, hard \in BOOLEAN : RemoveWorker(id, hard)
    \/ \E id \in Id : AddAbsence(id) \/ RemoveAbsence(id)
    \/ AssignDay

Spec == Init /\ [][Next]_vars

\* workerNameOf: whom a stored id is shown as; nobody when it is not on file.
ShownAs(id) == {workers[i].person : i \in {k \in DOMAIN workers : workers[k].id = id}}

-----------------------------------------------------------------------------
(* Properties *)

Reference == [workerId : Id, person : Person]

TypeOK ==
    /\ workers \in Seq([id : Id, active : BOOLEAN, person : Person])
    /\ absences \subseteq Reference
    /\ records \subseteq Reference
    /\ hardRemoved \subseteq Id

\* Unless the id was taken back with --hard, a record and an absence lead to
\* the person they were made for: an id is never given to two people.
ReferencesHold ==
    \A r \in records \cup absences :
        r.workerId \notin hardRemoved => ShownAs(r.workerId) = {r.person}

\* Two entries never share an id, though ids are chosen by hand and by the
\* program, in any order.
OneEntryPerId ==
    \A i, j \in DOMAIN workers : workers[i].id = workers[j].id => i = j

-----------------------------------------------------------------------------
(* What the documents say and the code does not do. *)

\* main.cpp:678: the records of a worker removed with --hard show no name.
NoOneElsesName ==
    \A r \in records : ShownAs(r.workerId) \subseteq {r.person}

\* ROADMAP.md:202: the commands cannot make broken data, such as an absence of
\* a worker who is not on file (validator, checkReferences).
AbsencesHaveWorkers == \A a \in absences : a.workerId \in Ids

=============================================================================
