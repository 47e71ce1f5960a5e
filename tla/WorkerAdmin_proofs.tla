--------------------------- MODULE WorkerAdmin_proofs ---------------------------
(***************************************************************************)
(* Whom an id stands for, for any number of people and ids, and commands   *)
(* in any order.                                                           *)
(***************************************************************************)
EXTENDS WorkerAdmin, NaturalsInduction, WellFoundedInduction, TLAPS

WorkerEntry == [id : Id, active : BOOLEAN, person : Person]

\* Somebody of that description is on file.
OnFile(id, p) == \E i \in DOMAIN workers : workers[i].id = id /\ workers[i].person = p

\* Whoever is referred to is on file under the id of the reference, unless the
\* id was taken back.
ReferencesLead ==
    \A r \in records \cup absences :
        r.workerId \notin hardRemoved => OnFile(r.workerId, r.person)

AdminInv == TypeOK /\ OneEntryPerId /\ ReferencesLead

-----------------------------------------------------------------------------

\* While there is an id left, the number the program finds is one, and free.
LEMMA FreeIdIsFree ==
    ASSUME Ids # Id, Ids \subseteq Id
    PROVE  FreeId \in Id /\ FreeId \notin Ids
<1>. DEFINE T == {n \in Nat : n \in Id \ Ids}
<1>1. PICK m \in T : \A k \in T : <<k, m>> \notin OpToRel(<, Nat)
  <2>1. IsWellFoundedOn(OpToRel(<, Nat), Nat)
    BY NatLessThanWellFounded
  <2>2. PICK n \in Id : n \notin Ids
    OBVIOUS
  <2>3. n \in T
    BY <2>2, IdsAssumption DEF Id
  <2>. QED BY <2>1, <2>3, WFMin
<1>2. \A k \in 1 .. m - 1 : k \in Ids
  <2>. SUFFICES ASSUME NEW k \in 1 .. m - 1, k \notin Ids PROVE FALSE
    OBVIOUS
  <2>1. k \in Nat /\ k < m /\ k \in Id
    BY IdsAssumption DEF Id
  <2>2. k \in T /\ <<k, m>> \in OpToRel(<, Nat)
    BY <2>1 DEF OpToRel
  <2>. QED BY <1>1, <2>2
<1>3. m \in Id /\ m \notin Ids
  OBVIOUS
<1>. QED BY <1>2, <1>3 DEF FreeId

LEMMA InvInit == Init => AdminInv
BY DEF Init, AdminInv, TypeOK, OneEntryPerId, ReferencesLead

\* What an edit or a new entry at the end leaves of the references: the entries
\* there were are still there, with the same id and person.
Kept(old, new) ==
    \A i \in DOMAIN old : i \in DOMAIN new /\ new[i].id = old[i].id
                                           /\ new[i].person = old[i].person

LEMMA KeptReferences ==
    ASSUME ReferencesLead, Kept(workers, workers'),
           UNCHANGED <<absences, records, hardRemoved>>
    PROVE  ReferencesLead'
BY DEF ReferencesLead, OnFile, Kept

LEMMA JoinKeeps ==
    ASSUME AdminInv, NEW id \in Id, NEW p \in Person, Join(id, p)
    PROVE  AdminInv'
<1>1. workers \in Seq(WorkerEntry)
  BY DEF AdminInv, TypeOK, WorkerEntry
<1>2. Entry(id, p) \in WorkerEntry /\ Entry(id, p).id = id
  BY DEF Entry, WorkerEntry
<1>3. workers' = Append(workers, Entry(id, p)) /\ UNCHANGED <<absences, records, hardRemoved>>
  BY DEF Join
<1>4. /\ workers' \in Seq(WorkerEntry)
      /\ Len(workers') = Len(workers) + 1
      /\ workers'[Len(workers) + 1].id = id
      /\ \A i \in DOMAIN workers : workers'[i] = workers[i] /\ workers[i].id # id
  BY <1>1, <1>2, <1>3 DEF Join, Ids
<1>5. TypeOK'
  BY <1>3, <1>4 DEF AdminInv, TypeOK, WorkerEntry
<1>6. OneEntryPerId'
  <2>. SUFFICES ASSUME NEW i \in DOMAIN workers', NEW j \in DOMAIN workers',
                       workers'[i].id = workers'[j].id
                PROVE  i = j
    BY DEF OneEntryPerId
  <2>1. /\ i \in DOMAIN workers \/ i = Len(workers) + 1
        /\ j \in DOMAIN workers \/ j = Len(workers) + 1
    BY <1>1, <1>4
  <2>. QED BY <1>4, <2>1 DEF AdminInv, OneEntryPerId
<1>7. ReferencesLead'
  <2>1. Kept(workers, workers')
    BY <1>1, <1>4 DEF Kept
  <2>. QED BY <1>3, <2>1, KeptReferences DEF AdminInv
<1>. QED BY <1>5, <1>6, <1>7 DEF AdminInv

LEMMA EditKeeps ==
    ASSUME AdminInv, NEW id \in Id, NEW active \in BOOLEAN, EditWorker(id, active)
    PROVE  AdminInv'
<1>1. workers \in Seq(WorkerEntry)
  BY DEF AdminInv, TypeOK, WorkerEntry
<1>2. PICK i \in DOMAIN workers : workers' = [workers EXCEPT ![i].active = active]
  BY DEF EditWorker
<1>3. UNCHANGED <<absences, records, hardRemoved>>
  BY DEF EditWorker
<1>4. /\ workers' \in Seq(WorkerEntry)
      /\ DOMAIN workers' = DOMAIN workers
      /\ \A j \in DOMAIN workers : /\ workers'[j].id = workers[j].id
                                   /\ workers'[j].person = workers[j].person
  <2>1. [workers[i] EXCEPT !.active = active] \in WorkerEntry
    <3>1. workers[i] \in WorkerEntry
      BY <1>1
    <3>. QED BY <3>1 DEF WorkerEntry
  <2>2. workers' = [workers EXCEPT ![i] = [workers[i] EXCEPT !.active = active]]
    BY <1>1, <1>2
  <2>. QED BY <1>1, <2>1, <2>2 DEF WorkerEntry
<1>5. TypeOK'
  BY <1>3, <1>4 DEF AdminInv, TypeOK, WorkerEntry
<1>6. OneEntryPerId'
  BY <1>4 DEF AdminInv, OneEntryPerId
<1>7. ReferencesLead'
  <2>1. Kept(workers, workers')
    BY <1>4 DEF Kept
  <2>. QED BY <1>3, <2>1, KeptReferences DEF AdminInv
<1>. QED BY <1>5, <1>6, <1>7 DEF AdminInv

LEMMA RemoveKeeps ==
    ASSUME AdminInv, NEW id \in Id, NEW hard \in BOOLEAN, RemoveWorker(id, hard)
    PROVE  AdminInv'
<1>1. CASE ~hard
  BY <1>1, EditKeeps DEF RemoveWorker
<1>2. CASE hard
  <2>1. workers \in Seq(WorkerEntry)
    BY DEF AdminInv, TypeOK, WorkerEntry
  <2>2. PICK i \in DOMAIN workers : workers[i].id = id /\ workers' = RemoveAt(workers, i)
    BY <1>2 DEF RemoveWorker, FoundAt
  <2>3. hardRemoved' = hardRemoved \cup {id} /\ UNCHANGED <<absences, records>>
    BY <1>2 DEF RemoveWorker
  <2>4. /\ workers' \in Seq(WorkerEntry)
        /\ Len(workers') = Len(workers) - 1
        /\ \A j \in 1 .. Len(workers') : workers'[j] = workers[IF j < i THEN j ELSE j + 1]
    <3>. DEFINE front == SubSeq(workers, 1, i - 1)
                back  == SubSeq(workers, i + 1, Len(workers))
    <3>1. /\ front \in Seq(WorkerEntry) /\ Len(front) = i - 1
          /\ \A j \in 1 .. i - 1 : front[j] = workers[j]
      BY <2>1
    <3>2. /\ back \in Seq(WorkerEntry) /\ Len(back) = Len(workers) - i
          /\ \A j \in 1 .. Len(workers) - i : back[j] = workers[j + i]
      BY <2>1
    <3>3. workers' = front \o back
      BY <2>2 DEF RemoveAt
    <3>. HIDE DEF front, back
    <3>. QED BY <2>1, <3>1, <3>2, <3>3
  <2>5. TypeOK'
    BY <2>3, <2>4 DEF AdminInv, TypeOK, WorkerEntry
  <2>6. OneEntryPerId'
    <3>. SUFFICES ASSUME NEW j \in DOMAIN workers', NEW k \in DOMAIN workers',
                         workers'[j].id = workers'[k].id
                  PROVE  j = k
      BY DEF OneEntryPerId
    <3>. DEFINE from(n) == IF n < i THEN n ELSE n + 1
    <3>1. /\ from(j) \in DOMAIN workers /\ from(k) \in DOMAIN workers
          /\ workers[from(j)].id = workers[from(k)].id
      BY <2>1, <2>4
    <3>2. from(j) = from(k)
      BY <3>1, Zenon DEF AdminInv, OneEntryPerId
    <3>. QED BY <2>1, <2>2, <2>4, <3>2
  <2>7. ReferencesLead'
    <3>. SUFFICES ASSUME NEW r \in records' \cup absences', r.workerId \notin hardRemoved'
                  PROVE  OnFile(r.workerId, r.person)'
      BY DEF ReferencesLead
    <3>1. r \in records \cup absences /\ r.workerId \notin hardRemoved /\ r.workerId # id
      BY <2>3
    <3>2. PICK k \in DOMAIN workers :
             workers[k].id = r.workerId /\ workers[k].person = r.person
      BY <3>1 DEF AdminInv, ReferencesLead, OnFile
    <3>3. k # i
      BY <2>2, <3>1, <3>2
    <3>. DEFINE j == IF k < i THEN k ELSE k - 1
    <3>4. j \in DOMAIN workers' /\ workers'[j] = workers[k]
      <4>1. CASE k < i
        BY <2>1, <2>2, <2>4, <4>1
      <4>2. CASE ~(k < i)
        <5>1. k - 1 \in 1 .. Len(workers') /\ ~(k - 1 < i) /\ (k - 1) + 1 = k
          BY <2>1, <2>2, <2>4, <3>3, <4>2
        <5>. QED BY <2>4, <4>2, <5>1
      <4>. QED BY <4>1, <4>2
    <3>. QED BY <3>2, <3>4 DEF OnFile
  <2>. QED BY <2>5, <2>6, <2>7 DEF AdminInv
<1>. QED BY <1>1, <1>2

\* A reference is made to an entry on file, and the files of references are all
\* that changes.
LEMMA NewReferencesLead ==
    ASSUME AdminInv, NEW old \in SUBSET DOMAIN workers,
           UNCHANGED <<workers, hardRemoved>>,
           records' \cup absences' \subseteq records \cup absences \cup {RefTo(i) : i \in old},
           records' \subseteq Reference, absences' \subseteq Reference
    PROVE  AdminInv'
<1>1. TypeOK' /\ OneEntryPerId'
  BY DEF AdminInv, TypeOK, OneEntryPerId
<1>2. ReferencesLead'
  <2>. SUFFICES ASSUME NEW r \in records' \cup absences', r.workerId \notin hardRemoved
                PROVE  OnFile(r.workerId, r.person)
    BY DEF ReferencesLead, OnFile
  <2>1. CASE r \in records \cup absences
    BY <2>1 DEF AdminInv, ReferencesLead
  <2>2. CASE \E i \in old : r = RefTo(i)
    BY <2>2 DEF RefTo, OnFile
  <2>. QED BY <2>1, <2>2
<1>. QED BY <1>1, <1>2 DEF AdminInv

LEMMA RefType ==
    ASSUME TypeOK, NEW i \in DOMAIN workers
    PROVE  RefTo(i) \in Reference
<1>1. workers \in Seq(WorkerEntry)
  BY DEF TypeOK, WorkerEntry
<1>2. workers[i] \in WorkerEntry
  BY <1>1
<1>. QED BY <1>2 DEF RefTo, Reference, WorkerEntry

THEOREM AdminInductive == AdminInv /\ [Next]_vars => AdminInv'
<1>. SUFFICES ASSUME AdminInv, [Next]_vars PROVE AdminInv'
  OBVIOUS
<1>1. ASSUME NEW p \in Person, AddWorker(p) PROVE AdminInv'
  <2>1. Ids # Id /\ Ids \subseteq Id
    <3>1. workers \in Seq(WorkerEntry)
      BY DEF AdminInv, TypeOK, WorkerEntry
    <3>2. \A i \in DOMAIN workers : workers[i] \in WorkerEntry
      BY <3>1
    <3>3. \A entry \in WorkerEntry : entry.id \in Id
      BY DEF WorkerEntry
    <3>. QED BY <1>1, <3>2, <3>3, Zenon DEF AddWorker, Ids
  <2>. QED BY <1>1, <2>1, FreeIdIsFree, JoinKeeps DEF AddWorker
<1>2. ASSUME NEW id \in Id, NEW p \in Person, AddWorkerAs(id, p) PROVE AdminInv'
  BY <1>2, JoinKeeps DEF AddWorkerAs
<1>3. ASSUME NEW id \in Id, NEW active \in BOOLEAN, EditWorker(id, active) PROVE AdminInv'
  BY <1>3, EditKeeps
<1>4. ASSUME NEW id \in Id, NEW hard \in BOOLEAN, RemoveWorker(id, hard) PROVE AdminInv'
  BY <1>4, RemoveKeeps
<1>5. ASSUME NEW id \in Id, AddAbsence(id) PROVE AdminInv'
  <2>1. PICK i \in DOMAIN workers : absences' = absences \cup {RefTo(i)}
    BY <1>5 DEF AddAbsence
  <2>2. UNCHANGED <<workers, records, hardRemoved>>
    BY <1>5 DEF AddAbsence
  <2>3. RefTo(i) \in Reference
    BY RefType DEF AdminInv
  <2>. QED BY <2>1, <2>2, <2>3, NewReferencesLead DEF AdminInv, TypeOK
<1>6. ASSUME NEW id \in Id, RemoveAbsence(id) PROVE AdminInv'
  <2>1. absences' \subseteq absences /\ UNCHANGED <<workers, records, hardRemoved>>
    BY <1>6 DEF RemoveAbsence
  <2>. QED BY <2>1, NewReferencesLead DEF AdminInv, TypeOK
<1>7. CASE AssignDay
  <2>1. PICK present \in SUBSET DOMAIN workers : records' = records \cup {RefTo(i) : i \in present}
    BY <1>7 DEF AssignDay
  <2>2. UNCHANGED <<workers, absences, hardRemoved>>
    BY <1>7 DEF AssignDay
  <2>3. {RefTo(i) : i \in present} \subseteq Reference
    BY RefType DEF AdminInv
  <2>. QED BY <2>1, <2>2, <2>3, NewReferencesLead DEF AdminInv, TypeOK
<1>8. CASE UNCHANGED vars
  BY <1>8 DEF vars, AdminInv, TypeOK, OneEntryPerId, ReferencesLead, OnFile
<1>. QED BY <1>1, <1>2, <1>3, <1>4, <1>5, <1>6, <1>7, <1>8 DEF Next

\* However ids are chosen, by hand or by the program, and taken back, two
\* entries of workers.json never share one (addWorker).
THEOREM IdsAreUnique == Spec => []OneEntryPerId
<1>1. AdminInv => OneEntryPerId
  BY DEF AdminInv
<1>. QED BY <1>1, InvInit, AdminInductive, PTL DEF Spec

\* A record or an absence leads to the person it was made for, and to nobody
\* else, unless the id was taken back with --hard (removeWorker, workerNameOf).
THEOREM ReferencesLeadHome == Spec => []ReferencesHold
<1>1. AdminInv => ReferencesHold
  <2>. SUFFICES ASSUME AdminInv, NEW r \in records \cup absences, r.workerId \notin hardRemoved
                PROVE  ShownAs(r.workerId) = {r.person}
    BY DEF ReferencesHold
  <2>1. PICK i \in DOMAIN workers : workers[i].id = r.workerId /\ workers[i].person = r.person
    BY DEF AdminInv, ReferencesLead, OnFile
  <2>2. {k \in DOMAIN workers : workers[k].id = r.workerId} = {i}
    BY <2>1 DEF AdminInv, OneEntryPerId
  <2>. QED BY <2>1, <2>2 DEF ShownAs
<1>. QED BY <1>1, InvInit, AdminInductive, PTL DEF Spec

=============================================================================
