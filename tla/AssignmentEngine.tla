--------------------------- MODULE AssignmentEngine ---------------------------
(***************************************************************************)
(* One call of AssignmentEngine::assign: the seats of one task set on one  *)
(* day are filled round-robin, under exclusion between tasks.              *)
(*                                                                         *)
(* The loop of the code is a state machine here: one step per seat.  The   *)
(* caller (computeDay, module DayAssignment) supplies the input and reads  *)
(* the result when pc = "done".                                            *)
(***************************************************************************)
EXTENDS Integers, Sequences, FiniteSets, FiniteSetsExt

CONSTANTS
    NWorkers,   \* workers of workers.json, named by their position
    NTasks,     \* tasks of tasks.json, named by their position
    TaskSet,    \* task set ids
    Weekday,    \* days of the week
    Inputs      \* the inputs a call may start from

Worker == 1 .. NWorkers
Task   == 1 .. NTasks

TaskDef == [taskSetIds    : SUBSET TaskSet,
            weekdays      : SUBSET Weekday,    \* {} means every workday
            requiredCount : Int,
            conflictsWith : SUBSET Task]       \* may be declared on one side only

Roster == {s \in Seq(Worker) : \A i, j \in 1 .. Len(s) : s[i] = s[j] => i = j}

AssignInput == [weekday           : Weekday,
                taskSetId         : TaskSet,
                slotTasks         : [Task -> TaskDef],
                availableWorkers  : Roster,
                cursor            : Int,
                crossSetConflicts : BOOLEAN,
                priorAssignments  : SUBSET (Worker \X Task)]

(***************************************************************************)
(* The conflict graph: a declaration on either side excludes both; a task  *)
(* never conflicts with itself here (the ledger keeps a worker from taking *)
(* it twice).                                                              *)
(***************************************************************************)
ConflictsIn(tasks, a, b) ==
    /\ a # b
    /\ b \in tasks[a].conflictsWith \/ a \in tasks[b].conflictsWith

\* What an earlier call of the same slot leaves behind (see DayAssignment).
SoundPrior(in) ==
    in.crossSetConflicts =>
      \A p, q \in in.priorAssignments :
          p[1] = q[1] => ~ConflictsIn(in.slotTasks, p[2], q[2])

ASSUME ConstantsAssumption ==
    /\ NWorkers \in Nat
    /\ NTasks \in Nat

ASSUME InputsAssumption ==
    \A in \in Inputs : in \in AssignInput /\ SoundPrior(in)

VARIABLES
    input,          \* AssignInput of the running call
    pc,             \* "entry", "loop" or "done"
    ledger,         \* Ledger::byWorker_
    load,           \* Ledger::load_
    place,          \* place of each target task in the order of the groups
    cursor,         \* index into availableWorkers, 0-based
    filled,         \* seats of each task the loop has been through
    assignments,    \* AssignResult::assignments
    unassigned      \* AssignResult::unassigned, counted per task

vars == <<input, pc, ledger, load, place, cursor, filled, assignments, unassigned>>

NoTasks == [w \in Worker |-> {}]
NoLoad  == [w \in Worker |-> 0]
NoSeats == [t \in Task |-> 0]

Conflicts(a, b) == ConflictsIn(input.slotTasks, a, b)

N == Len(input.availableWorkers)

\* The tasks this call fills: in the task set, and due on this weekday.
Target == {t \in Task :
              /\ input.taskSetId \in input.slotTasks[t].taskSetIds
              /\ \/ input.slotTasks[t].weekdays = {}
                 \/ input.weekday \in input.slotTasks[t].weekdays}

Required(t) == input.slotTasks[t].requiredCount

\* A slip: a negative count is taken as it is.
SeatsUnclamped(t) == Required(t)

\* A negative count asks for no seat.
Seats(t) == IF Required(t) > 0 THEN Required(t) ELSE 0

\* The connected component of t in the conflict graph, inside Target.
Component(t) ==
    LET reach[k \in 0 .. NTasks] ==
            IF k = 0
            THEN {t}
            ELSE LET near == reach[k - 1]
                 IN  near \cup {u \in Target : \E v \in near : Conflicts(u, v)}
    IN  reach[NTasks]

RequiredSum(t) == MapThenSumSet(Seats, Component(t))

FirstIndex(t) == Min(Component(t))

\* Groups by descending need, then by their first task; inside a group the
\* definition order.
Before(a, b) ==
    \/ RequiredSum(a) > RequiredSum(b)
    \/ RequiredSum(a) = RequiredSum(b) /\ FirstIndex(a) < FirstIndex(b)
    \/ FirstIndex(a) = FirstIndex(b) /\ a < b

\* splitIntoGroups: how many tasks are served before t.
PlaceOf(t) == Cardinality({u \in Target \ {t} : Before(u, t)})

Open == {t \in Target : filled[t] < Required(t)}

IsCurrent(t) == \A u \in Open \ {t} : place[t] < place[u]

\* A slip: the place in availableWorkers is taken for one in workers.json.
CandidateOfAll(step) == ((cursor + step) % N) + 1

\* The candidate `step` places after the cursor.
Candidate(step) == input.availableWorkers[((cursor + step) % N) + 1]

Holds(w, t) == t \in ledger[w]

\* A slip: only what the task at hand declares is looked at.
BlockedByOwn(w, t) == ledger[w] \cap input.slotTasks[t].conflictsWith # {}

BlockedBy(w, t) == \E held \in ledger[w] : Conflicts(held, t)

\* A slip: the implicit exclusion of a task with itself is forgotten.
EligibleTwice(w, t) == ~BlockedBy(w, t)

Eligible(w, t) == ~Holds(w, t) /\ ~BlockedBy(w, t)

\* A slip: the highest score is taken for the best.
ScoreReversed(w) == -load[w]

\* RoundRobinPolicy::score looks at the load in the slot and nothing else.
Score(w) == load[w]

\* A slip: the scan stops one short of a full turn.
QualifiedButOne(t) == {step \in 0 .. N - 2 : Eligible(Candidate(step), t)}

Qualified(t) == {step \in 0 .. N - 1 : Eligible(Candidate(step), t)}

\* The lowest score wins; among equals the one met first from the cursor.
Best(t, step) ==
    /\ step \in Qualified(t)
    /\ \A other \in Qualified(t) :
          \/ Score(Candidate(step)) < Score(Candidate(other))
          \/ Score(Candidate(step)) = Score(Candidate(other)) /\ step <= other

-----------------------------------------------------------------------------

Idle(in) ==
    /\ input = in
    /\ pc = "entry"
    /\ ledger = NoTasks
    /\ load = NoLoad
    /\ place = NoSeats
    /\ cursor = in.cursor
    /\ filled = NoSeats
    /\ assignments = <<>>
    /\ unassigned = NoSeats

Init == \E in \in Inputs : Idle(in)

\* A caller enters the function with `in` (a step of the caller's).
Call(in) ==
    /\ input' = in
    /\ pc' = "entry"
    /\ ledger' = NoTasks
    /\ load' = NoLoad
    /\ place' = NoSeats
    /\ cursor' = in.cursor
    /\ filled' = NoSeats
    /\ assignments' = <<>>
    /\ unassigned' = NoSeats

\* Nobody is available: every seat is unassigned, the cursor is handed back.
NoWorkers ==
    /\ pc = "entry"
    /\ N = 0
    /\ pc' = "done"
    /\ unassigned' = [t \in Task |-> IF t \in Target THEN Seats(t) ELSE 0]
    /\ UNCHANGED <<input, ledger, load, place, cursor, filled, assignments>>

\* The tasks the ledger starts with.
PriorTasks(w) ==
    IF input.crossSetConflicts
    THEN {t \in Task : <<w, t>> \in input.priorAssignments}
    ELSE {}

\* Wraps the cursor, seeds the ledger when conflicts reach across sets, and
\* puts the conflict groups in order.
Start ==
    /\ pc = "entry"
    /\ N > 0
    /\ pc' = "loop"
    /\ cursor' = input.cursor % N
    /\ place' = [t \in Task |-> IF t \in Target THEN PlaceOf(t) ELSE 0]
    /\ ledger' = [w \in Worker |-> PriorTasks(w)]
    /\ load' = [w \in Worker |-> Cardinality(PriorTasks(w))]
    /\ UNCHANGED <<input, filled, assignments, unassigned>>

\* A slip: the cursor moves on by one, not past the one who was chosen.
NextCursorByOne(step) == (cursor + 1) % N

\* The place after the candidate who is `step` places after the cursor.
NextCursor(step) == (((cursor + step) % N) + 1) % N

\* One seat of the current task goes to the best candidate.
SeatWorker(t) ==
    /\ pc = "loop"
    /\ \E step \in 0 .. N - 1 :
          LET w == Candidate(step)
          IN  /\ Best(t, step)
              /\ assignments' = Append(assignments, [taskId |-> t, workerId |-> w])
              /\ ledger' = [ledger EXCEPT ![w] = @ \cup {t}]
              /\ load' = [load EXCEPT ![w] = @ + 1]
              /\ cursor' = NextCursor(step)
    /\ filled' = [filled EXCEPT ![t] = @ + 1]
    /\ UNCHANGED <<input, pc, place, unassigned>>

\* A slip: a seat nobody can take ends the task (break for continue).
LeaveUnassignedBreak(t) ==
    /\ pc = "loop"
    /\ Qualified(t) = {}
    /\ unassigned' = [unassigned EXCEPT ![t] = @ + 1]
    /\ filled' = [filled EXCEPT ![t] = Required(t)]
    /\ UNCHANGED <<input, pc, ledger, load, place, cursor, assignments>>

\* A slip: a seat nobody can take is tried again.
LeaveUnassignedRetry(t) == pc = "loop" /\ Qualified(t) = {} /\ UNCHANGED vars

\* A full turn met nobody eligible: the seat is recorded as unassigned.
LeaveUnassigned(t) ==
    /\ pc = "loop"
    /\ Qualified(t) = {}
    /\ unassigned' = [unassigned EXCEPT ![t] = @ + 1]
    /\ filled' = [filled EXCEPT ![t] = @ + 1]
    /\ UNCHANGED <<input, pc, ledger, load, place, cursor, assignments>>

Finish ==
    /\ pc = "loop"
    /\ Open = {}
    /\ pc' = "done"
    /\ UNCHANGED <<input, ledger, load, place, cursor, filled, assignments,
                   unassigned>>

Step ==
    \/ NoWorkers
    \/ Start
    \/ \E t \in Open : IsCurrent(t) /\ (SeatWorker(t) \/ LeaveUnassigned(t))
    \/ Finish

\* The call has returned; nothing moves any more.
Returned == pc = "done" /\ UNCHANGED vars

Next == Step \/ Returned

Spec == Init /\ [][Next]_vars

\* The loop is sequential code with no wait in it: it keeps running.
FairSpec == Spec /\ WF_vars(Step)

-----------------------------------------------------------------------------
(* Properties *)

TypeOK ==
    /\ input \in AssignInput
    /\ pc \in {"entry", "loop", "done"}
    /\ ledger \in [Worker -> SUBSET Task]
    /\ load \in [Worker -> Nat]
    /\ place \in [Task -> Nat]
    /\ cursor \in Int
    /\ filled \in [Task -> Nat]
    /\ assignments \in Seq([taskId : Task, workerId : Worker])
    /\ unassigned \in [Task -> Nat]

\* The seats the result gives, by position in the result.
SeatsOf(w) == {i \in 1 .. Len(assignments) : assignments[i].workerId = w}

SeatsFor(t) == {i \in 1 .. Len(assignments) : assignments[i].taskId = t}

\* What a worker does in the slot, as far as this call has to care.
Booked(w) == {assignments[i].taskId : i \in SeatsOf(w)} \cup PriorTasks(w)

\* Nobody is given two tasks that exclude each other, whichever of the two
\* declares it (blockedBy over the symmetric graph); with crossSetConflicts
\* this includes what the earlier task sets of the slot gave out.
ConflictFree ==
    pc # "entry" =>
        \A w \in Worker : \A a, b \in Booked(w) : ~Conflicts(a, b)

\* Nobody takes two seats of one task (the implicit self-exclusion of
\* Ledger::holds), nor one he got from an earlier set under crossSetConflicts.
OneSeatPerTask ==
    pc # "entry" =>
        \A w \in Worker : \A i \in SeatsOf(w) :
            /\ assignments[i].taskId \notin PriorTasks(w)
            /\ \A j \in SeatsOf(w) \ {i} : assignments[i].taskId # assignments[j].taskId

\* Only people of availableWorkers are assigned, and only to target tasks.
OnlyTheAvailable ==
    \A i \in 1 .. Len(assignments) :
        /\ assignments[i].taskId \in Target
        /\ \E k \in 1 .. N : assignments[i].workerId = input.availableWorkers[k]

\* A returned call accounts for every seat of every target task, once: it is
\* assigned or reported as unassigned, and nothing else is reported.
SeatsAccounted ==
    pc = "done" =>
        \A t \in Task :
            Cardinality(SeatsFor(t)) + unassigned[t]
                = IF t \in Target THEN Seats(t) ELSE 0

\* A seat is reported unassigned only when nobody could take it, and that
\* stays so to the end of the call: no later step frees anybody.
UnassignedForGood ==
    \A t \in Task : unassigned[t] > 0 =>
        \A k \in 1 .. N : ~Eligible(input.availableWorkers[k], t)

\* The cursor stands right after the worker of the last seat given; with no
\* seat given it is where the call found it (wrapped when anybody is there).
CursorAfterLastSeat ==
    pc # "entry" =>
        LET last == assignments[Len(assignments)].workerId
        IN  IF assignments # <<>>
            THEN \E k \in 0 .. N - 1 : /\ input.availableWorkers[k + 1] = last
                                        /\ cursor = (k + 1) % N
            ELSE IF N = 0 THEN cursor = input.cursor
                          ELSE cursor = input.cursor % N

\* Where no exclusion is declared and nothing is carried over, the rotation
\* is fair at every moment: two available workers differ by one seat at most.
FairWithoutConflicts ==
    (/\ pc # "entry"
     /\ \A a, b \in Task : ~Conflicts(a, b)
     /\ \A w \in Worker : PriorTasks(w) = {})
    => \A j, k \in 1 .. N :
          Cardinality(SeatsOf(input.availableWorkers[j]))
            <= Cardinality(SeatsOf(input.availableWorkers[k])) + 1

\* The call returns.
Terminates == <>(pc = "done")

-----------------------------------------------------------------------------
(* What the documents say and the code does not do. *)

\* validator.cpp:331: when the tasks of one conflict group need more people
\* than there are, seats stay unassigned (on every day; NWorkers stands for
\* the active workers, of whom no more than that are available).
WarningIsRight ==
    (pc = "done" /\ \E t \in Target : RequiredSum(t) > NWorkers)
        => \E t \in Target : unassigned[t] > 0

=============================================================================
