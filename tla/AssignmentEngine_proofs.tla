----------------------- MODULE AssignmentEngine_proofs -----------------------
(***************************************************************************)
(* Proofs about AssignmentEngine, for any number of workers and tasks and  *)
(* any set of inputs that satisfies InputsAssumption.                      *)
(***************************************************************************)
EXTENDS AssignmentEngine, FiniteSetTheorems, TLAPS

\* Walking N places round a ring of N, from any place, meets every place.
LEMMA RingWalk ==
    ASSUME NEW n \in Nat, n > 0, NEW c \in 0 .. n - 1, NEW i \in 0 .. n - 1
    PROVE  \E step \in 0 .. n - 1 : (c + step) % n = i
<1>1. CASE i >= c
  <2>1. i - c \in 0 .. n - 1 /\ c + (i - c) = i /\ i % n = i
    BY <1>1
  <2>. QED BY <2>1
<1>2. CASE i < c
  <2>1. (i - c) + n \in 0 .. n - 1 /\ c + ((i - c) + n) = i + n
    BY <1>2
  <2>2. (i + n) % n = i
    OBVIOUS
  <2>. QED BY <2>1, <2>2
<1>. QED BY <1>1, <1>2

\* The remainder names a place of the ring.
LEMMA RingPlace ==
    ASSUME NEW n \in Nat, n > 0, NEW i \in Int
    PROVE  i % n \in 0 .. n - 1
OBVIOUS

\* Sets of tasks are finite.
LEMMA TasksFinite ==
    ASSUME NEW S, S \subseteq Task
    PROVE  IsFiniteSet(S) /\ Cardinality(S) \in Nat
<1>1. IsFiniteSet(Task)
  BY ConstantsAssumption, FS_Interval DEF Task
<1>2. IsFiniteSet(S)
  BY <1>1, FS_Subset
<1>. QED BY <1>2, FS_CardinalityType

\* A sequence holds an element at every position, counted from zero.
LEMMA PlaceHolds ==
    ASSUME NEW S, NEW s \in Seq(S), NEW i \in 0 .. Len(s) - 1
    PROVE  s[i + 1] \in S
OBVIOUS

\* A scan position holds a worker.
LEMMA CandidateIsWorker ==
    ASSUME input \in AssignInput, cursor \in Int, N > 0, NEW step \in 0 .. N - 1
    PROVE  /\ N \in Nat
           /\ (cursor + step) % N \in 0 .. N - 1
           /\ Candidate(step) \in Worker
<1>1. input.availableWorkers \in Seq(Worker)
  BY DEF AssignInput, Roster
<1>2. N \in Nat
  BY <1>1 DEF N
<1>3. (cursor + step) % N \in 0 .. N - 1
  BY <1>2, RingPlace
<1>4. input.availableWorkers[((cursor + step) % N) + 1] \in Worker
  BY <1>1, <1>3, PlaceHolds, Zenon DEF N
<1>. QED BY <1>2, <1>3, <1>4, Zenon DEF Candidate

LEMMA RosterIsWorkers ==
    ASSUME input \in AssignInput
    PROVE  N \in Nat /\ \A k \in 1 .. N : input.availableWorkers[k] \in Worker
<1>1. input.availableWorkers \in Seq(Worker)
  BY DEF AssignInput, Roster
<1>. QED BY <1>1 DEF N

\* Seat counts are natural numbers.
LEMMA SeatsType ==
    ASSUME input \in AssignInput, NEW t \in Task
    PROVE  Required(t) \in Int /\ Seats(t) \in Nat
BY DEF AssignInput, TaskDef, Required, Seats

-----------------------------------------------------------------------------

LEMMA TypeInductive == TypeOK /\ [Next]_vars => TypeOK'
<1>. SUFFICES ASSUME TypeOK, [Next]_vars PROVE TypeOK'
  OBVIOUS
<1>. USE DEF TypeOK
<1>1. CASE NoWorkers
  BY <1>1, SeatsType DEF NoWorkers
<1>2. CASE Start
  <2>1. input.cursor % N \in Int
    BY <1>2, RingPlace DEF Start, AssignInput, Roster, N
  <2>2. \A t \in Target : PlaceOf(t) \in Nat
    BY TasksFinite DEF PlaceOf, Target
  <2>3. \A w \in Worker : PriorTasks(w) \subseteq Task /\ Cardinality(PriorTasks(w)) \in Nat
    BY TasksFinite DEF PriorTasks
  <2>. QED BY <1>2, <2>1, <2>2, <2>3 DEF Start, Target
<1>3. ASSUME NEW t \in Open, SeatWorker(t) PROVE TypeOK'
  <2>1. t \in Task
    BY DEF Open, Target
  <2>2. PICK step \in 0 .. N - 1 :
          /\ assignments' = Append(assignments, [taskId |-> t, workerId |-> Candidate(step)])
          /\ ledger' = [ledger EXCEPT ![Candidate(step)] = @ \cup {t}]
          /\ load' = [load EXCEPT ![Candidate(step)] = @ + 1]
          /\ cursor' = (((cursor + step) % N) + 1) % N
    BY <1>3 DEF SeatWorker, NextCursor
  <2>3. N \in Nat /\ N > 0
    BY <2>2 DEF N, AssignInput, Roster
  <2>4. /\ (cursor + step) % N \in 0 .. N - 1
        /\ Candidate(step) \in Worker
    BY <2>3, CandidateIsWorker
  <2>5. cursor' \in Int
    BY <2>2, <2>3, <2>4, RingPlace
  <2>6. assignments' \in Seq([taskId : Task, workerId : Worker])
    BY <2>1, <2>2, <2>4
  <2>7. ledger' \in [Worker -> SUBSET Task] /\ load' \in [Worker -> Nat]
    BY <2>1, <2>2, <2>4
  <2>8. /\ filled' \in [Task -> Nat]
        /\ UNCHANGED <<input, pc, place, unassigned>>
    BY <1>3, <2>1 DEF SeatWorker
  <2>. QED BY <2>5, <2>6, <2>7, <2>8
<1>4. ASSUME NEW t \in Open, LeaveUnassigned(t) PROVE TypeOK'
  BY <1>4 DEF LeaveUnassigned, Open, Target
<1>5. CASE Finish
  BY <1>5 DEF Finish
<1>6. CASE Returned
  BY <1>6 DEF Returned, vars
<1>7. CASE UNCHANGED vars
  BY <1>7 DEF vars
<1>. QED BY <1>1, <1>2, <1>3, <1>4, <1>5, <1>6, <1>7 DEF Next, Step

\* Every variable keeps its type, whatever the number of workers and tasks.
THEOREM TypeCorrect == Spec => []TypeOK
<1>1. Init => TypeOK
  BY ConstantsAssumption, InputsAssumption
     DEF Init, Idle, TypeOK, NoTasks, NoLoad, NoSeats, AssignInput
<1>2. TypeOK /\ [Next]_vars => TypeOK'
  BY TypeInductive
<1>. QED BY <1>1, <1>2, PTL DEF Spec

-----------------------------------------------------------------------------
(* The inductive invariant behind the safety theorems. *)

\* Nothing has been touched before the call starts.
EntryFresh ==
    pc = "entry" => /\ ledger = NoTasks
                    /\ assignments = <<>>
                    /\ filled = NoSeats
                    /\ unassigned = NoSeats

\* The scan has a ring to walk and stands on it.
CursorOnRing == pc = "loop" => N > 0 /\ cursor \in 0 .. N - 1

\* The ledger the choices are made from is exactly what has been given out.
LedgerIsBooked ==
    (pc # "entry" /\ N > 0) => \A w \in Worker : ledger[w] = Booked(w)

NobodyMeansNothing == N = 0 => assignments = <<>>

IInv ==
    /\ TypeOK
    /\ SoundPrior(input)
    /\ EntryFresh
    /\ CursorOnRing
    /\ NobodyMeansNothing
    /\ LedgerIsBooked
    /\ ConflictFree
    /\ OneSeatPerTask
    /\ OnlyTheAvailable
    /\ UnassignedForGood

\* What SeatWorker does, for the candidate it picks.
SeatGiven(t, step) ==
    /\ step \in 0 .. N - 1
    /\ Eligible(Candidate(step), t)
    /\ assignments' = Append(assignments, [taskId |-> t, workerId |-> Candidate(step)])
    /\ ledger' = [ledger EXCEPT ![Candidate(step)] = @ \cup {t}]
    /\ load' = [load EXCEPT ![Candidate(step)] = @ + 1]
    /\ cursor' = (((cursor + step) % N) + 1) % N

LEMMA SeatWorkerGives ==
    ASSUME NEW t, SeatWorker(t)
    PROVE  \E step \in 0 .. N - 1 : SeatGiven(t, step)
BY DEF SeatWorker, NextCursor, SeatGiven, Best, Qualified

\* A given seat is one more entry of the result, and of nobody else's.
LEMMA SeatBooks ==
    ASSUME TypeOK, NEW t \in Task, NEW step, SeatGiven(t, step), input' = input
    PROVE  /\ Candidate(step) \in Worker
           /\ Len(assignments') = Len(assignments) + 1
           /\ \A i \in 1 .. Len(assignments) : assignments'[i] = assignments[i]
           /\ assignments'[Len(assignments) + 1] = [taskId |-> t, workerId |-> Candidate(step)]
           /\ \A w \in Worker :
                 /\ PriorTasks(w)' = PriorTasks(w)
                 /\ SeatsOf(w)' = IF w = Candidate(step)
                                  THEN SeatsOf(w) \cup {Len(assignments) + 1}
                                  ELSE SeatsOf(w)
                 /\ Booked(w)' = IF w = Candidate(step)
                                 THEN Booked(w) \cup {t}
                                 ELSE Booked(w)
<1>0. N > 0 /\ N \in Nat
  BY DEF SeatGiven, TypeOK, AssignInput, Roster, N
<1>1. Candidate(step) \in Worker
  BY <1>0, CandidateIsWorker DEF SeatGiven, TypeOK
<1>2. Len(assignments) \in Nat /\ assignments \in Seq([taskId : Task, workerId : Worker])
  BY DEF TypeOK
<1>3. /\ Len(assignments') = Len(assignments) + 1
      /\ \A i \in 1 .. Len(assignments) : assignments'[i] = assignments[i]
      /\ assignments'[Len(assignments) + 1] = [taskId |-> t, workerId |-> Candidate(step)]
  BY <1>1, <1>2 DEF SeatGiven
<1>4. \A w \in Worker : PriorTasks(w)' = PriorTasks(w)
  BY DEF PriorTasks
<1>5. \A w \in Worker :
         SeatsOf(w)' = IF w = Candidate(step)
                       THEN SeatsOf(w) \cup {Len(assignments) + 1}
                       ELSE SeatsOf(w)
  BY <1>2, <1>3 DEF SeatsOf
<1>6. \A w \in Worker : \A i \in SeatsOf(w) : assignments'[i].taskId = assignments[i].taskId
  BY <1>3 DEF SeatsOf
<1>7. ASSUME NEW w \in Worker
      PROVE  Booked(w)' = IF w = Candidate(step) THEN Booked(w) \cup {t} ELSE Booked(w)
  <2>1. {assignments'[i].taskId : i \in SeatsOf(w)} = {assignments[i].taskId : i \in SeatsOf(w)}
    BY <1>6
  <2>2. assignments'[Len(assignments) + 1].taskId = t
    BY <1>3
  <2>3. Booked(w)' = {assignments'[i].taskId : i \in SeatsOf(w)'} \cup PriorTasks(w)
    BY <1>4 DEF Booked
  <2>. QED BY <1>5, <2>1, <2>2, <2>3 DEF Booked
<1>. QED BY <1>1, <1>3, <1>4, <1>5, <1>7

\* A step that gives no seat leaves the bookings of the loop alone.
LEMMA NoSeatNoBooking ==
    ASSUME UNCHANGED <<input, assignments>>
    PROVE  /\ \A w : SeatsOf(w)' = SeatsOf(w)
           /\ \A w : PriorTasks(w)' = PriorTasks(w)
           /\ \A w : Booked(w)' = Booked(w)
BY DEF SeatsOf, PriorTasks, Booked

\* The input is the same all through, and with it everything read from it.
LEMMA InputDerived ==
    ASSUME input' = input
    PROVE  /\ N' = N
           /\ Target' = Target
           /\ \A a, b : Conflicts(a, b)' = Conflicts(a, b)
           /\ SoundPrior(input)' = SoundPrior(input)
BY DEF N, Target, Conflicts, SoundPrior

\* A carried-over ledger has no conflict in it.
LEMMA PriorConflictFree ==
    ASSUME SoundPrior(input), NEW w \in Worker
    PROVE  \A a, b \in PriorTasks(w) : ~Conflicts(a, b)
<1>. SUFFICES ASSUME input.crossSetConflicts,
                     NEW a \in PriorTasks(w), NEW b \in PriorTasks(w)
              PROVE  ~ConflictsIn(input.slotTasks, a, b)
  BY DEF PriorTasks, Conflicts
<1>1. <<w, a>> \in input.priorAssignments /\ <<w, b>> \in input.priorAssignments
  BY DEF PriorTasks
<1>. QED BY <1>1 DEF SoundPrior

LEMMA ConflictsSymmetric ==
    ASSUME NEW a, NEW b
    PROVE  Conflicts(a, b) <=> Conflicts(b, a)
BY DEF Conflicts, ConflictsIn

LEMMA NoSelfConflict ==
    ASSUME NEW a
    PROVE  ~Conflicts(a, a)
BY DEF Conflicts, ConflictsIn

\* No step of the loop makes anybody eligible: the ledger only grows.
LEMMA LedgerGrows ==
    ASSUME TypeOK, NEW t \in Open, SeatWorker(t) \/ LeaveUnassigned(t)
    PROVE  /\ input' = input
           /\ \A w \in Worker : ledger[w] \subseteq ledger'[w]
           /\ \A w \in Worker : \A u : Eligible(w, u)' => Eligible(w, u)
<1>1. input' = input
  BY DEF SeatWorker, LeaveUnassigned
<1>2. \A w \in Worker : ledger[w] \subseteq ledger'[w]
  <2>1. CASE SeatWorker(t)
    <3>1. PICK step \in 0 .. N - 1 : ledger' = [ledger EXCEPT ![Candidate(step)] = @ \cup {t}]
      BY <2>1 DEF SeatWorker
    <3>. QED BY <3>1 DEF TypeOK
  <2>2. CASE LeaveUnassigned(t)
    BY <2>2 DEF LeaveUnassigned
  <2>. QED BY <2>1, <2>2
<1>. QED BY <1>1, <1>2, InputDerived DEF Eligible, Holds, BlockedBy

\* The scan of a full turn meets every available worker.
LEMMA ScanMeetsAll ==
    ASSUME TypeOK, N > 0, cursor \in 0 .. N - 1, NEW k \in 1 .. N
    PROVE  \E step \in 0 .. N - 1 : Candidate(step) = input.availableWorkers[k]
<1>1. N \in Nat
  BY DEF TypeOK, AssignInput, Roster, N
<1>2. k - 1 \in 0 .. N - 1
  BY <1>1
<1>3. PICK step \in 0 .. N - 1 : (cursor + step) % N = k - 1
  BY <1>1, <1>2, RingWalk
<1>4. Candidate(step) = input.availableWorkers[(k - 1) + 1]
  BY <1>3 DEF Candidate
<1>5. (k - 1) + 1 = k
  BY <1>1
<1>. QED BY <1>4, <1>5

\* The invariant is inductive.
LEMMA IInvInit == Init => IInv
<1>. SUFFICES ASSUME Init PROVE IInv
  OBVIOUS
<1>. PICK in \in Inputs : Idle(in)
  BY DEF Init
<1>1. input \in AssignInput /\ SoundPrior(input)
  BY InputsAssumption DEF Idle
<1>2. TypeOK
  BY <1>1, ConstantsAssumption DEF Idle, TypeOK, NoTasks, NoLoad, NoSeats, AssignInput
<1>3. pc = "entry" /\ assignments = <<>> /\ unassigned = NoSeats /\ Len(assignments) = 0
  BY DEF Idle
<1>4. \A w : SeatsOf(w) = {}
  BY <1>3 DEF SeatsOf
<1>5. OnlyTheAvailable /\ UnassignedForGood
  BY <1>3 DEF OnlyTheAvailable, UnassignedForGood, NoSeats
<1>. QED
  BY <1>1, <1>2, <1>3, <1>4, <1>5
     DEF IInv, EntryFresh, CursorOnRing, NobodyMeansNothing, LedgerIsBooked,
         ConflictFree, OneSeatPerTask, Idle

\* NoWorkers, the early return.
LEMMA IInvNoWorkers ==
    ASSUME IInv, TypeOK', NoWorkers
    PROVE  IInv'
<1>1. /\ UNCHANGED <<input, assignments, ledger>>
      /\ N = 0 /\ pc = "entry" /\ pc' = "done" /\ assignments = <<>>
  BY DEF NoWorkers, IInv, EntryFresh
<1>2. /\ N' = 0
      /\ \A a, b : Conflicts(a, b)' = Conflicts(a, b)
      /\ SoundPrior(input)'
  BY <1>1, InputDerived DEF IInv
<1>3. \A w : SeatsOf(w)' = {}
  BY <1>1 DEF SeatsOf
<1>4. \A w : Booked(w)' = PriorTasks(w)
  BY <1>1, <1>3 DEF Booked, PriorTasks
<1>5. ConflictFree'
  BY <1>2, <1>4, PriorConflictFree DEF ConflictFree, IInv
<1>6. OneSeatPerTask' /\ OnlyTheAvailable'
  BY <1>1, <1>3 DEF OneSeatPerTask, OnlyTheAvailable
<1>7. UnassignedForGood'
  BY <1>2 DEF UnassignedForGood
<1>. QED
  BY <1>1, <1>2, <1>5, <1>6, <1>7
     DEF IInv, EntryFresh, CursorOnRing, NobodyMeansNothing, LedgerIsBooked

\* Start seeds the ledger with what the caller carries over.
LEMMA IInvStart ==
    ASSUME IInv, TypeOK', Start
    PROVE  IInv'
<1>1. /\ UNCHANGED <<input, assignments, unassigned>>
      /\ N > 0 /\ pc = "entry" /\ pc' = "loop" /\ assignments = <<>>
      /\ unassigned = NoSeats
      /\ ledger' = [w \in Worker |-> PriorTasks(w)]
  BY DEF Start, IInv, EntryFresh
<1>2. /\ N' = N
      /\ \A a, b : Conflicts(a, b)' = Conflicts(a, b)
      /\ SoundPrior(input)'
  BY <1>1, InputDerived DEF IInv
<1>3. \A w : SeatsOf(w)' = {}
  BY <1>1 DEF SeatsOf
<1>4. \A w : Booked(w)' = PriorTasks(w)
  BY <1>1, <1>3 DEF Booked, PriorTasks
<1>5. ConflictFree'
  BY <1>2, <1>4, PriorConflictFree DEF ConflictFree, IInv
<1>6. OneSeatPerTask' /\ OnlyTheAvailable'
  BY <1>1, <1>3 DEF OneSeatPerTask, OnlyTheAvailable
<1>7. UnassignedForGood'
  BY <1>1 DEF UnassignedForGood, NoSeats
<1>8. CursorOnRing'
  <2>1. N \in Nat /\ input.cursor \in Int
    BY DEF IInv, TypeOK, AssignInput, Roster, N
  <2>2. cursor' \in 0 .. N - 1
    BY <1>1, <2>1, RingPlace DEF Start
  <2>. QED BY <1>1, <1>2, <2>2 DEF CursorOnRing
<1>9. LedgerIsBooked'
  BY <1>1, <1>4 DEF LedgerIsBooked
<1>. QED
  BY <1>1, <1>2, <1>5, <1>6, <1>7, <1>8, <1>9
     DEF IInv, EntryFresh, NobodyMeansNothing

\* SeatWorker: the chosen candidate was eligible, so his bookings stay sound.
LEMMA IInvSeat ==
    ASSUME IInv, TypeOK', NEW t \in Open, SeatWorker(t)
    PROVE  IInv'
<1>1. /\ UNCHANGED <<input, pc, unassigned>>
      /\ pc = "loop" /\ t \in Task /\ t \in Target /\ TypeOK
      /\ N > 0 /\ N \in Nat /\ cursor \in 0 .. N - 1
  <2>1. UNCHANGED <<input, pc, unassigned>> /\ pc = "loop"
    BY DEF SeatWorker
  <2>2. t \in Task /\ t \in Target /\ TypeOK
    BY DEF Open, Target, IInv
  <2>3. N > 0 /\ cursor \in 0 .. N - 1
    BY <2>1 DEF IInv, CursorOnRing
  <2>4. N \in Nat
    BY <2>2 DEF TypeOK, AssignInput, Roster, N
  <2>. QED BY <2>1, <2>2, <2>3, <2>4
<1>2. PICK step \in 0 .. N - 1 : SeatGiven(t, step)
  BY SeatWorkerGives
<1>. DEFINE w0 == Candidate(step)
            last == Len(assignments) + 1
<1>3. /\ N' = N
      /\ Target' = Target
      /\ \A a, b : Conflicts(a, b)' = Conflicts(a, b)
      /\ SoundPrior(input)'
  BY <1>1, InputDerived DEF IInv
<1>4. /\ w0 \in Worker
      /\ Len(assignments') = last
      /\ \A i \in 1 .. Len(assignments) : assignments'[i] = assignments[i]
      /\ assignments'[last] = [taskId |-> t, workerId |-> w0]
      /\ \A w \in Worker :
            /\ PriorTasks(w)' = PriorTasks(w)
            /\ SeatsOf(w)' = IF w = w0 THEN SeatsOf(w) \cup {last} ELSE SeatsOf(w)
            /\ Booked(w)' = IF w = w0 THEN Booked(w) \cup {t} ELSE Booked(w)
  BY <1>1, <1>2, SeatBooks
<1>5. /\ ledger \in [Worker -> SUBSET Task]
      /\ ledger' = [ledger EXCEPT ![w0] = @ \cup {t}]
      /\ \A w \in Worker : ledger[w] = Booked(w)
      /\ Len(assignments) \in Nat
  BY <1>1, <1>2 DEF SeatGiven, IInv, TypeOK, LedgerIsBooked
<1>6. t \notin Booked(w0) /\ \A a \in Booked(w0) : ~Conflicts(a, t) /\ ~Conflicts(t, a)
  BY <1>2, <1>4, <1>5, ConflictsSymmetric DEF SeatGiven, Eligible, Holds, BlockedBy
<1>7. LedgerIsBooked'
  BY <1>1, <1>4, <1>5 DEF LedgerIsBooked
<1>8. ConflictFree'
  <2>1. \A w \in Worker : \A a, b \in Booked(w) : ~Conflicts(a, b)
    BY <1>1 DEF IInv, ConflictFree
  <2>2. ASSUME NEW w \in Worker, NEW a \in Booked(w)', NEW b \in Booked(w)'
        PROVE  ~Conflicts(a, b)
    <3>1. CASE w = w0
      BY <3>1, <2>1, <1>4, <1>6, NoSelfConflict
    <3>2. CASE w # w0
      BY <3>2, <2>1, <1>4
    <3>. QED BY <3>1, <3>2
  <2>. QED BY <2>2, <1>3 DEF ConflictFree
<1>9. OneSeatPerTask'
  <2>1. ASSUME NEW w \in Worker
        PROVE  /\ \A i \in SeatsOf(w) : i \in 1 .. Len(assignments)
               /\ \A i \in SeatsOf(w) : assignments'[i] = assignments[i]
               /\ \A i \in SeatsOf(w) : assignments[i].taskId \in Booked(w)
               /\ PriorTasks(w) \subseteq Booked(w)
    BY <1>4 DEF SeatsOf, Booked
  <2>2. ASSUME NEW w \in Worker, NEW i \in SeatsOf(w)'
        PROVE  /\ assignments'[i].taskId \notin PriorTasks(w)'
               /\ \A j \in SeatsOf(w)' \ {i} :
                     assignments'[i].taskId # assignments'[j].taskId
    <3>1. \A k \in SeatsOf(w) :
             /\ assignments[k].taskId \notin PriorTasks(w)
             /\ \A j \in SeatsOf(w) \ {k} : assignments[k].taskId # assignments[j].taskId
      BY <1>1 DEF IInv, OneSeatPerTask
    <3>2. CASE w # w0
      BY <3>1, <3>2, <2>1, <1>4
    <3>3. CASE w = w0
      <4>1. assignments'[last].taskId = t
        BY <1>4
      <4>2. \A k \in SeatsOf(w) : assignments'[k].taskId # t
        BY <3>3, <2>1, <1>6
      <4>. QED BY <3>1, <3>3, <4>1, <4>2, <2>1, <1>4, <1>6
    <3>. QED BY <3>2, <3>3
  <2>. QED BY <2>2 DEF OneSeatPerTask
<1>10. OnlyTheAvailable'
  <2>1. \E k \in 1 .. N : w0 = input.availableWorkers[k]
    <3>1. (cursor + step) % N \in 0 .. N - 1
      BY <1>1, RingPlace
    <3>2. ((cursor + step) % N) + 1 \in 1 .. N
      BY <1>1, <3>1
    <3>. QED BY <3>2 DEF Candidate
  <2>2. ASSUME NEW i \in 1 .. last
        PROVE  /\ assignments'[i].taskId \in Target
               /\ \E k \in 1 .. N : assignments'[i].workerId = input.availableWorkers[k]
    <3>1. CASE i = last
      BY <3>1, <2>1, <1>1, <1>4
    <3>2. CASE i # last
      <4>1. i \in 1 .. Len(assignments)
        BY <3>2, <1>5
      <4>. QED BY <4>1, <1>4 DEF IInv, OnlyTheAvailable
    <3>. QED BY <3>1, <3>2
  <2>. QED BY <2>2, <1>1, <1>3, <1>4 DEF OnlyTheAvailable
<1>11. UnassignedForGood'
  <2>1. \A w \in Worker : \A u : Eligible(w, u)' => Eligible(w, u)
    BY <1>1, LedgerGrows
  <2>2. \A k \in 1 .. N : input.availableWorkers[k] \in Worker
    BY <1>1, RosterIsWorkers DEF TypeOK
  <2>3. ASSUME NEW u \in Task, unassigned[u] > 0, NEW k \in 1 .. N
        PROVE  ~Eligible(input.availableWorkers[k], u)'
    <3>1. ~Eligible(input.availableWorkers[k], u)
      BY <2>3 DEF IInv, UnassignedForGood
    <3>. QED BY <3>1, <2>1, <2>2, <1>1 DEF Eligible, Holds, BlockedBy
  <2>. QED BY <2>3, <1>1, <1>3 DEF UnassignedForGood
<1>12. CursorOnRing'
  <2>1. (cursor + step) % N \in 0 .. N - 1
    BY <1>1, RingPlace
  <2>2. cursor' \in 0 .. N - 1
    BY <1>1, <1>2, <2>1, RingPlace DEF SeatGiven
  <2>. QED BY <1>1, <1>3, <2>2 DEF CursorOnRing
<1>. QED
  BY <1>1, <1>3, <1>7, <1>8, <1>9, <1>10, <1>11, <1>12
     DEF IInv, EntryFresh, NobodyMeansNothing

\* LeaveUnassigned: the full turn met nobody, so nobody is eligible.
LEMMA IInvLeave ==
    ASSUME IInv, TypeOK', NEW t \in Open, LeaveUnassigned(t)
    PROVE  IInv'
<1>1. /\ UNCHANGED <<input, pc, ledger, cursor, assignments>>
      /\ pc = "loop" /\ TypeOK /\ N > 0 /\ cursor \in 0 .. N - 1
      /\ Qualified(t) = {} /\ t \in Task
      /\ unassigned' = [unassigned EXCEPT ![t] = @ + 1]
  BY DEF LeaveUnassigned, Open, Target, IInv, CursorOnRing
<1>2. /\ N' = N
      /\ Target' = Target
      /\ \A a, b : Conflicts(a, b)' = Conflicts(a, b)
      /\ SoundPrior(input)'
  BY <1>1, InputDerived DEF IInv
<1>3. /\ \A w : SeatsOf(w)' = SeatsOf(w)
      /\ \A w : PriorTasks(w)' = PriorTasks(w)
      /\ \A w : Booked(w)' = Booked(w)
  BY <1>1, NoSeatNoBooking
<1>4. LedgerIsBooked' /\ CursorOnRing'
  BY <1>1, <1>2, <1>3 DEF IInv, LedgerIsBooked, CursorOnRing
<1>5. ConflictFree'
  BY <1>1, <1>2, <1>3 DEF IInv, ConflictFree
<1>6. OneSeatPerTask' /\ OnlyTheAvailable'
  BY <1>1, <1>2, <1>3 DEF IInv, OneSeatPerTask, OnlyTheAvailable
<1>7. UnassignedForGood'
  <2>1. ASSUME NEW k \in 1 .. N
        PROVE  ~Eligible(input.availableWorkers[k], t)
    <3>1. PICK step \in 0 .. N - 1 : Candidate(step) = input.availableWorkers[k]
      BY <1>1, ScanMeetsAll
    <3>. QED BY <1>1, <3>1 DEF Qualified
  <2>2. ASSUME NEW u \in Task, unassigned'[u] > 0, NEW k \in 1 .. N
        PROVE  ~Eligible(input.availableWorkers[k], u)
    <3>1. CASE u = t
      BY <2>1, <3>1
    <3>2. CASE u # t
      BY <1>1, <2>2, <3>2 DEF IInv, UnassignedForGood, TypeOK
    <3>. QED BY <3>1, <3>2
  <2>3. ASSUME NEW w, NEW u
        PROVE  Eligible(w, u)' <=> Eligible(w, u)
    BY <1>1, <1>2 DEF Eligible, Holds, BlockedBy
  <2>. QED BY <1>1, <1>2, <2>2, <2>3 DEF UnassignedForGood
<1>. QED
  BY <1>1, <1>2, <1>4, <1>5, <1>6, <1>7 DEF IInv, EntryFresh, NobodyMeansNothing

\* Finish, and steps that change nothing.
LEMMA IInvIdle ==
    ASSUME IInv, TypeOK', Finish \/ Returned \/ UNCHANGED vars
    PROVE  IInv'
<1>1. /\ UNCHANGED <<input, ledger, cursor, filled, assignments, unassigned>>
      /\ pc' = pc \/ (pc = "loop" /\ pc' = "done")
  BY DEF Finish, Returned, vars
<1>2. /\ N' = N
      /\ Target' = Target
      /\ \A a, b : Conflicts(a, b)' = Conflicts(a, b)
      /\ SoundPrior(input)'
  BY <1>1, InputDerived DEF IInv
<1>3. /\ \A w : SeatsOf(w)' = SeatsOf(w)
      /\ \A w : PriorTasks(w)' = PriorTasks(w)
      /\ \A w : Booked(w)' = Booked(w)
  BY <1>1, NoSeatNoBooking
<1>4. LedgerIsBooked' /\ CursorOnRing' /\ EntryFresh' /\ NobodyMeansNothing'
  BY <1>1, <1>2, <1>3
     DEF IInv, LedgerIsBooked, CursorOnRing, EntryFresh, NobodyMeansNothing, NoTasks, NoSeats
<1>5. ConflictFree'
  BY <1>1, <1>2, <1>3 DEF IInv, ConflictFree
<1>6. OneSeatPerTask' /\ OnlyTheAvailable'
  BY <1>1, <1>2, <1>3 DEF IInv, OneSeatPerTask, OnlyTheAvailable
<1>7. UnassignedForGood'
  <2>1. ASSUME NEW w, NEW u
        PROVE  Eligible(w, u)' <=> Eligible(w, u)
    BY <1>1, <1>2 DEF Eligible, Holds, BlockedBy
  <2>. QED BY <1>1, <1>2, <2>1 DEF IInv, UnassignedForGood
<1>. QED
  BY <1>2, <1>4, <1>5, <1>6, <1>7 DEF IInv

LEMMA IInvInductive == IInv /\ [Next]_vars => IInv'
<1>1. IInv /\ [Next]_vars => TypeOK'
  BY TypeInductive DEF IInv
<1>. QED
  BY <1>1, IInvNoWorkers, IInvStart, IInvSeat, IInvLeave, IInvIdle DEF Next, Step

\* It holds as well when a caller enters with sound inputs.
LEMMA IInvCall ==
    ASSUME NEW in, in \in AssignInput, SoundPrior(in), Call(in)
    PROVE  IInv'
<1>1. /\ input' \in AssignInput /\ SoundPrior(input)' /\ pc' = "entry"
      /\ assignments' = <<>> /\ Len(assignments') = 0 /\ unassigned' = NoSeats
      /\ ledger' = NoTasks /\ filled' = NoSeats
  BY DEF Call, SoundPrior
<1>2. TypeOK'
  BY <1>1, ConstantsAssumption DEF Call, TypeOK, NoTasks, NoLoad, NoSeats, AssignInput
<1>3. OnlyTheAvailable' /\ UnassignedForGood'
  BY <1>1 DEF OnlyTheAvailable, UnassignedForGood, NoSeats
<1>. QED
  BY <1>1, <1>2, <1>3
     DEF IInv, EntryFresh, CursorOnRing, NobodyMeansNothing, LedgerIsBooked,
         ConflictFree, OneSeatPerTask

THEOREM Inductive == Spec => []IInv
BY IInvInit, IInvInductive, PTL DEF Spec

\* Nobody is ever given two tasks that exclude each other.
THEOREM ConflictFreedom == Spec => []ConflictFree
BY Inductive, PTL DEF IInv

\* Nobody takes two seats of one task.
THEOREM NoDoubleSeat == Spec => []OneSeatPerTask
BY Inductive, PTL DEF IInv

\* Only the people the caller passed are assigned, to the tasks of the call.
THEOREM AssignsWithinInput == Spec => []OnlyTheAvailable
BY Inductive, PTL DEF IInv

\* A seat reported unassigned could not have been given to anybody, neither
\* then nor with all the later seats given out.
THEOREM NoSeatLeftInVain == Spec => []UnassignedForGood
BY Inductive, PTL DEF IInv

-----------------------------------------------------------------------------
(* Where the cursor stands, and what becomes of every seat. *)

\* The cursor is the caller's until the call has begun.
CursorAtEntry == pc = "entry" => cursor = input.cursor

CursorInv == CursorAtEntry /\ CursorAfterLastSeat

\* A seat puts the cursor right after the one who got it.
LEMMA CursorInvSeat ==
    ASSUME IInv, NEW t \in Open, SeatWorker(t)
    PROVE  CursorInv'
<1>1. /\ input' = input /\ pc' = "loop" /\ pc = "loop" /\ N' = N
      /\ TypeOK /\ N > 0 /\ N \in Nat /\ cursor \in 0 .. N - 1 /\ t \in Task
  BY InputDerived, RosterIsWorkers
     DEF SeatWorker, IInv, CursorOnRing, Open, Target, TypeOK
<1>2. PICK step : SeatGiven(t, step)
  BY SeatWorkerGives
<1>3. /\ Len(assignments') = Len(assignments) + 1
      /\ assignments'[Len(assignments) + 1] = [taskId |-> t, workerId |-> Candidate(step)]
      /\ Len(assignments) \in Nat
  BY <1>1, <1>2, SeatBooks DEF TypeOK
<1>4. assignments'[Len(assignments')].workerId = Candidate(step) /\ assignments' # <<>>
  BY <1>3
<1>5. PICK k \in 0 .. N - 1 : k = (cursor + step) % N
  BY <1>1, <1>2, RingPlace DEF SeatGiven
<1>6. Candidate(step) = input.availableWorkers[k + 1] /\ cursor' = (k + 1) % N
  BY <1>2, <1>5 DEF SeatGiven, Candidate
<1>. QED BY <1>1, <1>4, <1>6 DEF CursorInv, CursorAtEntry, CursorAfterLastSeat

LEMMA CursorInductive ==
    ASSUME IInv, CursorInv, [Next]_vars
    PROVE  CursorInv'
<1>1. CASE NoWorkers
  <2>1. /\ UNCHANGED <<input, cursor, assignments>> /\ N' = N /\ N = 0
        /\ pc' = "done" /\ cursor = input.cursor /\ assignments = <<>>
    BY <1>1, InputDerived
       DEF NoWorkers, IInv, NobodyMeansNothing, CursorInv, CursorAtEntry
  <2>. QED BY <2>1 DEF CursorInv, CursorAtEntry, CursorAfterLastSeat
<1>2. CASE Start
  <2>1. /\ UNCHANGED <<input, assignments>> /\ N' = N /\ N # 0
        /\ pc' = "loop" /\ cursor' = input.cursor % N /\ assignments = <<>>
    BY <1>2, InputDerived DEF Start, IInv, EntryFresh
  <2>. QED BY <2>1 DEF CursorInv, CursorAtEntry, CursorAfterLastSeat
<1>3. ASSUME NEW t \in Open, SeatWorker(t) PROVE CursorInv'
  BY <1>3, CursorInvSeat
<1>4. ASSUME NEW t \in Open, LeaveUnassigned(t) PROVE CursorInv'
  <2>1. UNCHANGED <<input, pc, cursor, assignments>> /\ N' = N
    BY <1>4, InputDerived DEF LeaveUnassigned
  <2>. QED BY <2>1 DEF CursorInv, CursorAtEntry, CursorAfterLastSeat
<1>5. CASE Finish \/ Returned \/ UNCHANGED vars
  <2>1. /\ UNCHANGED <<input, cursor, assignments>> /\ N' = N
        /\ pc' = pc \/ (pc = "loop" /\ pc' = "done")
    BY <1>5, InputDerived DEF Finish, Returned, vars
  <2>. QED BY <2>1 DEF CursorInv, CursorAtEntry, CursorAfterLastSeat
<1>. QED BY <1>1, <1>2, <1>3, <1>4, <1>5 DEF Next, Step

\* The cursor stands right after the worker of the last seat, or where the
\* caller had it: what computeDay stores makes the next call go on from there.
THEOREM CursorFollows == Spec => []CursorAfterLastSeat
<1>1. Init => CursorInv
  BY DEF Init, Idle, CursorInv, CursorAtEntry, CursorAfterLastSeat
<1>2. IInv /\ CursorInv /\ [Next]_vars => CursorInv'
  BY CursorInductive
<1>3. CursorInv => CursorAfterLastSeat
  BY DEF CursorInv
<1>. QED BY <1>1, <1>2, <1>3, Inductive, PTL DEF Spec

-----------------------------------------------------------------------------

\* How many seats the call owes a task.
Owed(t) == IF t \in Target THEN Seats(t) ELSE 0

\* Every seat the loop has been through is assigned or reported.
SeatsCounted ==
    pc = "loop" => \A t \in Task :
        /\ Cardinality(SeatsFor(t)) + unassigned[t] = filled[t]
        /\ filled[t] <= Owed(t)

CountInv == SeatsCounted /\ SeatsAccounted

LEMMA SeatsForFinite ==
    ASSUME TypeOK, NEW t
    PROVE  IsFiniteSet(SeatsFor(t)) /\ Cardinality(SeatsFor(t)) \in Nat
<1>1. Len(assignments) \in Nat
  BY DEF TypeOK
<1>2. IsFiniteSet(1 .. Len(assignments)) /\ SeatsFor(t) \subseteq 1 .. Len(assignments)
  BY <1>1, FS_Interval DEF SeatsFor
<1>. QED BY <1>2, FS_Subset, FS_CardinalityType

LEMMA NoSeatsYet ==
    ASSUME assignments = <<>>, NEW t
    PROVE  Cardinality(SeatsFor(t)) = 0
<1>1. SeatsFor(t) = {}
  BY DEF SeatsFor
<1>. QED BY <1>1, FS_EmptySet

\* A given seat counts for its task, and for no other.
LEMMA SeatCounts ==
    ASSUME TypeOK, NEW t \in Task, NEW step, SeatGiven(t, step), input' = input,
           NEW u \in Task
    PROVE  Cardinality(SeatsFor(u)')
             = IF u = t THEN Cardinality(SeatsFor(u)) + 1 ELSE Cardinality(SeatsFor(u))
<1>1. PICK n \in Nat : n = Len(assignments)
  BY DEF TypeOK
<1>2. /\ Len(assignments') = n + 1
      /\ \A i \in 1 .. n : assignments'[i] = assignments[i]
      /\ assignments'[n + 1] = [taskId |-> t, workerId |-> Candidate(step)]
  BY <1>1, SeatBooks
<1>3. SeatsFor(u)' = IF u = t THEN SeatsFor(u) \cup {n + 1} ELSE SeatsFor(u)
  BY <1>1, <1>2 DEF SeatsFor
<1>4. n + 1 \notin SeatsFor(u)
  BY <1>1 DEF SeatsFor
<1>. QED BY <1>3, <1>4, SeatsForFinite, FS_AddElement

\* The next seat of an open task is one it is owed.
LEMMA OpenIsOwed ==
    ASSUME TypeOK, NEW t \in Open
    PROVE  filled[t] + 1 <= Owed(t)
<1>1. t \in Task /\ t \in Target /\ filled[t] < Required(t) /\ filled[t] \in Nat
  BY DEF Open, Target, TypeOK
<1>2. Required(t) \in Int
  BY <1>1, SeatsType DEF TypeOK
<1>. QED BY <1>1, <1>2 DEF Owed, Seats

LEMMA CountInductive ==
    ASSUME IInv, CountInv, [Next]_vars
    PROVE  CountInv'
<1>0. TypeOK /\ \A t \in Task : Owed(t) \in Nat
  BY SeatsType DEF IInv, TypeOK, Owed
<1>1. CASE NoWorkers
  <2>1. /\ pc' = "done" /\ assignments' = <<>> /\ input' = input
        /\ unassigned' = [t \in Task |-> Owed(t)]
    BY <1>1 DEF NoWorkers, IInv, EntryFresh, Owed
  <2>2. \A t : Owed(t)' = Owed(t)
    BY <2>1, InputDerived DEF Owed, Seats, Required
  <2>3. \A t : Cardinality(SeatsFor(t)') = 0
    <3>1. \A t : SeatsFor(t)' = {}
      BY <2>1 DEF SeatsFor
    <3>. QED BY <3>1, FS_EmptySet
  <2>4. \A t \in Task : Cardinality(SeatsFor(t)') + unassigned'[t] = Owed(t)'
    BY <1>0, <2>1, <2>2, <2>3
  <2>. QED BY <2>1, <2>4 DEF CountInv, SeatsCounted, SeatsAccounted, Owed
<1>2. CASE Start
  <2>1. /\ pc' = "loop" /\ assignments = <<>>
        /\ UNCHANGED <<input, assignments, filled, unassigned>>
        /\ filled = NoSeats /\ unassigned = NoSeats
    BY <1>2 DEF Start, IInv, EntryFresh
  <2>2. \A t : Owed(t)' = Owed(t)
    BY <2>1, InputDerived DEF Owed, Seats, Required
  <2>3. \A t : Cardinality(SeatsFor(t)') = 0
    <3>1. \A t : SeatsFor(t)' = {}
      BY <2>1 DEF SeatsFor
    <3>. QED BY <3>1, FS_EmptySet
  <2>. QED BY <1>0, <2>1, <2>2, <2>3 DEF CountInv, SeatsCounted, SeatsAccounted, NoSeats
<1>3. ASSUME NEW t \in Open, SeatWorker(t) PROVE CountInv'
  <2>1. /\ pc = "loop" /\ pc' = "loop" /\ input' = input /\ unassigned' = unassigned
        /\ filled' = [filled EXCEPT ![t] = @ + 1] /\ t \in Task
    BY <1>3 DEF SeatWorker, Open, Target
  <2>2. PICK step : SeatGiven(t, step)
    BY <1>3, SeatWorkerGives
  <2>3. \A u : Owed(u)' = Owed(u)
    BY <2>1, InputDerived DEF Owed, Seats, Required
  <2>4. ASSUME NEW u \in Task
        PROVE  /\ Cardinality(SeatsFor(u)') + unassigned'[u] = filled'[u]
               /\ filled'[u] <= Owed(u)
    <3>1. /\ Cardinality(SeatsFor(u)) + unassigned[u] = filled[u]
          /\ filled[u] <= Owed(u)
          /\ unassigned[u] \in Nat /\ filled[u] \in Nat
          /\ filled \in [Task -> Nat]
      BY <1>0, <2>1 DEF CountInv, SeatsCounted, TypeOK
    <3>2. Cardinality(SeatsFor(u)')
            = IF u = t THEN Cardinality(SeatsFor(u)) + 1 ELSE Cardinality(SeatsFor(u))
      BY <1>0, <2>1, <2>2, SeatCounts
    <3>3. Cardinality(SeatsFor(u)) \in Nat
      BY <1>0, SeatsForFinite
    <3>4. CASE u = t
      BY <1>0, <2>1, <3>1, <3>2, <3>3, <3>4, OpenIsOwed
    <3>5. CASE u # t
      BY <2>1, <3>1, <3>2, <3>3, <3>5
    <3>. QED BY <3>4, <3>5
  <2>. QED BY <2>1, <2>3, <2>4 DEF CountInv, SeatsCounted, SeatsAccounted
<1>4. ASSUME NEW t \in Open, LeaveUnassigned(t) PROVE CountInv'
  <2>1. /\ pc = "loop" /\ pc' = "loop" /\ UNCHANGED <<input, assignments>>
        /\ unassigned' = [unassigned EXCEPT ![t] = @ + 1]
        /\ filled' = [filled EXCEPT ![t] = @ + 1] /\ t \in Task
    BY <1>4 DEF LeaveUnassigned, Open, Target
  <2>2. \A u : Owed(u)' = Owed(u) /\ SeatsFor(u)' = SeatsFor(u)
    BY <2>1, InputDerived DEF Owed, Seats, Required, SeatsFor
  <2>3. ASSUME NEW u \in Task
        PROVE  /\ Cardinality(SeatsFor(u)) + unassigned'[u] = filled'[u]
               /\ filled'[u] <= Owed(u)
    <3>1. /\ Cardinality(SeatsFor(u)) + unassigned[u] = filled[u]
          /\ filled[u] <= Owed(u)
          /\ unassigned \in [Task -> Nat] /\ filled \in [Task -> Nat]
      BY <1>0, <2>1 DEF CountInv, SeatsCounted, TypeOK
    <3>2. Cardinality(SeatsFor(u)) \in Nat
      BY <1>0, SeatsForFinite
    <3>3. CASE u = t
      BY <1>0, <2>1, <3>1, <3>2, <3>3, OpenIsOwed
    <3>4. CASE u # t
      BY <2>1, <3>1, <3>2, <3>4
    <3>. QED BY <3>3, <3>4
  <2>. QED BY <2>1, <2>2, <2>3 DEF CountInv, SeatsCounted, SeatsAccounted
<1>5. CASE Finish
  <2>1. /\ pc = "loop" /\ pc' = "done" /\ Open = {}
        /\ UNCHANGED <<input, assignments, filled, unassigned>>
    BY <1>5 DEF Finish
  <2>2. \A u : Owed(u)' = Owed(u) /\ SeatsFor(u)' = SeatsFor(u)
    BY <2>1, InputDerived DEF Owed, Seats, Required, SeatsFor
  <2>3. ASSUME NEW u \in Task
        PROVE  Cardinality(SeatsFor(u)) + unassigned[u] = Owed(u)
    <3>1. /\ Cardinality(SeatsFor(u)) + unassigned[u] = filled[u]
          /\ filled[u] <= Owed(u) /\ filled[u] \in Nat /\ Required(u) \in Int
      BY <1>0, <2>1, SeatsType DEF CountInv, SeatsCounted, TypeOK
    <3>2. u \in Target => filled[u] >= Required(u)
      BY <2>1, <3>1 DEF Open
    <3>. QED BY <3>1, <3>2 DEF Owed, Seats
  <2>. QED BY <2>1, <2>2, <2>3 DEF CountInv, SeatsCounted, SeatsAccounted, Owed
<1>6. CASE Returned \/ UNCHANGED vars
  <2>1. UNCHANGED <<input, pc, assignments, filled, unassigned>>
    BY <1>6 DEF Returned, vars
  <2>2. \A u : Owed(u)' = Owed(u) /\ SeatsFor(u)' = SeatsFor(u)
    BY <2>1, InputDerived DEF Owed, Seats, Required, SeatsFor
  <2>. QED BY <2>1, <2>2 DEF CountInv, SeatsCounted, SeatsAccounted, Owed
<1>. QED BY <1>1, <1>2, <1>3, <1>4, <1>5, <1>6 DEF Next, Step

\* A returned call has accounted for every seat of every due task exactly
\* once (the two push_back of the loop and foldUnassigned).
THEOREM EverySeatAccounted == Spec => []SeatsAccounted
<1>1. Init => CountInv
  BY DEF Init, Idle, CountInv, SeatsCounted, SeatsAccounted
<1>2. IInv /\ CountInv /\ [Next]_vars => CountInv'
  BY CountInductive
<1>3. CountInv => SeatsAccounted
  BY DEF CountInv
<1>. QED BY <1>1, <1>2, <1>3, Inductive, PTL DEF Spec

-----------------------------------------------------------------------------
(* The rotation is fair where nothing excludes anything. *)

\* No exclusion is declared, and nothing is carried over.
Plain ==
    /\ \A a, b \in Task : ~Conflicts(a, b)
    /\ \A w \in Worker : PriorTasks(w) = {}

\* The score a worker is chosen by is the number of seats he has.
LoadIsSeats ==
    (pc # "entry" /\ N > 0 /\ Plain)
        => \A w \in Worker : load[w] = Cardinality(SeatsOf(w))

\* Who holds a task got it from this call.
HeldIsFilled ==
    (pc = "loop" /\ Plain)
        => \A w \in Worker, t \in Task : t \in ledger[w] => filled[t] > 0

\* A task is finished before the next one is begun.
InTurn == pc = "loop" => \A t \in Open : filled[t] > 0 => IsCurrent(t)

Even ==
    (pc # "entry" /\ N > 0 /\ Plain)
        => \A j, k \in 1 .. N :
              load[input.availableWorkers[j]] <= load[input.availableWorkers[k]] + 1

\* While a task is being filled, those who wait for it have no more to do
\* than those who have it.
WaitersHaveLess ==
    (pc = "loop" /\ Plain)
        => \A t \in Open, j, k \in 1 .. N :
              (/\ t \notin ledger[input.availableWorkers[j]]
               /\ t \in ledger[input.availableWorkers[k]])
              => load[input.availableWorkers[j]] <= load[input.availableWorkers[k]]

FairInv == LoadIsSeats /\ HeldIsFilled /\ InTurn /\ Even /\ WaitersHaveLess

LEMMA PlainStays ==
    ASSUME input' = input
    PROVE  Plain' <=> Plain
BY DEF Plain, Conflicts, PriorTasks

LEMMA SeatsOfFinite ==
    ASSUME TypeOK, NEW w
    PROVE  IsFiniteSet(SeatsOf(w)) /\ Cardinality(SeatsOf(w)) \in Nat
<1>1. Len(assignments) \in Nat
  BY DEF TypeOK
<1>2. IsFiniteSet(1 .. Len(assignments)) /\ SeatsOf(w) \subseteq 1 .. Len(assignments)
  BY <1>1, FS_Interval DEF SeatsOf
<1>. QED BY <1>2, FS_Subset, FS_CardinalityType

\* Nobody who might be chosen has less than the one who is.
LEMMA ChosenHasLeast ==
    ASSUME TypeOK, NEW t \in Open, SeatWorker(t), N > 0, cursor \in 0 .. N - 1, Plain
    PROVE  \E step \in 0 .. N - 1 :
              /\ SeatGiven(t, step)
              /\ t \notin ledger[Candidate(step)]
              /\ \A k \in 1 .. N :
                    t \notin ledger[input.availableWorkers[k]]
                       => load[Candidate(step)] <= load[input.availableWorkers[k]]
<1>0. t \in Task /\ N \in Nat
  BY RosterIsWorkers DEF Open, Target, TypeOK
<1>1. PICK step \in 0 .. N - 1 : Best(t, step) /\ SeatGiven(t, step)
  BY DEF SeatWorker, NextCursor, SeatGiven, Best, Qualified
<1>2. Eligible(Candidate(step), t) /\ t \notin ledger[Candidate(step)]
  BY <1>1 DEF SeatGiven, Eligible, Holds
<1>3. Candidate(step) \in Worker
  BY <1>0, CandidateIsWorker DEF TypeOK
<1>4. ASSUME NEW k \in 1 .. N, t \notin ledger[input.availableWorkers[k]]
      PROVE  load[Candidate(step)] <= load[input.availableWorkers[k]]
  <2>1. PICK other \in 0 .. N - 1 : Candidate(other) = input.availableWorkers[k]
    BY ScanMeetsAll
  <2>2. Candidate(other) \in Worker /\ ledger[Candidate(other)] \subseteq Task
    BY <2>1, <1>0, CandidateIsWorker DEF TypeOK
  <2>3. Eligible(Candidate(other), t)
    BY <1>0, <1>4, <2>1, <2>2 DEF Eligible, Holds, BlockedBy, Plain
  <2>4. other \in Qualified(t)
    BY <2>3 DEF Qualified
  <2>5. load[Candidate(step)] \in Nat /\ load[Candidate(other)] \in Nat
    BY <1>3, <2>2 DEF TypeOK
  <2>6. \/ load[Candidate(step)] < load[Candidate(other)]
        \/ load[Candidate(step)] = load[Candidate(other)]
    BY <1>1, <2>4 DEF Best, Score
  <2>. QED BY <2>1, <2>5, <2>6
<1>. QED BY <1>1, <1>2, <1>4

\* A step of the current task leaves it, and it alone, begun.
LEMMA TurnKept ==
    ASSUME TypeOK, InTurn, pc = "loop", NEW t \in Open, IsCurrent(t),
           input' = input, place' = place, filled' = [filled EXCEPT ![t] = @ + 1]
    PROVE  /\ InTurn'
           /\ Open' \subseteq Open
           /\ \A u \in Open' \ {t} : filled[u] = 0
<1>1. /\ t \in Task /\ t \in Target /\ filled \in [Task -> Nat] /\ place \in [Task -> Nat]
      /\ filled' \in [Task -> Nat] /\ Target \subseteq Task
  BY DEF Open, Target, TypeOK
<1>2. Target' = Target /\ \A u \in Task : Required(u)' = Required(u) /\ Required(u) \in Int
  BY InputDerived, SeatsType DEF Required, TypeOK
<1>3. \A u \in Task : filled'[u] = IF u = t THEN filled[u] + 1 ELSE filled[u]
  BY <1>1
<1>4. Open' \subseteq Open
  BY <1>1, <1>2, <1>3 DEF Open
<1>5. ASSUME NEW u \in Open \ {t} PROVE filled[u] = 0
  <2>1. place[t] < place[u] /\ place[t] \in Nat /\ place[u] \in Nat /\ filled[u] \in Nat
    BY <1>1, <1>5 DEF IsCurrent, Open
  <2>2. filled[u] > 0 => place[u] < place[t]
    BY <1>1, <1>5 DEF InTurn, IsCurrent
  <2>. QED BY <2>1, <2>2
<1>6. ASSUME NEW u \in Open', filled'[u] > 0, NEW v \in Open', v # u
      PROVE  place[u] < place[v]
  <2>1. u = t
    BY <1>1, <1>3, <1>4, <1>5, <1>6 DEF Open
  <2>. QED BY <1>4, <1>6, <2>1 DEF IsCurrent
<1>7. InTurn'
  BY <1>6 DEF InTurn, IsCurrent
<1>. QED BY <1>4, <1>5, <1>7

LEMMA FairStart ==
    ASSUME IInv, FairInv, TypeOK', Start
    PROVE  FairInv'
<1>1. /\ UNCHANGED <<input, filled, assignments>> /\ pc' = "loop" /\ N' = N /\ Plain' = Plain
      /\ assignments = <<>> /\ filled = NoSeats
      /\ ledger' = [w \in Worker |-> PriorTasks(w)]
      /\ load' = [w \in Worker |-> Cardinality(PriorTasks(w))]
  BY InputDerived DEF Start, IInv, EntryFresh, Plain, Conflicts, PriorTasks
<1>2. \A w : SeatsOf(w)' = {}
  BY <1>1 DEF SeatsOf
<1>3. Plain => \A w \in Worker : load'[w] = 0 /\ ledger'[w] = {}
  BY <1>1, FS_EmptySet DEF Plain
<1>4. LoadIsSeats' /\ HeldIsFilled'
  BY <1>1, <1>2, <1>3, FS_EmptySet DEF LoadIsSeats, HeldIsFilled
<1>5. InTurn'
  <2>1. Open' \subseteq Task
    BY DEF Open, Target
  <2>. QED BY <1>1, <2>1 DEF InTurn, NoSeats
<1>6. \A k \in 1 .. N : input'.availableWorkers[k] \in Worker
  BY <1>1, RosterIsWorkers DEF IInv, TypeOK
<1>7. Even' /\ WaitersHaveLess'
  BY <1>1, <1>3, <1>6 DEF Even, WaitersHaveLess
<1>. QED BY <1>4, <1>5, <1>7 DEF FairInv

\* The seat goes to the one with least: he comes up to the others, no further.
LEMMA FairSeat ==
    ASSUME IInv, FairInv, NEW t \in Open, IsCurrent(t), SeatWorker(t)
    PROVE  FairInv'
<1>1. /\ TypeOK /\ pc = "loop" /\ pc' = "loop" /\ input' = input /\ place' = place
      /\ filled' = [filled EXCEPT ![t] = @ + 1] /\ t \in Task
      /\ N > 0 /\ cursor \in 0 .. N - 1 /\ N \in Nat /\ N' = N
  BY RosterIsWorkers, InputDerived DEF SeatWorker, IInv, CursorOnRing, Open, Target, TypeOK
<1>2. InTurn' /\ Open' \subseteq Open /\ \A u \in Open' \ {t} : filled[u] = 0
  BY <1>1, TurnKept DEF FairInv
<1>3. Plain' <=> Plain
  BY <1>1, PlainStays
<1>4. ASSUME Plain
      PROVE  LoadIsSeats' /\ HeldIsFilled' /\ Even' /\ WaitersHaveLess'
  <2>1. PICK step \in 0 .. N - 1 :
              /\ SeatGiven(t, step)
              /\ t \notin ledger[Candidate(step)]
              /\ \A k \in 1 .. N :
                    t \notin ledger[input.availableWorkers[k]]
                       => load[Candidate(step)] <= load[input.availableWorkers[k]]
    BY <1>1, <1>4, ChosenHasLeast
  <2>2. PICK w0 \in Worker : w0 = Candidate(step)
    BY <1>1, CandidateIsWorker DEF TypeOK
  <2>3. /\ load \in [Worker -> Nat] /\ ledger \in [Worker -> SUBSET Task]
        /\ filled \in [Task -> Nat]
        /\ load' = [load EXCEPT ![w0] = @ + 1]
        /\ ledger' = [ledger EXCEPT ![w0] = @ \cup {t}]
    BY <1>1, <2>1, <2>2 DEF SeatGiven, TypeOK
  <2>4. /\ \A w \in Worker : load'[w] = IF w = w0 THEN load[w] + 1 ELSE load[w]
        /\ \A w \in Worker : ledger'[w] = IF w = w0 THEN ledger[w] \cup {t} ELSE ledger[w]
        /\ \A w \in Worker : load[w] \in Nat /\ load'[w] \in Nat /\ load'[w] >= load[w]
    <3>1. \A w \in Worker : load'[w] = IF w = w0 THEN load[w] + 1 ELSE load[w]
      BY <2>3
    <3>2. \A w \in Worker : ledger'[w] = IF w = w0 THEN ledger[w] \cup {t} ELSE ledger[w]
      BY <2>3
    <3>3. \A w \in Worker : load[w] \in Nat
      BY <2>3
    <3>. QED BY <3>1, <3>2, <3>3
  <2>5. \A k \in 1 .. N : input.availableWorkers[k] \in Worker
    BY <1>1, RosterIsWorkers DEF TypeOK
  <2>6. \A j, k \in 1 .. N :
              load[input.availableWorkers[j]] <= load[input.availableWorkers[k]] + 1
    BY <1>1, <1>4 DEF FairInv, Even
  <2>7. \A u \in Open, j, k \in 1 .. N :
              (/\ u \notin ledger[input.availableWorkers[j]]
               /\ u \in ledger[input.availableWorkers[k]])
              => load[input.availableWorkers[j]] <= load[input.availableWorkers[k]]
    BY <1>1, <1>4 DEF FairInv, WaitersHaveLess
  <2>8. PICK k0 \in 1 .. N : w0 = input.availableWorkers[k0]
    <3>1. (cursor + step) % N \in 0 .. N - 1
      BY <1>1, RingPlace
    <3>2. ((cursor + step) % N) + 1 \in 1 .. N
      BY <1>1, <3>1
    <3>. QED BY <2>2, <3>2 DEF Candidate
  <2>9. LoadIsSeats'
    <3>1. \A w \in Worker : load[w] = Cardinality(SeatsOf(w))
      BY <1>1, <1>4 DEF FairInv, LoadIsSeats
    <3>2. Len(assignments) \in Nat
      BY <1>1 DEF TypeOK
    <3>3. \A w \in Worker : SeatsOf(w)' = IF w = w0 THEN SeatsOf(w) \cup {Len(assignments) + 1}
                                           ELSE SeatsOf(w)
      BY <1>1, <2>1, <2>2, SeatBooks
    <3>4. \A w : Len(assignments) + 1 \notin SeatsOf(w)
      BY <3>2 DEF SeatsOf
    <3>5. \A w \in Worker :
             Cardinality(SeatsOf(w)') = IF w = w0 THEN Cardinality(SeatsOf(w)) + 1
                                        ELSE Cardinality(SeatsOf(w))
      BY <1>1, <3>3, <3>4, SeatsOfFinite, FS_AddElement
    <3>6. \A w \in Worker : load'[w] = Cardinality(SeatsOf(w)')
      BY <2>4, <3>1, <3>5
    <3>. QED BY <3>6 DEF LoadIsSeats
  <2>10. HeldIsFilled'
    <3>1. \A w \in Worker, u \in Task : u \in ledger[w] => filled[u] > 0
      BY <1>1, <1>4 DEF FairInv, HeldIsFilled
    <3>2. \A u \in Task : filled'[u] = IF u = t THEN filled[u] + 1 ELSE filled[u]
      BY <1>1, <2>3
    <3>3. \A w \in Worker, u \in Task : u \in ledger'[w] => filled'[u] > 0
      BY <2>3, <2>4, <3>1, <3>2
    <3>. QED BY <3>3 DEF HeldIsFilled
  <2>11. Even'
    <3>1. ASSUME NEW j \in 1 .. N, NEW k \in 1 .. N
          PROVE  load'[input.availableWorkers[j]] <= load'[input.availableWorkers[k]] + 1
      <4>1. PICK a \in Worker, b \in Worker :
                a = input.availableWorkers[j] /\ b = input.availableWorkers[k]
        BY <2>5
      <4>2. load[a] <= load[b] + 1
        BY <2>6, <4>1
      <4>3. CASE a = w0
        <5>1. load[w0] <= load[b]
          BY <1>1, <2>1, <2>2, <2>7, <2>8, <4>1
        <5>2. load'[w0] = load[w0] + 1 /\ load'[b] >= load[b] /\ load[w0] \in Nat
              /\ load[b] \in Nat /\ load'[b] \in Nat
          BY <2>4
        <5>3. load'[w0] <= load'[b] + 1
          BY <5>1, <5>2
        <5>. QED BY <4>1, <4>3, <5>3
      <4>4. CASE a # w0
        <5>1. load'[a] = load[a] /\ load'[b] >= load[b] /\ load[a] \in Nat
              /\ load[b] \in Nat /\ load'[b] \in Nat
          BY <2>4, <4>4
        <5>2. load'[a] <= load'[b] + 1
          BY <4>2, <5>1
        <5>. QED BY <4>1, <5>2
      <4>. QED BY <4>3, <4>4
    <3>. QED BY <1>1, <3>1 DEF Even
  <2>12. WaitersHaveLess'
    <3>1. ASSUME NEW u \in Open', NEW j \in 1 .. N, NEW k \in 1 .. N,
                 u \notin ledger'[input.availableWorkers[j]],
                 u \in ledger'[input.availableWorkers[k]]
          PROVE  load'[input.availableWorkers[j]] <= load'[input.availableWorkers[k]]
      <4>1. PICK a \in Worker, b \in Worker :
                a = input.availableWorkers[j] /\ b = input.availableWorkers[k]
        BY <2>5
      <4>2. u = t
        <5>1. CASE u # t
          <6>1. u \in ledger[b] /\ u \in Task /\ filled[u] = 0
            <7>1. u \in Open /\ filled[u] = 0
              BY <1>2, <3>1, <5>1
            <7>2. u \in ledger[b]
              BY <2>4, <3>1, <4>1, <5>1
            <7>. QED BY <7>1, <7>2 DEF Open, Target
          <6>2. filled[u] > 0
            BY <1>1, <1>4, <6>1 DEF FairInv, HeldIsFilled
          <6>. QED BY <6>1, <6>2
        <5>. QED BY <5>1
      <4>3. a # w0 /\ t \notin ledger[a] /\ load'[a] = load[a]
        BY <2>4, <3>1, <4>1, <4>2
      <4>4. CASE b = w0
        <5>1. load[a] <= load[w0] + 1 /\ load'[w0] = load[w0] + 1
          BY <2>4, <2>6, <2>8, <4>1
        <5>. QED BY <4>1, <4>3, <4>4, <5>1
      <4>5. CASE b # w0
        <5>1. t \in ledger[b] /\ load'[b] = load[b]
          BY <2>4, <3>1, <4>1, <4>2, <4>5
        <5>2. load[a] <= load[b]
          BY <1>2, <2>7, <4>1, <4>2, <4>3, <5>1
        <5>. QED BY <4>1, <4>3, <5>1, <5>2
      <4>. QED BY <4>4, <4>5
    <3>. QED BY <1>1, <3>1 DEF WaitersHaveLess
  <2>. QED BY <2>9, <2>10, <2>11, <2>12
<1>5. ASSUME ~Plain
      PROVE  LoadIsSeats' /\ HeldIsFilled' /\ Even' /\ WaitersHaveLess'
  BY <1>3, <1>5 DEF LoadIsSeats, HeldIsFilled, Even, WaitersHaveLess
<1>. QED BY <1>2, <1>4, <1>5 DEF FairInv

LEMMA FairInductive ==
    ASSUME IInv, FairInv, TypeOK', [Next]_vars
    PROVE  FairInv'
<1>1. CASE NoWorkers
  <2>1. N = 0 /\ N' = N /\ pc' = "done"
    BY <1>1, InputDerived DEF NoWorkers
  <2>. QED BY <2>1 DEF FairInv, LoadIsSeats, HeldIsFilled, InTurn, Even, WaitersHaveLess
<1>2. CASE Start
  BY <1>2, FairStart
<1>3. ASSUME NEW t \in Open, IsCurrent(t), SeatWorker(t) PROVE FairInv'
  BY <1>3, FairSeat
<1>4. ASSUME NEW t \in Open, IsCurrent(t), LeaveUnassigned(t) PROVE FairInv'
  <2>1. /\ pc = "loop" /\ pc' = "loop" /\ UNCHANGED <<input, ledger, load, place, assignments>>
        /\ filled' = [filled EXCEPT ![t] = @ + 1] /\ TypeOK
    BY <1>4 DEF LeaveUnassigned, IInv
  <2>2. InTurn' /\ Open' \subseteq Open
    BY <1>4, <2>1, TurnKept DEF FairInv
  <2>3. N' = N /\ (Plain' <=> Plain) /\ \A w : SeatsOf(w)' = SeatsOf(w)
    BY <2>1, InputDerived, PlainStays DEF SeatsOf
  <2>4. \A u \in Task : filled'[u] >= filled[u] /\ filled[u] \in Nat /\ filled'[u] \in Nat
    BY <2>1, <1>4 DEF TypeOK, Open, Target
  <2>5. HeldIsFilled'
    BY <2>1, <2>3, <2>4 DEF FairInv, HeldIsFilled
  <2>6. LoadIsSeats' /\ Even'
    BY <2>1, <2>3 DEF FairInv, LoadIsSeats, Even
  <2>7. WaitersHaveLess'
    BY <2>1, <2>2, <2>3 DEF FairInv, WaitersHaveLess
  <2>. QED BY <2>2, <2>5, <2>6, <2>7 DEF FairInv
<1>5. CASE Finish \/ Returned \/ UNCHANGED vars
  <2>1. /\ UNCHANGED <<input, ledger, load, place, filled, assignments>>
        /\ pc' = pc \/ (pc = "loop" /\ pc' = "done")
    BY <1>5 DEF Finish, Returned, vars
  <2>2. /\ N' = N /\ (Plain' <=> Plain) /\ Open' = Open
        /\ \A w : SeatsOf(w)' = SeatsOf(w)
    BY <2>1, InputDerived, PlainStays DEF SeatsOf, Open, Required
  <2>3. LoadIsSeats' /\ HeldIsFilled' /\ Even' /\ WaitersHaveLess'
    BY <2>1, <2>2 DEF FairInv, LoadIsSeats, HeldIsFilled, Even, WaitersHaveLess
  <2>4. InTurn'
    BY <2>1, <2>2 DEF FairInv, InTurn, IsCurrent
  <2>. QED BY <2>3, <2>4 DEF FairInv
<1>. QED BY <1>1, <1>2, <1>3, <1>4, <1>5 DEF Next, Step

\* Where nothing excludes anything, two available people differ by one seat
\* at most, at every moment: the scan takes the least load it meets.
THEOREM Fairness == Spec => []FairWithoutConflicts
<1>1. Init => FairInv
  BY DEF Init, Idle, FairInv, LoadIsSeats, HeldIsFilled, InTurn, Even, WaitersHaveLess
<1>2. IInv /\ FairInv /\ TypeOK' /\ [Next]_vars => FairInv'
  BY FairInductive
<1>3. IInv /\ FairInv => FairWithoutConflicts
  <2>. SUFFICES ASSUME IInv, FairInv, pc # "entry", Plain,
                       NEW j \in 1 .. N, NEW k \in 1 .. N
                PROVE  Cardinality(SeatsOf(input.availableWorkers[j]))
                         <= Cardinality(SeatsOf(input.availableWorkers[k])) + 1
    BY DEF FairWithoutConflicts, Plain
  <2>1. N > 0 /\ \A i \in 1 .. N : input.availableWorkers[i] \in Worker
    BY RosterIsWorkers DEF IInv, TypeOK
  <2>. QED BY <2>1 DEF FairInv, LoadIsSeats, Even
<1>. QED BY <1>1, <1>2, <1>3, Inductive, TypeCorrect, PTL DEF Spec

-----------------------------------------------------------------------------
(* The first round of the rotation. *)

\* Who gets the i-th seat of a first round: the place after the cursor of the
\* caller, and so on round the ring.
Turn(i) == input.availableWorkers[(((input.cursor % N) + (i - 1)) % N) + 1]

\* With nothing carried over, whatever excludes what, the first N seats go round
\* in order, to N people; until then whoever has no seat has no load.
FirstRound ==
    (pc # "entry" /\ N > 0 /\ \A w \in Worker : PriorTasks(w) = {}) =>
        /\ \A i \in 1 .. Len(assignments) : i <= N => assignments[i].workerId = Turn(i)
        /\ Len(assignments) < N => cursor = ((input.cursor % N) + Len(assignments)) % N
        /\ \A w \in Worker : SeatsOf(w) = {} => load[w] = 0

\* Walking on from a place of the ring, less than a round, in plain numbers.
LEMMA RingSum ==
    ASSUME NEW n \in Nat, n > 0, NEW c \in 0 .. n - 1, NEW i \in 0 .. n
    PROVE  (c + i) % n = IF c + i < n THEN c + i ELSE c + i - n
<1>1. CASE c + i < n
  BY <1>1
<1>2. CASE c + i >= n
  <2>1. PICK j \in 0 .. n - 1 : c + i = j + n
    BY <1>2
  <2>2. (j + n) % n = j
    OBVIOUS
  <2>. QED BY <1>2, <2>1, <2>2
<1>. QED BY <1>1, <1>2

\* The first n places met are different ones, and each follows the one before.
LEMMA RingOrder ==
    ASSUME NEW n \in Nat, n > 0, NEW c \in 0 .. n - 1
    PROVE  /\ \A i, j \in 0 .. n - 1 : i # j => (c + i) % n # (c + j) % n
           /\ \A i \in 0 .. n - 1 : (((c + i) % n) + 1) % n = (c + (i + 1)) % n
<1>1. ASSUME NEW i \in 0 .. n - 1, NEW j \in 0 .. n - 1, i # j
      PROVE  (c + i) % n # (c + j) % n
  BY <1>1, RingSum
<1>2. ASSUME NEW i \in 0 .. n - 1
      PROVE  (((c + i) % n) + 1) % n = (c + (i + 1)) % n
  <2>1. PICK p \in 0 .. n - 1 : p = (c + i) % n
    BY RingPlace
  <2>2. (p + 1) % n = IF p + 1 < n THEN p + 1 ELSE p + 1 - n
    BY RingSum
  <2>3. (c + i) % n = IF c + i < n THEN c + i ELSE c + i - n
    BY RingSum
  <2>4. (c + (i + 1)) % n = IF c + (i + 1) < n THEN c + (i + 1) ELSE c + (i + 1) - n
    BY RingSum
  <2>. QED BY <2>1, <2>2, <2>3, <2>4
<1>. QED BY <1>1, <1>2

LEMMA RingHere ==
    ASSUME NEW n \in Nat, n > 0, NEW c \in 0 .. n - 1
    PROVE  (c + 0) % n = c
<1>1. 0 \in 0 .. n /\ c + 0 = c /\ c < n
  OBVIOUS
<1>. QED BY <1>1, RingSum

\* Somebody without a seat, first in the scan, is the one who is chosen.
LEMMA FirstIsChosen ==
    ASSUME IInv, NEW t \in Open, SeatWorker(t), N > 0, cursor \in 0 .. N - 1,
           ledger[Candidate(0)] = {}, load[Candidate(0)] = 0
    PROVE  SeatGiven(t, 0)
<1>1. TypeOK /\ N \in Nat /\ t \in Task
  BY RosterIsWorkers DEF IInv, TypeOK, Open, Target
<1>2. PICK step \in 0 .. N - 1 : Best(t, step) /\ SeatGiven(t, step)
  BY DEF SeatWorker, NextCursor, SeatGiven, Best, Qualified
<1>3. 0 \in Qualified(t)
  BY <1>1 DEF Qualified, Eligible, Holds, BlockedBy
<1>4. Candidate(step) \in Worker
  BY <1>1, CandidateIsWorker DEF TypeOK
<1>5. load[Candidate(step)] \in Nat
  BY <1>1, <1>4 DEF TypeOK
<1>6. \/ load[Candidate(step)] < load[Candidate(0)]
      \/ load[Candidate(step)] = load[Candidate(0)] /\ step <= 0
  BY <1>2, <1>3 DEF Best, Score
<1>7. step = 0
  BY <1>5, <1>6
<1>. QED BY <1>2, <1>7

\* While the first round lasts, whoever is first in the scan has no seat.
LEMMA NextIsUnseated ==
    ASSUME IInv, FirstRound, pc # "entry", \A w \in Worker : PriorTasks(w) = {},
           NEW n \in Nat, n = Len(assignments), n < N
    PROVE  /\ Candidate(0) = Turn(n + 1)
           /\ Candidate(0) = input.availableWorkers[cursor + 1]
           /\ cursor \in 0 .. N - 1
           /\ Candidate(0) \in Worker
           /\ SeatsOf(Candidate(0)) = {}
           /\ ledger[Candidate(0)] = {} /\ load[Candidate(0)] = 0
<1>0. /\ TypeOK /\ N \in Nat /\ N > 0
      /\ input.availableWorkers \in Roster /\ N = Len(input.availableWorkers)
  BY RosterIsWorkers DEF IInv, TypeOK, AssignInput, N
<1>2. PICK c \in 0 .. N - 1 : c = input.cursor % N
  <2>1. input.cursor \in Int
    BY <1>0 DEF TypeOK, AssignInput
  <2>. QED BY <1>0, <2>1, RingPlace
<1>3. cursor = (c + n) % N
  BY <1>0, <1>2 DEF FirstRound
<1>1. /\ TypeOK /\ N \in Nat /\ N > 0 /\ cursor \in 0 .. N - 1
      /\ input.availableWorkers \in Roster /\ N = Len(input.availableWorkers)
  <2>1. c + n \in Int
    OBVIOUS
  <2>. QED BY <1>0, <1>3, <2>1, RingPlace
<1>4. Candidate(0) = input.availableWorkers[((c + n) % N) + 1]
  <2>1. (cursor + 0) % N = cursor
    BY <1>1, RingHere
  <2>. QED BY <1>3, <2>1 DEF Candidate
<1>5. Candidate(0) = Turn(n + 1)
  <2>1. (n + 1) - 1 = n
    OBVIOUS
  <2>. QED BY <1>2, <1>4, <2>1 DEF Turn
<1>6. Candidate(0) \in Worker
  <2>1. input \in AssignInput /\ cursor \in Int /\ N > 0 /\ 0 \in 0 .. N - 1
    BY <1>1 DEF TypeOK
  <2>. QED BY <2>1, CandidateIsWorker
<1>7. ASSUME NEW i \in 1 .. n
      PROVE  assignments[i].workerId # Candidate(0)
  <2>1. i - 1 \in 0 .. N - 1 /\ n \in 0 .. N - 1 /\ i - 1 # n /\ i <= N
    BY <1>1
  <2>2. assignments[i].workerId = input.availableWorkers[((c + (i - 1)) % N) + 1]
    BY <1>1, <1>2, <2>1 DEF FirstRound, Turn
  <2>a. c + (i - 1) \in Int /\ c + n \in Int
    OBVIOUS
  <2>b. PICK p \in 0 .. N - 1 : p = (c + (i - 1)) % N
    BY <1>1, <2>a, RingPlace
  <2>c. PICK q \in 0 .. N - 1 : q = (c + n) % N
    BY <1>1, <2>a, RingPlace
  <2>3. p = (c + (i - 1)) % N /\ q = (c + n) % N
    BY <2>b, <2>c
  <2>d. (c + (i - 1)) % N # (c + n) % N
    <3>1. \A k, j \in 0 .. N - 1 : k # j => (c + k) % N # (c + j) % N
      <4>1. N \in Nat /\ N > 0
        BY <1>1
      <4>. QED BY <4>1, RingOrder
    <3>2. PICK k \in 0 .. N - 1 : k = i - 1
      BY <2>1
    <3>. QED BY <2>1, <3>1, <3>2
  <2>4. p # q
    BY <2>3, <2>d
  <2>5. p + 1 \in 1 .. N /\ q + 1 \in 1 .. N /\ p + 1 # q + 1
    BY <1>1, <2>4
  <2>6. input.availableWorkers[p + 1] # input.availableWorkers[q + 1]
    BY <1>1, <2>5, Zenon DEF Roster
  <2>. QED BY <1>4, <2>2, <2>3, <2>6
<1>8. SeatsOf(Candidate(0)) = {}
  BY <1>7 DEF SeatsOf
<1>9. ledger[Candidate(0)] = {} /\ load[Candidate(0)] = 0
  BY <1>1, <1>6, <1>8 DEF FirstRound, IInv, LedgerIsBooked, Booked
<1>10. Candidate(0) = input.availableWorkers[cursor + 1]
  BY <1>3, <1>4
<1>. QED BY <1>1, <1>5, <1>6, <1>8, <1>9, <1>10

LEMMA FirstRoundSeat ==
    ASSUME IInv, FirstRound, NEW t \in Open, SeatWorker(t)
    PROVE  FirstRound'
<1>1. /\ TypeOK /\ t \in Task /\ input' = input /\ pc = "loop" /\ N' = N
      /\ N \in Nat /\ N > 0 /\ cursor \in 0 .. N - 1
  BY InputDerived, RosterIsWorkers
     DEF SeatWorker, IInv, CursorOnRing, Open, Target, TypeOK
<1>2. /\ \A i : Turn(i)' = Turn(i)
      /\ \A w : PriorTasks(w)' = PriorTasks(w)
  BY <1>1 DEF Turn, PriorTasks
<1>. SUFFICES ASSUME \A w \in Worker : PriorTasks(w) = {}
              PROVE  /\ \A i \in 1 .. Len(assignments') :
                           i <= N => assignments'[i].workerId = Turn(i)
                     /\ Len(assignments') < N =>
                           cursor' = ((input.cursor % N) + Len(assignments')) % N
                     /\ \A w \in Worker : SeatsOf(w)' = {} => load'[w] = 0
  BY <1>1, <1>2 DEF FirstRound
<1>3. PICK n \in Nat : n = Len(assignments)
  BY <1>1 DEF TypeOK
<1>4. PICK step : /\ SeatGiven(t, step)
                  /\ n < N => step = 0 /\ Candidate(0) = Turn(n + 1)
  <2>1. CASE n < N
    BY <1>1, <1>3, <2>1, NextIsUnseated, FirstIsChosen
  <2>2. CASE ~(n < N)
    BY <2>2, SeatWorkerGives
  <2>. QED BY <2>1, <2>2
<1>5. /\ Candidate(step) \in Worker
      /\ Len(assignments') = n + 1
      /\ \A i \in 1 .. n : assignments'[i] = assignments[i]
      /\ assignments'[n + 1] = [taskId |-> t, workerId |-> Candidate(step)]
      /\ \A w \in Worker : SeatsOf(w)' = IF w = Candidate(step)
                                        THEN SeatsOf(w) \cup {n + 1} ELSE SeatsOf(w)
  BY <1>1, <1>3, <1>4, SeatBooks
<1>6. ASSUME NEW i \in 1 .. n + 1, i <= N
      PROVE  assignments'[i].workerId = Turn(i)
  <2>1. CASE i \in 1 .. n
    BY <1>1, <1>3, <1>5, <1>6, <2>1 DEF FirstRound
  <2>2. CASE i = n + 1
    <3>1. n < N
      BY <1>1, <1>6, <2>2
    <3>. QED BY <1>4, <1>5, <2>2, <3>1
  <2>. QED BY <2>1, <2>2
<1>7. ASSUME n + 1 < N
      PROVE  cursor' = ((input.cursor % N) + (n + 1)) % N
  <2>1. PICK c \in 0 .. N - 1 : c = input.cursor % N
    <3>1. input.cursor \in Int
      BY <1>1 DEF TypeOK, AssignInput
    <3>. QED BY <1>1, <3>1, RingPlace
  <2>2. cursor = (c + n) % N
    BY <1>1, <1>3, <1>7, <2>1 DEF FirstRound
  <2>3. step = 0 /\ (cursor + 0) % N = cursor
    BY <1>1, <1>4, <1>7
  <2>4. cursor' = (((c + n) % N) + 1) % N
    BY <1>4, <2>2, <2>3 DEF SeatGiven
  <2>5. n \in 0 .. N - 1
    BY <1>1, <1>7
  <2>. QED BY <1>1, <2>1, <2>4, <2>5, RingOrder
<1>8. ASSUME NEW w \in Worker, SeatsOf(w)' = {}
      PROVE  load'[w] = 0
  <2>1. w # Candidate(step) /\ SeatsOf(w) = {}
    BY <1>5, <1>8
  <2>2. load'[w] = load[w]
    BY <1>1, <1>4, <2>1 DEF SeatGiven, TypeOK
  <2>. QED BY <1>1, <2>1, <2>2 DEF FirstRound
<1>. QED BY <1>1, <1>5, <1>6, <1>7, <1>8

LEMMA FirstRoundInductive ==
    ASSUME IInv, FirstRound, [Next]_vars
    PROVE  FirstRound'
<1>0. Cardinality({}) = 0
  BY FS_EmptySet
<1>1. CASE NoWorkers
  <2>1. N' = N /\ N = 0
    BY <1>1, InputDerived DEF NoWorkers
  <2>. QED BY <2>1 DEF FirstRound
<1>2. CASE Start
  <2>1. /\ UNCHANGED <<input, assignments>> /\ N' = N /\ assignments = <<>>
        /\ cursor' = input.cursor % N /\ N \in Nat /\ N > 0 /\ input.cursor \in Int
        /\ load' = [w \in Worker |-> Cardinality(PriorTasks(w))]
    BY <1>2, InputDerived, RosterIsWorkers DEF Start, IInv, EntryFresh, TypeOK, AssignInput
  <2>2. \A w : PriorTasks(w)' = PriorTasks(w)
    BY <2>1 DEF PriorTasks
  <2>3. ((input.cursor % N) + 0) % N = input.cursor % N /\ Len(assignments) = 0
    <3>1. PICK c \in 0 .. N - 1 : c = input.cursor % N
      BY <2>1, RingPlace
    <3>2. (c + 0) % N = c
      BY <2>1
    <3>. QED BY <2>1, <3>1, <3>2
  <2>4. assignments' = <<>> /\ Len(assignments') = 0 /\ 1 .. Len(assignments') = {}
    BY <2>1
  <2>5. cursor' = ((input.cursor % N) + Len(assignments')) % N
    BY <2>1, <2>3
  <2>6. \A w \in Worker : PriorTasks(w) = {} => load'[w] = 0
    BY <1>0, <2>1
  <2>. QED BY <2>1, <2>2, <2>4, <2>5, <2>6 DEF FirstRound
<1>3. ASSUME NEW t \in Open, SeatWorker(t) PROVE FirstRound'
  BY <1>3, FirstRoundSeat
<1>4. CASE \/ \E t \in Open : LeaveUnassigned(t)
           \/ Finish \/ Returned \/ UNCHANGED vars
  <2>1. /\ UNCHANGED <<input, cursor, assignments, load>> /\ N' = N
        /\ pc' # "entry" => pc # "entry"
    BY <1>4, InputDerived DEF LeaveUnassigned, Finish, Returned, vars
  <2>2. /\ \A i : Turn(i)' = Turn(i)
        /\ \A w : PriorTasks(w)' = PriorTasks(w)
        /\ \A w : SeatsOf(w)' = SeatsOf(w)
    BY <2>1 DEF Turn, PriorTasks, SeatsOf
  <2>. QED BY <2>1, <2>2 DEF FirstRound
<1>. QED BY <1>1, <1>2, <1>3, <1>4 DEF Next, Step

\* A call that carries nothing over gives its first seats, one each, to the
\* people from the caller's cursor on, in the order of the roster, whatever the
\* tasks exclude; nobody is passed by before everybody had one.
THEOREM FirstSeatsInTurn == Spec => []FirstRound
<1>1. Init => FirstRound
  BY DEF Init, Idle, FirstRound
<1>2. IInv /\ FirstRound /\ [Next]_vars => FirstRound'
  BY FirstRoundInductive
<1>. QED BY <1>1, <1>2, Inductive, PTL DEF Spec

\* Every place of the ring is met in one round.
LEMMA RingWhole ==
    ASSUME NEW n \in Nat, n > 0, NEW c \in 0 .. n - 1, NEW p \in 0 .. n - 1
    PROVE  \E i \in 0 .. n - 1 : (c + i) % n = p
<1>1. CASE c <= p
  <2>1. PICK i \in 0 .. n - 1 : c + i = p
    BY <1>1
  <2>2. (c + i) % n = IF c + i < n THEN c + i ELSE c + i - n
    BY RingSum
  <2>3. (c + i) % n = p
    BY <2>1, <2>2
  <2>. QED BY <2>3
<1>2. CASE p < c
  <2>1. PICK i \in 0 .. n - 1 : c + i = p + n
    BY <1>2
  <2>2. (c + i) % n = IF c + i < n THEN c + i ELSE c + i - n
    BY RingSum
  <2>3. (c + i) % n = p
    BY <2>1, <2>2
  <2>. QED BY <2>3
<1>. QED BY <1>1, <1>2

\* Once the first round is over, everybody has a seat.
LEMMA RoundSeatsAll ==
    ASSUME IInv, FirstRound, pc # "entry", \A w \in Worker : PriorTasks(w) = {},
           Len(assignments) >= N, NEW k \in 1 .. N
    PROVE  SeatsOf(input.availableWorkers[k]) # {}
<1>1. TypeOK /\ N \in Nat /\ N > 0 /\ Len(assignments) \in Nat
  <2>1. TypeOK /\ N \in Nat
    BY RosterIsWorkers DEF IInv, TypeOK
  <2>2. Len(assignments) \in Nat
    BY <2>1 DEF TypeOK
  <2>. QED BY <2>1, <2>2
<1>2. PICK c \in 0 .. N - 1 : c = input.cursor % N
  <2>1. input.cursor \in Int
    BY <1>1 DEF TypeOK, AssignInput
  <2>. QED BY <1>1, <2>1, RingPlace
<1>3. PICK i \in 0 .. N - 1 : (c + i) % N = k - 1
  <2>1. k - 1 \in 0 .. N - 1
    BY <1>1
  <2>. QED BY <1>1, <2>1, RingWhole
<1>4. i + 1 \in 1 .. Len(assignments) /\ i + 1 <= N /\ (i + 1) - 1 = i /\ (k - 1) + 1 = k
  BY <1>1
<1>5. assignments[i + 1].workerId = Turn(i + 1)
  BY <1>1, <1>4 DEF FirstRound
<1>6. Turn(i + 1) = input.availableWorkers[k]
  BY <1>2, <1>3, <1>4 DEF Turn
<1>7. i + 1 \in SeatsOf(input.availableWorkers[k])
  BY <1>4, <1>5, <1>6 DEF SeatsOf
<1>. QED BY <1>7

\* As long as somebody has no seat, the cursor stands at such a one.
LEMMA CursorAtUnseated ==
    ASSUME IInv, FirstRound, pc # "entry", \A w \in Worker : PriorTasks(w) = {},
           NEW k \in 1 .. N, SeatsOf(input.availableWorkers[k]) = {}
    PROVE  /\ cursor \in 0 .. N - 1
           /\ SeatsOf(input.availableWorkers[cursor + 1]) = {}
<1>1. PICK n \in Nat : n = Len(assignments)
  BY DEF IInv, TypeOK
<1>2. N \in Nat
  BY RosterIsWorkers DEF IInv, TypeOK
<1>3. n < N
  BY <1>1, <1>2, RoundSeatsAll
<1>. QED BY <1>1, <1>3, NextIsUnseated

\* The first seat goes to whom the caller's cursor points at.
LEMMA FirstSeat ==
    ASSUME IInv, FirstRound, pc # "entry", \A w \in Worker : PriorTasks(w) = {},
           assignments # <<>>
    PROVE  /\ N \in Nat /\ N > 0
           /\ assignments[1].workerId = input.availableWorkers[(input.cursor % N) + 1]
<1>1. TypeOK /\ N \in Nat /\ N > 0
  BY RosterIsWorkers DEF IInv, TypeOK, NobodyMeansNothing
<1>2. 1 \in 1 .. Len(assignments) /\ 1 <= N
  BY <1>1 DEF TypeOK
<1>3. PICK c \in 0 .. N - 1 : c = input.cursor % N
  <2>1. input.cursor \in Int
    BY <1>1 DEF TypeOK, AssignInput
  <2>. QED BY <1>1, <2>1, RingPlace
<1>4. (c + (1 - 1)) % N = c
  <2>1. (c + 0) % N = c
    BY <1>1, RingHere
  <2>. QED BY <2>1
<1>5. assignments[1].workerId = Turn(1)
  BY <1>1, <1>2 DEF FirstRound
<1>. QED BY <1>1, <1>3, <1>4, <1>5 DEF Turn

=============================================================================
