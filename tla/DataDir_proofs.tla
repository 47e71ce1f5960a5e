----------------------------- MODULE DataDir_proofs -----------------------------
(***************************************************************************)
(* What holds of the lock and of the data folder under it, for any number  *)
(* of windows, workers, days and commands, in a careful environment: the   *)
(* lock has one holder, that makes the memory of the one window at work    *)
(* agree with the files, and from that nothing is lost or stale.           *)
(***************************************************************************)
EXTENDS DataDir, FiniteSetTheorems, TLAPS

-----------------------------------------------------------------------------
(* The lock alone: any number of windows and any age limit. *)

\* The careful environment: nobody looks at the lock between another's look
\* and write, no command outlives the age limit, and the clock only goes
\* forward.  The violation runs show that each of the three is needed.
Careful == ~Overlap /\ ~Dawdle /\ ~SetBack

\* Whoever has taken his time stamp is not older than the limit.
BusyIsYoung ==
    \A w \in Window : ~Outside(w) => age[w] \in 0 .. StaleMinutes

\* The file bears the name and the time stamp of the holder.
HolderIsStamped ==
    \A w \in Window : phase[w] = "held" => lockPid = w /\ lockAge = age[w]

\* Between look and write a window is alone.
ClearIsAlone ==
    \A v, w \in Window : phase[v] = "clear" /\ ~Outside(w) => v = w

IInv == LockTypeOK /\ BusyIsYoung /\ HolderIsStamped /\ ClearIsAlone

-----------------------------------------------------------------------------

\* A holder blocks everybody else.
LEMMA HolderBlocks ==
    ASSUME IInv, NEW v \in Window, NEW w \in Window, phase[w] = "held", v # w
    PROVE  Blocked(v)
<1>1. lockPid = w /\ lockAge \in 0 .. StaleMinutes
  BY DEF IInv, BusyIsYoung, HolderIsStamped, Outside
<1>2. w \notin {NoLock, Gone, Stranger}
  BY LockAssumption
<1> QED
  BY <1>1, <1>2, LockAssumption DEF Blocked, Alive, Stale

\* Time that passes keeps every time stamp in range, and no command gets old.
LEMMA TickKeeps == IInv /\ Careful /\ Tick => IInv'
<1> SUFFICES ASSUME IInv, Careful, Tick PROVE IInv'
  OBVIOUS
<1> USE DEF Careful
<1>1. \A a \in Ages : Older(a) \in Ages
  BY LockAssumption DEF Ages, Older, Old
<1>2. LockTypeOK'
  BY <1>1 DEF Tick, IInv, LockTypeOK
<1>3. BusyIsYoung'
  <2> SUFFICES ASSUME NEW w \in Window, ~Outside(w)'
               PROVE  age'[w] \in 0 .. StaleMinutes
    BY DEF BusyIsYoung
  <2>1. ~Outside(w)
    BY DEF Tick, Outside
  <2>2. age[w] \in 0 .. StaleMinutes /\ age[w] < StaleMinutes
    BY <2>1 DEF Tick, Unhurried, IInv, BusyIsYoung
  <2>3. age'[w] = Older(age[w])
    BY DEF Tick
  <2> QED
    BY <2>2, <2>3, LockAssumption DEF Older, Old
<1>4. HolderIsStamped'
  BY DEF Tick, IInv, HolderIsStamped, LockTypeOK
<1>5. ClearIsAlone'
  BY DEF Tick, IInv, ClearIsAlone, Outside
<1> QED
  BY <1>2, <1>3, <1>4, <1>5 DEF IInv

\* A look at the lock: nobody is at work, and nobody else has looked.
LEMMA ReadLockKeeps ==
    ASSUME IInv, Careful, NEW w \in Window, ReadLock(w) PROVE IInv'
<1> USE DEF Careful
<1>1. \A v \in Window \ {w} : Outside(v)
  <2> SUFFICES ASSUME NEW v \in Window, v # w, ~Outside(v) PROVE FALSE
    OBVIOUS
  <2>1. phase[v] # "clear"
    BY DEF ReadLock
  <2>2. phase[v] = "held"
    BY <2>1 DEF IInv, LockTypeOK, Outside
  <2> QED
    BY <2>2, HolderBlocks DEF ReadLock
<1>2. \A v \in Window \ {w} : Outside(v)'
  BY <1>1 DEF ReadLock, Outside, IInv, LockTypeOK
<1>3. LockTypeOK'
  BY LockAssumption DEF ReadLock, IInv, LockTypeOK, Ages, Old
<1>4. BusyIsYoung'
  BY <1>2, LockAssumption DEF BusyIsYoung, ReadLock, IInv, LockTypeOK
<1>5. HolderIsStamped'
  BY <1>2 DEF HolderIsStamped, ReadLock, IInv, LockTypeOK, Outside
<1>6. ClearIsAlone'
  BY <1>2 DEF ClearIsAlone, Outside
<1> QED
  BY <1>3, <1>4, <1>5, <1>6 DEF IInv

\* Writing the lock: the window was alone and still is.
LEMMA TakeLockKeeps ==
    ASSUME IInv, NEW w \in Window, TakeLock(w) PROVE IInv'
<1>1. \A v \in Window \ {w} : Outside(v) /\ Outside(v)'
  BY DEF TakeLock, IInv, ClearIsAlone, LockTypeOK, Outside
<1>2. LockTypeOK'
  BY DEF TakeLock, IInv, LockTypeOK
<1>3. BusyIsYoung'
  BY <1>1 DEF BusyIsYoung, TakeLock, IInv, Outside
<1>4. HolderIsStamped'
  BY <1>1 DEF HolderIsStamped, TakeLock, IInv, LockTypeOK, Outside
<1>5. ClearIsAlone'
  BY <1>1 DEF ClearIsAlone, Outside
<1> QED
  BY <1>2, <1>3, <1>4, <1>5 DEF IInv

\* A window that ends: if it held the lock, nobody else did.
LEMMA EndKeeps ==
    ASSUME IInv, NEW w \in Window,
           phase' = [phase EXCEPT ![w] = "out"],
           UNCHANGED <<lockAge, age>>,
           lockPid' \in Window \cup {NoLock, Gone, Stranger},
           lockPid' # lockPid => phase[w] = "held" \/ lockPid = w
    PROVE  IInv'
<1>1. \A v \in Window : ~Outside(v)' => v # w /\ phase'[v] = phase[v]
  BY DEF IInv, LockTypeOK, Outside
<1>2. \A v \in Window \ {w} : phase[v] = "held" => lockPid' = lockPid
  BY DEF IInv, HolderIsStamped
<1>3. LockTypeOK'
  BY DEF IInv, LockTypeOK
<1>4. BusyIsYoung'
  BY <1>1 DEF BusyIsYoung, IInv, Outside
<1>5. HolderIsStamped'
  BY <1>1, <1>2 DEF HolderIsStamped, IInv, Outside
<1>6. ClearIsAlone'
  BY <1>1 DEF ClearIsAlone, IInv, Outside
<1> QED
  BY <1>3, <1>4, <1>5, <1>6 DEF IInv

\* The remaining steps of a window.
LEMMA RefuseKeeps == ASSUME IInv, NEW w \in Window, Refuse(w) PROVE IInv'
<1>1. \A v \in Window : ~Outside(v)' => ~Outside(v) /\ phase'[v] = phase[v]
  BY DEF Refuse, Outside, IInv, LockTypeOK
<1> QED
  BY <1>1 DEF Refuse, IInv, LockTypeOK, BusyIsYoung, HolderIsStamped, ClearIsAlone, Outside

-----------------------------------------------------------------------------

\* The inductive invariant of the lock in the careful environment.
THEOREM Inductive == Careful => (LockSpec => []IInv)
<1> SUFFICES ASSUME Careful PROVE LockSpec => []IInv
  OBVIOUS
<1>1. LockInit => IInv
  BY LockAssumption DEF LockInit, IInv, LockTypeOK, BusyIsYoung, HolderIsStamped,
                        ClearIsAlone, Outside, Ages, Old
<1>2. IInv /\ [LockNext]_lockVars => IInv'
  <2> SUFFICES ASSUME IInv, [LockNext]_lockVars PROVE IInv'
    OBVIOUS
  <2>1. ASSUME NEW w \in Window, ReadLock(w) PROVE IInv'
    BY <2>1, ReadLockKeeps
  <2>2. ASSUME NEW w \in Window, Refuse(w) PROVE IInv'
    BY <2>2, RefuseKeeps
  <2>3. ASSUME NEW w \in Window, TakeLock(w) PROVE IInv'
    BY <2>3, TakeLockKeeps
  <2>4. ASSUME NEW w \in Window, TakeFails(w) PROVE IInv'
    BY <2>4, EndKeeps DEF TakeFails, IInv, LockTypeOK
  <2>5. ASSUME NEW w \in Window, Release(w) PROVE IInv'
    BY <2>5, EndKeeps DEF Release
  <2>6. ASSUME NEW w \in Window, LeaveBehind(w) PROVE IInv'
    BY <2>6, EndKeeps DEF LeaveBehind, IInv, LockTypeOK
  <2>7. CASE Tick
    BY <2>7, TickKeeps
  <2>8. CASE ClockBack
    BY <2>8 DEF ClockBack, Careful
  <2>9. CASE UNCHANGED lockVars
    BY <2>9 DEF lockVars, IInv, LockTypeOK, BusyIsYoung, HolderIsStamped,
                ClearIsAlone, Outside
  <2> QED
    BY <2>1, <2>2, <2>3, <2>4, <2>5, <2>6, <2>7, <2>8, <2>9
       DEF LockNext, ReleaseFails, Die
<1> QED
  BY <1>1, <1>2, PTL DEF LockSpec

\* In the careful environment the lock file excludes: never are two windows
\* entitled to write data files.
THEOREM Exclusion == Careful => (LockSpec => []MutualExclusion)
<1>1. IInv => MutualExclusion
  BY DEF IInv, HolderIsStamped, MutualExclusion
<1> QED
  BY Inductive, <1>1, PTL

\* There, too, nobody overwrites or removes the lock of a window at work.
THEOREM NamedHolder == Careful => (LockSpec => []HolderIsNamed)
<1>1. IInv => HolderIsNamed
  BY DEF IInv, HolderIsStamped, HolderIsNamed
<1> QED
  BY Inductive, <1>1, PTL

-----------------------------------------------------------------------------
(* The turn: what computeDay makes of absences and cursor *)

LEMMA Remainder ==
    ASSUME NEW a \in Nat, NEW n \in Nat, n > 0
    PROVE  a % n \in 0 .. n - 1
OBVIOUS

\* The people before somebody are fewer than those before a later one.
LEMMA RankRises ==
    ASSUME NEW S \in SUBSET Nat, IsFiniteSet(S), NEW a \in S, NEW b \in S, a < b
    PROVE  /\ Cardinality({e \in S : e < a}) \in Nat
           /\ Cardinality({e \in S : e < b}) \in Nat
           /\ Cardinality({e \in S : e < a}) < Cardinality({e \in S : e < b})
<1>. DEFINE A == {e \in S : e < a}
            B == {e \in S : e < b}
<1>1. IsFiniteSet(A) /\ IsFiniteSet(B)
    BY FS_Subset
<1>2. Cardinality(A) \in Nat /\ Cardinality(B) \in Nat
    BY <1>1, FS_CardinalityType
<1>3. A \in SUBSET B
  <2>1. \A e \in A : e \in Nat /\ e \in S /\ e < a
    OBVIOUS
  <2>2. \A e \in A : e < b
    BY <2>1
  <2>. QED  BY <2>1, <2>2
<1>5. a \in B /\ a \notin A
    OBVIOUS
<1>4. Cardinality(A) <= Cardinality(B) /\ Cardinality(A) # Cardinality(B)
    BY <1>1, <1>3, <1>5, FS_Subset
<1>. QED  BY <1>2, <1>4

\* At every place below their number there is exactly one of them.
LEMMA OneAtEveryPlace ==
    ASSUME NEW S \in SUBSET Nat, IsFiniteSet(S), NEW k \in Nat, k < Cardinality(S)
    PROVE  \E a \in S : Cardinality({e \in S : e < a}) = k
<1>. DEFINE n == Cardinality(S)
            rank == [a \in S |-> Cardinality({e \in S : e < a})]
<1>1. n \in Nat
    BY FS_CardinalityType
<1>2. \A a \in S : rank[a] \in 0 .. n - 1
  <2>. SUFFICES ASSUME NEW a \in S  PROVE rank[a] \in 0 .. n - 1
    OBVIOUS
  <2>. DEFINE A == {e \in S : e < a}
  <2>1. A \in SUBSET S /\ a \notin A
    OBVIOUS
  <2>2. IsFiniteSet(A) /\ Cardinality(A) <= n /\ Cardinality(A) # n
    BY <2>1, FS_Subset
  <2>3. Cardinality(A) \in Nat
    BY <2>2, FS_CardinalityType
  <2>. QED  BY <1>1, <2>2, <2>3
<1>3. \A a, b \in S : rank[a] = rank[b] => a = b
  <2>. SUFFICES ASSUME NEW a \in S, NEW b \in S, a # b  PROVE rank[a] # rank[b]
    OBVIOUS
  <2>1. CASE a < b
    BY <2>1, RankRises
  <2>2. CASE b < a
    BY <2>2, RankRises
  <2>. QED  BY <2>1, <2>2
<1>4. rank \in Injection(S, 0 .. n - 1)
    BY <1>2, <1>3 DEF Injection, IsInjective
<1>5. IsFiniteSet(0 .. n - 1) /\ Cardinality(0 .. n - 1) = n
  <2>. HIDE DEF n
  <2>1. n - 1 \in Int /\ (0 > n - 1 => n = 0)
    BY <1>1
  <2>. QED  BY <1>1, <2>1, FS_Interval
<1>6. rank \in Surjection(S, 0 .. n - 1)
    BY <1>4, <1>5, FS_Injection
<1>7. k \in 0 .. n - 1
    BY <1>1
<1>8. \E a \in S : rank[a] = k
  <2>. HIDE DEF rank, n
  <2>. QED  BY <1>6, <1>7 DEF Surjection
<1>. QED  BY <1>8


\* A day as computeDay leaves it, with a cursor below the number of workers.
Stored == [who : Worker \cup {Nobody}, start : 0 .. NWorkers, next : 0 .. NWorkers]

\* What is computed is a day to be stored, made from the cursor that was given,
\* and gives the seat to nobody who is known to be away.
LEMMA ComputedFits ==
    ASSUME NEW known \in SUBSET Absence, NEW cursor \in 0 .. NWorkers, NEW d \in Date
    PROVE  /\ Computed(known, cursor, d) \in Stored
           /\ Computed(known, cursor, d).start = cursor
           /\ \A a \in known : a.worker = Computed(known, cursor, d).who
                                => d \notin a.from .. a.to
<1>. DEFINE present == {v \in Worker : ~IsAbsent(known, v, d)}
            n       == Cardinality(present)
            place   == cursor % n
            Place(v) == Cardinality({u \in present : u < v})
            who     == CHOOSE v \in present : Place(v) = place
<1>1. /\ IsFiniteSet(present) /\ present \in SUBSET Nat /\ present \in SUBSET Worker
      /\ n \in Nat /\ n <= NWorkers
  <2>1. IsFiniteSet(Worker) /\ Cardinality(Worker) = NWorkers
    BY FS_Interval, DataAssumption DEF Worker
  <2>2. present \in SUBSET Worker
    OBVIOUS
  <2>3. present \in SUBSET Nat
    BY <2>2 DEF Worker
  <2>. QED  BY <2>1, <2>2, <2>3, FS_Subset, FS_CardinalityType
<1>2. \A a \in known : a.worker \in Worker
  BY DataAssumption
<1>3. CASE n = 0
  <2>1. Computed(known, cursor, d) = [who |-> Nobody, start |-> cursor, next |-> cursor]
    BY <1>3 DEF Computed
  <2>2. \A a \in known : a.worker # Nobody
    BY <1>2 DEF Worker, Nobody
  <2>. QED  BY <2>1, <2>2 DEF Stored
<1>4. CASE n # 0
  <2>1. n \in Nat /\ n > 0
    BY <1>1, <1>4
  <2>2. place \in 0 .. n - 1 /\ (place + 1) % n \in 0 .. n - 1
    <3>. HIDE DEF n
    <3>1. cursor \in Nat
      BY DataAssumption
    <3>2. place \in 0 .. n - 1
      BY <2>1, <3>1, Remainder
    <3>3. place + 1 \in Nat
      BY <2>1, <3>2
    <3>. QED  BY <2>1, <3>2, <3>3, Remainder
  <2>3. \E v \in present : Place(v) = place
    <3>1. place \in Nat /\ place < n
      <4>. HIDE DEF n, place
      <4>. QED  BY <2>1, <2>2
    <3>2. \A k \in Nat : k < n => \E v \in present : Place(v) = k
      BY <1>1, OneAtEveryPlace
    <3>. QED  BY <3>1, <3>2
  <2>4. who \in present
    <3>. HIDE DEF Place, place, present
    <3>. QED  BY <2>3
  <2>5. Computed(known, cursor, d)
            = [who |-> who, start |-> cursor, next |-> (place + 1) % n]
    BY <1>4 DEF Computed
  <2>6. who \in Worker /\ \A a \in known : a.worker = who => d \notin a.from .. a.to
    <3>1. who \in Worker /\ ~IsAbsent(known, who, d)
      <4>. HIDE DEF who
      <4>. QED  BY <2>4
    <3>2. SUFFICES ASSUME NEW a \in known, a.worker = who  PROVE d \notin a.from .. a.to
      BY <3>1
    <3>3. a.from \in Int /\ a.to \in Int /\ d \in Int
      BY DataAssumption DEF Date
    <3>4. ~(a.from <= d /\ d <= a.to)
      <4>. HIDE DEF who
      <4>. QED  BY <3>1, <3>2 DEF IsAbsent
    <3>. QED  BY <3>3, <3>4
  <2>7. (place + 1) % n \in 0 .. NWorkers
    <3>. HIDE DEF n, place
    <3>. QED  BY <1>1, <2>2, DataAssumption
  <2>. HIDE DEF who, place, n
  <2>. QED  BY <2>5, <2>6, <2>7 DEF Stored
<1>. QED  BY <1>3, <1>4

-----------------------------------------------------------------------------
(* The archive *)

\* A line of the archive.
Line == Date \X (Stored \cup {NoFile})

\* The lines of some dates have each of them, with its snapshot.
LEMMA LinesHaveAll ==
    ASSUME snap \in [Date -> Stored \cup {NoFile}], NEW dates \in SUBSET Date
    PROVE  /\ LinesOf(dates) \in Seq(Line)
           /\ \A d \in dates : \E i \in DOMAIN LinesOf(dates) :
                 LinesOf(dates)[i] = <<d, snap[d]>>
<1>. DEFINE n        == Cardinality(dates)
            Place(d) == Cardinality({e \in dates : e < d})
            DateAt(i)   == CHOOSE d \in dates : Place(d) = i - 1
<1>1. IsFiniteSet(dates) /\ dates \in SUBSET Nat /\ n \in Nat
  <2>1. IsFiniteSet(Date) /\ Date \in SUBSET Nat
    BY FS_Interval, DataAssumption DEF Date
  <2>. QED  BY <2>1, FS_Subset, FS_CardinalityType
<1>2. \A d \in dates : Place(d) \in 0 .. n - 1
  <2>. SUFFICES ASSUME NEW d \in dates  PROVE Place(d) \in 0 .. n - 1
    OBVIOUS
  <2>. DEFINE A == {e \in dates : e < d}
  <2>1. A \in SUBSET dates /\ d \notin A
    BY <1>1
  <2>2. IsFiniteSet(A) /\ Cardinality(A) <= n /\ Cardinality(A) # n
    BY <1>1, <2>1, FS_Subset
  <2>3. Cardinality(A) \in Nat
    BY <2>2, FS_CardinalityType
  <2>. HIDE DEF n
  <2>. QED  BY <1>1, <2>2, <2>3
<1>3. \A d, e \in dates : Place(d) = Place(e) => d = e
  <2>. SUFFICES ASSUME NEW d \in dates, NEW e \in dates, d # e
                PROVE  Place(d) # Place(e)
    OBVIOUS
  <2>1. \A a, b \in dates : a < b => /\ Place(a) \in Nat /\ Place(b) \in Nat
                                     /\ Place(a) < Place(b)
    BY <1>1, RankRises
  <2>. HIDE DEF Place
  <2>. QED  BY <1>1, <2>1
<1>4. \A i \in 1 .. n : DateAt(i) \in dates
  <2>. SUFFICES ASSUME NEW i \in 1 .. n  PROVE DateAt(i) \in dates
    OBVIOUS
  <2>1. i - 1 \in Nat /\ i - 1 < n
    <3>. HIDE DEF n
    <3>. QED  BY <1>1
  <2>2. \A k \in Nat : k < n => \E d \in dates : Place(d) = k
    BY <1>1, OneAtEveryPlace
  <2>. HIDE DEF Place
  <2>. QED  BY <2>1, <2>2
<1>5. \A d \in dates : Place(d) + 1 \in 1 .. n /\ DateAt(Place(d) + 1) = d
  <2>. SUFFICES ASSUME NEW d \in dates
                PROVE  Place(d) + 1 \in 1 .. n /\ DateAt(Place(d) + 1) = d
    OBVIOUS
  <2>. HIDE DEF Place, n
  <2>1. Place(d) + 1 \in 1 .. n /\ (Place(d) + 1) - 1 = Place(d)
    BY <1>1, <1>2
  <2>2. DateAt(Place(d) + 1) \in dates /\ Place(DateAt(Place(d) + 1)) = Place(d)
    BY <2>1
  <2>. QED  BY <1>3, <2>1, <2>2
<1>6. LinesOf(dates) = [i \in 1 .. n |-> <<DateAt(i), snap[DateAt(i)]>>]
  BY DEF LinesOf
<1>. HIDE DEF n, DateAt, Place
<1>7. \A i \in 1 .. n : <<DateAt(i), snap[DateAt(i)]>> \in Line
  BY <1>1, <1>4 DEF Line
<1>8. LinesOf(dates) \in Seq(Line)
  <2>1. LinesOf(dates) \in [1 .. n -> Line]
    BY <1>6, <1>7
  <2>. QED  BY <1>1, <2>1
<1>. QED  BY <1>5, <1>6, <1>8

-----------------------------------------------------------------------------
(* The invariant *)

Readable == Careful /\ ~ReadFaults

Steps == {"none", "load", "prompt", "look", "saveSnapshot", "saveCursors",
          "saveAbsences", "checkUrgent", "archive", "remove", "end"}

\* What a window remembers.
Memory == [cmd : Command \cup {NoCommand}, step : Steps, today : Nat,
           known : SUBSET Absence, result : Stored \cup {NoFile},
           due : SUBSET Date, toRemove : SUBSET Date, told : BOOLEAN]

FilesTypeOK ==
    /\ absences \in SUBSET Absence
    /\ cursorFile \in 0 .. NWorkers
    /\ snap \in [Date -> Stored \cup {NoFile}]
    /\ archive \in [Month -> Seq(Line)]
    /\ kept \in SUBSET (Date \X Stored)

WinTypeOK == today \in Nat /\ win \in [Window -> Memory]

\* What a window remembers of the files, at a step, agrees with the files.
Fits(m) ==
    /\ m.step \in {"prompt", "look"} => m.known = absences
    /\ m.step \in {"prompt", "look", "saveSnapshot", "saveCursors"}
          => m.cmd.op \in {"view", "force"}
    /\ m.step = "saveSnapshot" =>
          /\ m.result = Computed(absences, cursorFile, m.cmd.date)
          /\ m.cmd.op = "view" => snap[m.cmd.date] = NoFile
    /\ m.step = "saveCursors" => m.result \in Stored /\ snap[m.cmd.date] = m.result
    /\ m.step = "saveAbsences" =>
          \/ m.cmd.op = "offAdd" /\ m.known = absences \cup {m.cmd.absence}
          \/ /\ m.cmd.op = "offRm"
             /\ m.known = {a \in absences : ~IsAbsent({a}, m.cmd.worker, m.cmd.date)}
    /\ m.step = "remove" => \A d \in m.toRemove : <<d, snap[d]>> \in Archived

\* Only the holder of the lock has begun, and his memory fits.
MemoryFits ==
    \A w \in Window :
        /\ phase[w] = "held" => Fits(win[w])
        /\ phase[w] # "held" => win[w].step \in {"none", "load"}

FilesOK == NoLostUpdate /\ NoHistoryLost /\ CursorOnRecord

DataInv == IInv /\ FilesTypeOK /\ WinTypeOK /\ MemoryFits /\ FilesOK

-----------------------------------------------------------------------------
(* The steps *)

\* What a command is, by its name.
LEMMA CommandFields ==
    ASSUME NEW c \in Command \cup {NoCommand}
    PROVE  /\ c.op \in {"view", "force"} =>
                 c.date \in Date /\ (c.op = "force" => c = [op |-> "force", date |-> c.date])
           /\ c.op = "offAdd" => c.absence \in Absence
           /\ c.op = "offRm"  => c.worker \in Worker /\ c.date \in Date
BY DEF Command, NoCommand

LEMMA NoMemoryIsEmpty == NoMemory \in Memory /\ NoMemory.step = "none"
BY DEF NoMemory, Memory, Steps, Command

\* While one window holds the lock no other does.
LEMMA Alone ==
    ASSUME DataInv, NEW w \in Window, phase[w] = "held", NEW v \in Window, v # w
    PROVE  phase[v] # "held"
BY DEF DataInv, IInv, HolderIsStamped

\* A step of the holder: the others have nothing that could go stale.
LEMMA HolderStep ==
    ASSUME DataInv, NEW w \in Window, phase[w] = "held", UNCHANGED <<lockVars, today>>,
           NEW m \in Memory, win' = [win EXCEPT ![w] = m], Fits(m)',
           FilesTypeOK', FilesOK'
    PROVE  DataInv'
<1>1. IInv'
  BY DEF DataInv, IInv, lockVars, LockTypeOK, BusyIsYoung, HolderIsStamped,
         ClearIsAlone, Outside
<1>2. WinTypeOK'
  BY DEF DataInv, WinTypeOK
<1>3. MemoryFits'
  <2>1. phase' = phase /\ win'[w] = m
    BY DEF lockVars, DataInv, WinTypeOK
  <2>2. \A v \in Window : v # w => phase[v] # "held" /\ win'[v] = win[v]
    BY Alone DEF DataInv, WinTypeOK
  <2>. QED  BY <2>1, <2>2 DEF MemoryFits, DataInv
<1>. QED  BY <1>1, <1>2, <1>3 DEF DataInv

\* A step that leaves the files and the histories alone.
LEMMA FilesRest ==
    ASSUME DataInv, UNCHANGED <<files, registered, kept>>
    PROVE  FilesTypeOK' /\ FilesOK' /\ Archived' = Archived
<1>. USE DEF files, DataInv
<1>1. FilesTypeOK'
  BY DEF FilesTypeOK
<1>2. Archived' = Archived
  BY DEF Archived
<1>3. \A d, s : OnRecord(d, s)' <=> OnRecord(d, s)
  BY <1>2 DEF OnRecord
<1>4. NoLostUpdate'
  BY DEF FilesOK, NoLostUpdate
<1>5. NoHistoryLost'
  BY <1>3 DEF FilesOK, NoHistoryLost
<1>6. CursorOnRecord'
  BY <1>3 DEF FilesOK, CursorOnRecord
<1>. QED  BY <1>1, <1>2, <1>4, <1>5, <1>6 DEF FilesOK

\* The same of a step that writes nothing the memory speaks of.
LEMMA SilentStep ==
    ASSUME DataInv, NEW w \in Window, phase[w] = "held",
           UNCHANGED <<lockVars, today, files, registered, kept>>,
           NEW m \in Memory, win' = [win EXCEPT ![w] = m], Fits(m)
    PROVE  DataInv'
<1>1. FilesTypeOK' /\ FilesOK' /\ Archived' = Archived
  BY FilesRest
<1>2. Fits(m)'
  <2>1. absences' = absences /\ cursorFile' = cursorFile /\ snap' = snap
    BY DEF files
  <2>2. Computed(absences', cursorFile', m.cmd.date)
           = Computed(absences, cursorFile, m.cmd.date)
    BY <2>1
  <2>. QED  BY <1>1, <2>1, <2>2 DEF Fits
<1>. QED  BY <1>1, <1>2, HolderStep

\* Going to the end, or to "checkUrgent", asks nothing of the memory.
LEMMA EndFits ==
    ASSUME NEW m, m.step \in {"end", "checkUrgent", "archive"}  PROVE Fits(m)
BY DEF Fits

\* A window that holds the lock, and its memory.
LEMMA HolderFits ==
    ASSUME DataInv, NEW w \in Window, phase[w] = "held"
    PROVE  win[w] \in Memory /\ Fits(win[w])
BY DEF DataInv, WinTypeOK, MemoryFits

\* The memory with another step.
LEMMA NewStep ==
    ASSUME NEW m \in Memory, NEW step \in Steps
    PROVE  /\ [m EXCEPT !.step = step] \in Memory
           /\ [m EXCEPT !.step = step].step = step
           /\ [m EXCEPT !.step = step].cmd = m.cmd
           /\ [m EXCEPT !.step = step].known = m.known
           /\ [m EXCEPT !.step = step].result = m.result
BY DEF Memory

LEMMA EndKeepsData ==
    ASSUME DataInv, NEW w \in Window, phase[w] = "held",
           UNCHANGED <<lockVars, today, files, registered, kept>>,
           GoTo(w, "end")
    PROVE  DataInv'
<1>. DEFINE m == [win[w] EXCEPT !.step = "end"]
<1>1. m \in Memory /\ m.step = "end"
  BY HolderFits, NewStep DEF Steps
<1>2. win' = [win EXCEPT ![w] = m]
  BY DEF GoTo
<1>. HIDE DEF m
<1>3. Fits(m)
  BY <1>1, EndFits
<1>. QED  BY <1>1, <1>2, <1>3, SilentStep

LEMMA LoadKeeps == ASSUME DataInv, NEW w \in Window, Load(w)  PROVE DataInv'
<1>. DEFINE c        == win[w].cmd
            Matching == {a \in absences : a.worker = c.worker /\ a.from <= c.date
                                                              /\ c.date <= a.to}
            Due(d)   == snap[d] # NoFile /\ today - d > KeepDays
            Loaded(step, known) == [win[w] EXCEPT !.step = step, !.known = known,
                                                  !.today = today]
<1>1. /\ phase[w] = "held" /\ win[w] \in Memory
      /\ UNCHANGED <<lockVars, today, files, registered, kept>>
  BY HolderFits DEF Load, At, Running, history
<1>2. ASSUME NEW step \in Steps, NEW known \in SUBSET Absence, Fits(Loaded(step, known)),
             win' = [win EXCEPT ![w].step = step, ![w].known = known, ![w].today = today]
      PROVE  DataInv'
  <2>1. Loaded(step, known) \in Memory
    BY <1>1 DEF Memory, DataInv, WinTypeOK
  <2>2. win' = [win EXCEPT ![w] = Loaded(step, known)]
    BY <1>2
  <2>. HIDE DEF Loaded
  <2>. QED  BY <1>1, <1>2, <2>1, <2>2, SilentStep
<1>3. \A step \in Steps, known \in SUBSET Absence :
         /\ Loaded(step, known).step = step /\ Loaded(step, known).known = known
         /\ Loaded(step, known).cmd = c
  BY <1>1 DEF Memory
<1>4. absences \in SUBSET Absence
  BY DEF DataInv, FilesTypeOK
<1>. HIDE DEF Loaded
<1>5. CASE /\ c.op = "view"
           /\ win' = [win EXCEPT ![w].step = "look", ![w].known = absences,
                                 ![w].today = today]
  <2>1. Fits(Loaded("look", absences))
    BY <1>3, <1>4, <1>5 DEF Fits, Steps
  <2>. QED  BY <1>2, <1>4, <1>5, <2>1 DEF Steps
<1>6. CASE /\ c.op = "force"
           /\ win' = [win EXCEPT ![w].step = "prompt", ![w].known = absences,
                                 ![w].today = today]
  <2>1. Fits(Loaded("prompt", absences))
    BY <1>3, <1>4, <1>6 DEF Fits, Steps
  <2>. QED  BY <1>2, <1>4, <1>6, <2>1 DEF Steps
<1>7. CASE /\ c.op = "offAdd"
           /\ win' = [win EXCEPT ![w].step = "saveAbsences",
                                 ![w].known = absences \cup {c.absence},
                                 ![w].today = today]
  <2>1. absences \cup {c.absence} \in SUBSET Absence
    BY <1>1, <1>4, <1>7, CommandFields DEF Memory
  <2>2. Fits(Loaded("saveAbsences", absences \cup {c.absence}))
    BY <1>3, <1>7, <2>1 DEF Fits, Steps
  <2>. QED  BY <1>2, <1>7, <2>1, <2>2 DEF Steps
<1>8. CASE /\ c.op = "offRm"
           /\ win' = [win EXCEPT ![w].step = "saveAbsences",
                                 ![w].known = absences \ Matching,
                                 ![w].today = today]
  <2>1. absences \ Matching \in SUBSET Absence
    BY <1>4
  <2>2. absences \ Matching = {a \in absences : ~IsAbsent({a}, c.worker, c.date)}
    BY DEF IsAbsent
  <2>3. Fits(Loaded("saveAbsences", absences \ Matching))
    <3>. HIDE DEF Matching
    <3>. QED  BY <1>3, <1>8, <2>1, <2>2 DEF Fits, Steps
  <2>. QED  BY <1>2, <1>8, <2>1, <2>3 DEF Steps
<1>9. CASE win' = [win EXCEPT ![w].step = "end", ![w].known = absences,
                              ![w].today = today]
  <2>1. Fits(Loaded("end", absences))
    BY <1>3, <1>4, EndFits DEF Steps
  <2>. QED  BY <1>2, <1>4, <1>9, <2>1 DEF Steps
<1>10. ASSUME NEW step \in {"archive", "end"},
              win' = [win EXCEPT ![w].step = step, ![w].due = {d \in Date : Due(d)}]
       PROVE  DataInv'
  <2>. DEFINE m == [win[w] EXCEPT !.step = step, !.due = {d \in Date : Due(d)}]
  <2>1. m \in Memory /\ m.step = step
    BY <1>1 DEF Memory, Steps
  <2>2. win' = [win EXCEPT ![w] = m]
    BY <1>10
  <2>. HIDE DEF m
  <2>3. Fits(m)
    BY <2>1, EndFits
  <2>. QED  BY <1>1, <2>1, <2>2, <2>3, SilentStep
<1>. QED  BY <1>5, <1>6, <1>7, <1>8, <1>9, <1>10 DEF Load

LEMMA AnswerKeeps == ASSUME DataInv, NEW w \in Window, Answer(w)  PROVE DataInv'
<1>1. /\ phase[w] = "held" /\ win[w] \in Memory /\ Fits(win[w]) /\ win[w].step = "prompt"
      /\ UNCHANGED <<lockVars, today, files, registered, kept>>
  BY HolderFits DEF Answer, At, Running, history
<1>2. CASE GoTo(w, "end")
  BY <1>1, <1>2, EndKeepsData
<1>3. CASE GoTo(w, "look")
  <2>. DEFINE m == [win[w] EXCEPT !.step = "look"]
  <2>1. /\ m \in Memory /\ m.step = "look" /\ m.cmd = win[w].cmd
        /\ m.known = win[w].known
    BY <1>1, NewStep DEF Steps
  <2>2. win' = [win EXCEPT ![w] = m]
    BY <1>3 DEF GoTo
  <2>. HIDE DEF m
  <2>3. Fits(m)
    BY <1>1, <2>1 DEF Fits
  <2>. QED  BY <1>1, <2>1, <2>2, <2>3, SilentStep
<1>. QED  BY <1>2, <1>3 DEF Answer

LEMMA ComputeKeeps == ASSUME DataInv, NEW w \in Window, Compute(w)  PROVE DataInv'
<1>. DEFINE c == win[w].cmd
            s == Computed(win[w].known, cursorFile, c.date)
            m == [win[w] EXCEPT !.step = "saveSnapshot", !.result = s]
<1>1. /\ phase[w] = "held" /\ win[w] \in Memory /\ Fits(win[w]) /\ win[w].step = "look"
      /\ UNCHANGED <<lockVars, today, files, registered, kept>>
  BY HolderFits DEF Compute, At, Running, history
<1>2. win[w].known = absences /\ c.op \in {"view", "force"} /\ c.date \in Date
  BY <1>1, CommandFields DEF Fits, Memory
<1>3. s \in Stored
  BY <1>2, ComputedFits DEF DataInv, FilesTypeOK
<1>. HIDE DEF s
<1>4. m \in Memory /\ m.step = "saveSnapshot" /\ m.cmd = c /\ m.result = s
  BY <1>1, <1>3 DEF Memory, Steps
<1>5. win' = [win EXCEPT ![w] = m]
  BY DEF Compute, s
<1>6. c.op = "view" => snap[c.date] = NoFile
  BY DEF Compute
<1>. HIDE DEF m
<1>7. Fits(m)
  BY <1>2, <1>4, <1>6 DEF Fits, s
<1>. QED  BY <1>1, <1>4, <1>5, <1>7, SilentStep

LEMMA CheckUrgentKeeps == ASSUME DataInv, NEW w \in Window, CheckUrgent(w)  PROVE DataInv'
<1>. DEFINE a == win[w].cmd.absence
            t == a.from = win[w].today /\ snap[a.from] # NoFile /\ snap[a.from].who = a.worker
<1>1. /\ phase[w] = "held" /\ win[w] \in Memory
      /\ UNCHANGED <<lockVars, today, files, registered, kept>>
  BY HolderFits DEF CheckUrgent, At, Running, history
<1>2. PICK told \in BOOLEAN : win' = [win EXCEPT ![w].step = "end", ![w].told = told]
  <2>1. t \in BOOLEAN
    OBVIOUS
  <2>2. win' = [win EXCEPT ![w].step = "end", ![w].told = t]
    BY Zenon DEF CheckUrgent
  <2>. HIDE DEF t
  <2>. QED  BY <2>1, <2>2
<1>. DEFINE m == [win[w] EXCEPT !.step = "end", !.told = told]
<1>3. m \in Memory /\ m.step = "end"
  BY <1>1 DEF Memory, Steps
<1>4. win' = [win EXCEPT ![w] = m]
  BY <1>2
<1>. HIDE DEF m
<1>5. Fits(m)
  BY <1>3, EndFits
<1>. QED  BY <1>1, <1>3, <1>4, <1>5, SilentStep

\* A view stores a day that had no snapshot; assign --force throws the old one
\* away knowingly.  Either way the cursor of the new one is the file's.
LEMMA SaveSnapshotKeeps ==
    ASSUME DataInv, NEW w \in Window, SaveSnapshot(w)  PROVE DataInv'
<1>0. PICK c, d, s, m : /\ c = win[w].cmd /\ d = c.date /\ s = win[w].result
                        /\ m = [win[w] EXCEPT !.step = "saveCursors"]
  OBVIOUS
<1>. DEFINE replaced == IF c.op = "force" THEN {<<d, snap[d]>>} ELSE {}
<1>1. /\ phase[w] = "held" /\ win[w] \in Memory /\ Fits(win[w])
      /\ win[w].step = "saveSnapshot" /\ UNCHANGED <<lockVars, today>>
  BY HolderFits DEF SaveSnapshot, At, Running
<1>2. CASE EndsInError(w)
  BY <1>1, <1>2, EndKeepsData DEF EndsInError, history
<1>3. CASE /\ snap' = [snap EXCEPT ![d] = s]
           /\ kept' = (kept \ replaced) \cup {<<d, s>>}
           /\ GoTo(w, "saveCursors")
           /\ UNCHANGED <<absences, cursorFile, archive, registered>>
  <2>1. /\ c.op \in {"view", "force"} /\ d \in Date
        /\ c.op = "view" => snap[d] = NoFile
        /\ s = Computed(absences, cursorFile, d)
    BY <1>0, <1>1, CommandFields DEF Fits, Memory
  <2>2. s \in Stored /\ s.start = cursorFile
    <3>1. absences \in SUBSET Absence /\ cursorFile \in 0 .. NWorkers
      BY DEF DataInv, FilesTypeOK
    <3>. QED  BY <2>1, <3>1, ComputedFits
  <2>3. m \in Memory /\ m.step = "saveCursors" /\ m.cmd = c /\ m.result = s
    BY <1>0, <1>1, NewStep DEF Steps
  <2>4. win' = [win EXCEPT ![w] = m]
    BY <1>0, <1>3 DEF GoTo
  <2>. USE DEF DataInv
  <2>5. snap'[d] = s /\ \A e \in Date : e # d => snap'[e] = snap[e]
    BY <1>3, <2>1 DEF FilesTypeOK
  <2>6. FilesTypeOK'
    BY <1>3, <2>1, <2>2 DEF FilesTypeOK
  <2>7. Fits(m)'
    BY <1>0, <2>1, <2>2, <2>3, <2>5 DEF Fits
  <2>8. Archived' = Archived
    BY <1>3 DEF Archived
  <2>9. NoLostUpdate'
    BY <1>3 DEF FilesOK, NoLostUpdate
  <2>10. NoHistoryLost'
    <3>. SUFFICES ASSUME NEW p \in kept'  PROVE OnRecord(p[1], p[2])'
      BY DEF NoHistoryLost
    <3>1. CASE p = <<d, s>>
      BY <2>5, <3>1 DEF OnRecord
    <3>2. CASE p \in kept \ replaced
      <4>1. p[1] \in Date /\ p[2] \in Stored /\ p = <<p[1], p[2]>>
        BY <3>2 DEF FilesTypeOK
      <4>2. OnRecord(p[1], p[2])
        BY <3>2 DEF FilesOK, NoHistoryLost
      <4>3. CASE <<p[1], p[2]>> \in Archived
        BY <2>8, <4>3 DEF OnRecord
      <4>4. CASE snap[p[1]] = p[2]
        <5>1. p[1] # d
          BY <2>1, <3>2, <4>1, <4>4 DEF Stored, NoFile, Worker, Nobody
        <5>. QED  BY <2>5, <4>1, <4>4, <5>1 DEF OnRecord
      <4>. QED  BY <4>2, <4>3, <4>4 DEF OnRecord
    <3>. QED  BY <1>3, <3>1, <3>2
  <2>11. CursorOnRecord'
    <3>1. s = [who |-> s.who, start |-> cursorFile', next |-> s.next]
          /\ s.who \in Worker \cup {Nobody} /\ s.next \in 0 .. NWorkers
      BY <1>3, <2>2 DEF Stored
    <3>2. OnRecord(d, s)'
      BY <2>5 DEF OnRecord
    <3>. QED  BY <2>1, <3>1, <3>2 DEF CursorOnRecord
  <2>. QED  BY <1>1, <2>3, <2>4, <2>6, <2>7, <2>9, <2>10, <2>11, HolderStep DEF FilesOK
<1>. QED  BY <1>0, <1>2, <1>3 DEF SaveSnapshot

\* The cursor follows a snapshot that is in its file.
LEMMA SaveCursorsKeeps ==
    ASSUME DataInv, NEW w \in Window, SaveCursors(w)  PROVE DataInv'
<1>0. PICK d, s, m : /\ d = win[w].cmd.date /\ s = win[w].result
                     /\ m = [win[w] EXCEPT !.step = "end"]
  OBVIOUS
<1>1. /\ phase[w] = "held" /\ win[w] \in Memory /\ Fits(win[w])
      /\ win[w].step = "saveCursors" /\ UNCHANGED <<lockVars, today>>
  BY HolderFits DEF SaveCursors, At, Running
<1>2. CASE EndsInError(w)
  BY <1>1, <1>2, EndKeepsData DEF EndsInError, history
<1>3. CASE /\ cursorFile' = s.next
           /\ GoTo(w, "end")
           /\ UNCHANGED <<absences, snap, archive, registered, kept>>
  <2>1. s \in Stored /\ snap[d] = s /\ d \in Date
    BY <1>0, <1>1, CommandFields DEF Fits, Memory
  <2>2. m \in Memory /\ m.step = "end"
    BY <1>0, <1>1, NewStep DEF Steps
  <2>3. win' = [win EXCEPT ![w] = m]
    BY <1>0, <1>3 DEF GoTo
  <2>4. Fits(m)'
    BY <2>2 DEF Fits
  <2>. USE DEF DataInv
  <2>5. FilesTypeOK'
    BY <1>3, <2>1 DEF FilesTypeOK, Stored
  <2>6. Archived' = Archived
    BY <1>3 DEF Archived
  <2>7. NoLostUpdate'
    BY <1>3 DEF FilesOK, NoLostUpdate
  <2>8. NoHistoryLost'
    BY <1>3, <2>6 DEF FilesOK, NoHistoryLost, OnRecord
  <2>9. CursorOnRecord'
    <3>1. s = [who |-> s.who, start |-> s.start, next |-> cursorFile']
          /\ s.who \in Worker \cup {Nobody} /\ s.start \in 0 .. NWorkers
      BY <1>3, <2>1 DEF Stored
    <3>2. OnRecord(d, s)'
      BY <1>3, <2>1 DEF OnRecord
    <3>. QED  BY <2>1, <3>1, <3>2 DEF CursorOnRecord
  <2>. QED  BY <1>1, <2>2, <2>3, <2>4, <2>5, <2>7, <2>8, <2>9, HolderStep DEF FilesOK
<1>. QED  BY <1>0, <1>2, <1>3 DEF SaveCursors

\* What is written is what the file was, with the one change.
LEMMA SaveAbsencesKeeps ==
    ASSUME DataInv, NEW w \in Window, SaveAbsences(w)  PROVE DataInv'
<1>. DEFINE c    == win[w].cmd
            step == IF c.op = "offAdd" THEN "checkUrgent" ELSE "end"
<1>0. PICK m : m = [win[w] EXCEPT !.step = step]
  OBVIOUS
<1>1. /\ phase[w] = "held" /\ win[w] \in Memory /\ Fits(win[w])
      /\ win[w].step = "saveAbsences" /\ UNCHANGED <<lockVars, today>>
  BY HolderFits DEF SaveAbsences, At, Running
<1>2. CASE EndsInError(w)
  BY <1>1, <1>2, EndKeepsData DEF EndsInError, history
<1>3. CASE /\ absences' = win[w].known
           /\ registered' = IF c.op = "offAdd" THEN registered \cup {c.absence}
                            ELSE {a \in registered : ~IsAbsent({a}, c.worker, c.date)}
           /\ GoTo(w, step)
           /\ UNCHANGED <<cursorFile, snap, archive, kept>>
  <2>1. step \in {"checkUrgent", "end"}
    OBVIOUS
  <2>2. m \in Memory /\ m.step \in {"checkUrgent", "end"}
    <3>. HIDE DEF step
    <3>1. step \in Steps
      BY <2>1 DEF Steps
    <3>. QED  BY <1>0, <1>1, <2>1, <3>1, NewStep
  <2>3. win' = [win EXCEPT ![w] = m]
    BY <1>0, <1>3 DEF GoTo
  <2>4. Fits(m)'
    BY <2>2 DEF Fits
  <2>. USE DEF DataInv
  <2>5. FilesTypeOK'
    BY <1>1, <1>3 DEF FilesTypeOK, Memory
  <2>6. Archived' = Archived
    BY <1>3 DEF Archived
  <2>7. NoLostUpdate'
    BY <1>1, <1>3 DEF FilesOK, NoLostUpdate, Fits
  <2>8. NoHistoryLost'
    BY <1>3, <2>6 DEF FilesOK, NoHistoryLost, OnRecord
  <2>9. CursorOnRecord'
    <3>1. \A d, s : OnRecord(d, s)' <=> OnRecord(d, s)
      BY <1>3, <2>6 DEF OnRecord
    <3>. QED  BY <1>3, <3>1 DEF FilesOK, CursorOnRecord
  <2>. QED  BY <1>1, <2>2, <2>3, <2>4, <2>5, <2>7, <2>8, <2>9, HolderStep DEF FilesOK
<1>. QED  BY <1>2, <1>3 DEF SaveAbsences

\* The month's archive gets the lines of all that is going to be removed.
LEMMA ArchiveKeeps ==
    ASSUME DataInv, ~ReadFaults, NEW w \in Window, Archive(w)  PROVE DataInv'
<1>0. PICK dates, m : /\ dates = FirstMonth(win[w].due)
                      /\ m = [win[w] EXCEPT !.step = "remove", !.toRemove = dates,
                                            !.due = @ \ dates]
  OBVIOUS
<1>1. /\ phase[w] = "held" /\ win[w] \in Memory /\ UNCHANGED <<lockVars, today>>
  BY HolderFits DEF Archive, At, Running
<1>2. CASE EndsInError(w)
  BY <1>1, <1>2, EndKeepsData DEF EndsInError, history
<1>3. CASE /\ \E k \in {MonthOf[d] : d \in dates}, lines \in ReadAs(LinesOf(dates)) :
                 \E before \in IF ReadFaults THEN {archive[k], <<>>} ELSE {archive[k]} :
                    archive' = [archive EXCEPT ![k] = before \o lines]
           /\ GoRemove(w, dates)
           /\ UNCHANGED <<absences, cursorFile, snap, history>>
  <2>. USE DEF DataInv
  <2>1. dates \in SUBSET Date
    BY <1>0, <1>1 DEF FirstMonth, Memory
  <2>2. m \in Memory /\ m.step = "remove" /\ m.toRemove = dates
    BY <1>0, <1>1, <2>1 DEF Memory, Steps
  <2>3. win' = [win EXCEPT ![w] = m]
    BY <1>0, <1>3 DEF GoRemove
  <2>4. PICK k \in Month : archive' = [archive EXCEPT ![k] = archive[k] \o LinesOf(dates)]
    <3>1. {MonthOf[d] : d \in dates} \in SUBSET Month
      BY <2>1 DEF Month
    <3>. QED  BY <1>3, <3>1 DEF ReadAs
  <2>5. PICK lines : /\ lines = LinesOf(dates) /\ lines \in Seq(Line)
                     /\ \A d \in dates : \E i \in DOMAIN lines : lines[i] = <<d, snap[d]>>
    BY <2>1, LinesHaveAll DEF FilesTypeOK
  <2>6. /\ archive \in [Month -> Seq(Line)]
        /\ archive' = [archive EXCEPT ![k] = archive[k] \o lines]
    BY <2>4, <2>5 DEF FilesTypeOK
  <2>7. archive' \in [Month -> Seq(Line)]
    BY <2>5, <2>6
  <2>8. FilesTypeOK'
    BY <1>3, <2>7 DEF FilesTypeOK, history
  <2>9. Archived \subseteq Archived'
    <3>. SUFFICES ASSUME NEW x \in Archived  PROVE x \in Archived'
      OBVIOUS
    <3>1. PICK n \in Month : x \in {archive[n][i] : i \in DOMAIN archive[n]}
      BY DEF Archived
    <3>2. PICK i \in DOMAIN archive[n] : x = archive[n][i]
      BY <3>1
    <3>3. i \in DOMAIN archive'[n] /\ x = archive'[n][i]
      BY <2>5, <2>6, <3>2
    <3>. QED  BY <3>3 DEF Archived
  <2>10. \A d \in dates : <<d, snap[d]>> \in Archived'
    <3>. SUFFICES ASSUME NEW d \in dates  PROVE <<d, snap[d]>> \in Archived'
      OBVIOUS
    <3>1. PICK i \in DOMAIN lines : lines[i] = <<d, snap[d]>>
      BY <2>5
    <3>2. PICK j : j = Len(archive[k]) + i
      OBVIOUS
    <3>3. j \in DOMAIN archive'[k] /\ archive'[k][j] = lines[i]
      BY <2>5, <2>6, <3>2
    <3>. QED  BY <3>1, <3>3 DEF Archived
  <2>11. Fits(m)'
    BY <1>3, <2>2, <2>10 DEF Fits
  <2>12. \A d, s : OnRecord(d, s) => OnRecord(d, s)'
    BY <1>3, <2>9 DEF OnRecord
  <2>13. NoLostUpdate'
    BY <1>3 DEF FilesOK, NoLostUpdate, history
  <2>14. NoHistoryLost'
    BY <1>3, <2>12 DEF FilesOK, NoHistoryLost, history
  <2>15. CursorOnRecord'
    BY <1>3, <2>12 DEF FilesOK, CursorOnRecord
  <2>. QED  BY <1>1, <2>2, <2>3, <2>8, <2>11, <2>13, <2>14, <2>15, HolderStep DEF FilesOK
<1>. QED  BY <1>0, <1>2, <1>3 DEF Archive

\* What is removed has its line in the archive.
LEMMA RemoveNextKeeps ==
    ASSUME DataInv, NEW w \in Window, RemoveNext(w)  PROVE DataInv'
<1>1. /\ phase[w] = "held" /\ win[w] \in Memory /\ Fits(win[w])
      /\ win[w].step = "remove" /\ UNCHANGED <<lockVars, today>>
  BY HolderFits DEF RemoveNext, At, Running
<1>2. PICK d \in win[w].toRemove :
          /\ snap' \in {snap, [snap EXCEPT ![d] = NoFile]}
          /\ win' = [win EXCEPT ![w].toRemove = @ \ {d},
                                ![w].step = IF win[w].toRemove # {d} THEN "remove"
                                            ELSE IF win[w].due = {} THEN "end"
                                            ELSE "archive"]
  BY DEF RemoveNext
<1>3. UNCHANGED <<absences, cursorFile, archive, registered, kept>>
  BY DEF RemoveNext, history
<1>4. PICK step \in {"remove", "end", "archive"} :
          /\ win' = [win EXCEPT ![w].toRemove = @ \ {d}, ![w].step = step]
  BY <1>2
<1>5. PICK m : m = [win[w] EXCEPT !.toRemove = @ \ {d}, !.step = step]
  OBVIOUS
<1>6. /\ m \in Memory /\ m.step = step /\ m.toRemove = win[w].toRemove \ {d}
      /\ d \in Date
  BY <1>1, <1>5 DEF Memory, Steps
<1>7. win' = [win EXCEPT ![w] = m]
  BY <1>4, <1>5
<1>. USE DEF DataInv
<1>8. FilesTypeOK'
  BY <1>2, <1>3, <1>6 DEF FilesTypeOK
<1>9. Archived' = Archived
  BY <1>3 DEF Archived
<1>10. /\ <<d, snap[d]>> \in Archived
       /\ \A e \in win[w].toRemove : <<e, snap[e]>> \in Archived
       /\ \A e \in Date : e # d => snap'[e] = snap[e]
  BY <1>1, <1>2, <1>6 DEF Fits, FilesTypeOK
<1>11. Fits(m)'
  <2>1. \A e \in m.toRemove : <<e, snap'[e]>> \in Archived'
    BY <1>1, <1>6, <1>9, <1>10 DEF Memory
  <2>. QED  BY <1>6, <2>1 DEF Fits
<1>12. \A e \in Date : \A s : OnRecord(e, s) => OnRecord(e, s)'
  BY <1>9, <1>10 DEF OnRecord
<1>13. NoLostUpdate'
  BY <1>3 DEF FilesOK, NoLostUpdate
<1>14. NoHistoryLost'
  BY <1>3, <1>12 DEF FilesOK, NoHistoryLost, FilesTypeOK
<1>15. CursorOnRecord'
  BY <1>3, <1>12 DEF FilesOK, CursorOnRecord
<1>. QED  BY <1>1, <1>6, <1>7, <1>8, <1>11, <1>13, <1>14, <1>15, HolderStep DEF FilesOK

-----------------------------------------------------------------------------
(* Coming and going *)

\* A step by which a window comes to be, or stays, outside.
LEMMA OutsideStep ==
    ASSUME DataInv, IInv', NEW w \in Window, NEW m \in Memory, NEW p,
           p # "held", m.step \in {"none", "load"},
           phase' = [phase EXCEPT ![w] = p], win' = [win EXCEPT ![w] = m],
           UNCHANGED <<files, today, registered, kept>>
    PROVE  DataInv'
<1>1. FilesTypeOK' /\ FilesOK' /\ Archived' = Archived
  BY FilesRest
<1>2. WinTypeOK'
  BY DEF DataInv, WinTypeOK
<1>3. MemoryFits'
  <2>. SUFFICES ASSUME NEW v \in Window
                PROVE  /\ phase'[v] = "held" => Fits(win[v])'
                       /\ phase'[v] # "held" => win'[v].step \in {"none", "load"}
    BY DEF MemoryFits
  <2>1. CASE v = w
    BY <2>1 DEF DataInv, WinTypeOK, IInv, LockTypeOK
  <2>2. CASE v # w
    <3>1. phase'[v] = phase[v] /\ win'[v] = win[v]
      BY <2>2 DEF DataInv, WinTypeOK, IInv, LockTypeOK
    <3>2. /\ phase[v] = "held" => Fits(win[v])
          /\ phase[v] # "held" => win[v].step \in {"none", "load"}
      BY DEF DataInv, MemoryFits
    <3>3. Fits(win[v]) => Fits(win[v])'
      <4>1. PICK m1 : m1 = win[v]
        OBVIOUS
      <4>2. Fits(m1) => Fits(m1)'
        BY <1>1 DEF Fits, files, Computed
      <4>. QED  BY <3>1, <4>1, <4>2 DEF Fits
    <3>. QED  BY <3>1, <3>2, <3>3
  <2>. QED  BY <2>1, <2>2
<1>. QED  BY <1>1, <1>2, <1>3 DEF DataInv

LEMMA EnterKeeps ==
    ASSUME DataInv, Careful, NEW w \in Window, NEW c \in Command, Enter(w, c)
    PROVE  DataInv'
<1>1. PICK m : m = [NoMemory EXCEPT !.cmd = c, !.step = "load"]
  OBVIOUS
<1>2. m \in Memory /\ m.step = "load"
  BY <1>1, NoMemoryIsEmpty DEF Memory, Steps
<1>3. win' = [win EXCEPT ![w] = m] /\ UNCHANGED <<files, today, registered, kept>>
  BY <1>1 DEF Enter, history
<1>4. CASE ReadLock(w)
  <2>1. IInv'
    BY <1>4, ReadLockKeeps DEF DataInv
  <2>2. phase' = [phase EXCEPT ![w] = "clear"]
    BY <1>4 DEF ReadLock
  <2>. QED  BY <1>2, <1>3, <2>1, <2>2, OutsideStep
<1>5. CASE Refuse(w)
  <2>1. IInv'
    BY <1>5, RefuseKeeps DEF DataInv
  <2>2. phase' = [phase EXCEPT ![w] = "refused"]
    BY <1>5 DEF Refuse
  <2>. QED  BY <1>2, <1>3, <2>1, <2>2, OutsideStep
<1>. QED  BY <1>4, <1>5 DEF Enter

LEMMA LockKeeps == ASSUME DataInv, NEW w \in Window, Lock(w)  PROVE DataInv'
<1>1. IInv'
  BY TakeLockKeeps DEF Lock, DataInv
<1>2. phase[w] = "clear" /\ phase' = [phase EXCEPT ![w] = "held"] /\ win' = win
      /\ UNCHANGED <<files, today, registered, kept>>
  BY DEF Lock, TakeLock, history
<1>3. FilesTypeOK' /\ FilesOK' /\ Archived' = Archived
  BY <1>2, FilesRest
<1>4. WinTypeOK'
  BY <1>2 DEF DataInv, WinTypeOK
<1>5. MemoryFits'
  <2>1. \A v \in Window : v # w => phase'[v] # "held" /\ phase[v] # "held"
    BY <1>1, <1>2 DEF DataInv, IInv, LockTypeOK, HolderIsStamped
  <2>2. win[w].step \in {"none", "load"}
    BY <1>2 DEF DataInv, MemoryFits
  <2>3. Fits(win[w])'
    BY <1>2, <2>2 DEF Fits
  <2>4. phase'[w] = "held"
    BY <1>2 DEF DataInv, IInv, LockTypeOK
  <2>. QED  BY <1>2, <2>1, <2>3, <2>4 DEF DataInv, MemoryFits
<1>. QED  BY <1>1, <1>3, <1>4, <1>5 DEF DataInv

\* Every end of a process, orderly or not.
LEMMA GoneKeeps ==
    ASSUME DataInv, NEW w \in Window,
           \/ TakeFails(w) \/ Release(w) \/ LeaveBehind(w),
           win' = [win EXCEPT ![w] = NoMemory], UNCHANGED <<files, today, registered, kept>>
    PROVE  DataInv'
<1>1. phase' = [phase EXCEPT ![w] = "out"]
  BY DEF TakeFails, Release, LeaveBehind
<1>2. IInv'
  <2>1. CASE TakeFails(w)
    BY <2>1, EndKeeps DEF TakeFails, DataInv, IInv, LockTypeOK
  <2>2. CASE Release(w)
    BY <2>2, EndKeeps DEF Release, DataInv
  <2>3. CASE LeaveBehind(w)
    BY <2>3, EndKeeps DEF LeaveBehind, DataInv, IInv, LockTypeOK
  <2>. QED  BY <2>1, <2>2, <2>3
<1>. QED  BY <1>1, <1>2, NoMemoryIsEmpty, OutsideStep

LEMMA LeaveKeeps == ASSUME DataInv, NEW w \in Window, Leave(w)  PROVE DataInv'
BY GoneKeeps DEF Leave, ReleaseFails, history

LEMMA CrashKeeps == ASSUME DataInv, NEW w \in Window, Crash(w)  PROVE DataInv'
BY GoneKeeps DEF Crash, Die, history

\* Neither the clock nor a stuttering step touches memory or files.
LEMMA QuietKeeps ==
    ASSUME DataInv, IInv', UNCHANGED <<phase, win, files, registered, kept>>, today' \in Nat
    PROVE  DataInv'
<1>1. FilesTypeOK' /\ FilesOK' /\ Archived' = Archived
  BY FilesRest
<1>2. WinTypeOK'
  BY DEF DataInv, WinTypeOK
<1>3. MemoryFits'
  <2>1. \A m : Fits(m) => Fits(m)'
    BY <1>1 DEF Fits, files, Computed
  <2>2. \A v \in Window : Fits(win[v]) => Fits(win[v])'
    BY <2>1 DEF Fits
  <2>. QED  BY <2>2 DEF DataInv, MemoryFits
<1>. QED  BY <1>1, <1>2, <1>3 DEF DataInv

LEMMA TimePassesKeeps == ASSUME DataInv, Careful, TimePasses  PROVE DataInv'
<1>1. IInv'
  BY TickKeeps DEF TimePasses, DataInv
<1>2. UNCHANGED <<phase, win, files, registered, kept>>
  BY DEF TimePasses, Tick, history
<1>3. today' \in Nat
  BY DataAssumption DEF TimePasses, Date
<1>. QED  BY <1>1, <1>2, <1>3, QuietKeeps

-----------------------------------------------------------------------------
(* The theorems *)

LEMMA InitHolds == Init => DataInv
<1>. SUFFICES ASSUME Init  PROVE DataInv
  OBVIOUS
<1>1. IInv
  BY LockAssumption DEF Init, LockInit, IInv, LockTypeOK, BusyIsYoung, HolderIsStamped,
                        ClearIsAlone, Outside, Ages, Old
<1>2. FilesTypeOK
  BY DataAssumption DEF Init, FilesTypeOK
<1>3. WinTypeOK /\ MemoryFits
  BY NoMemoryIsEmpty DEF Init, LockInit, WinTypeOK, MemoryFits
<1>4. FilesOK
  BY DEF Init, FilesOK, NoLostUpdate, NoHistoryLost, CursorOnRecord
<1>. QED  BY <1>1, <1>2, <1>3, <1>4 DEF DataInv

LEMMA NextKeeps == DataInv /\ Readable /\ [Next]_vars => DataInv'
<1>. SUFFICES ASSUME DataInv, Readable, [Next]_vars  PROVE DataInv'
  OBVIOUS
<1>1. Careful /\ ~ReadFaults
  BY DEF Readable
<1>2. ASSUME NEW w \in Window, NEW c \in Command, Enter(w, c)  PROVE DataInv'
  BY <1>1, <1>2, EnterKeeps
<1>3. ASSUME NEW w \in Window, LoadFails(w) \/ ShowStored(w)  PROVE DataInv'
  <2>1. phase[w] = "held" /\ GoTo(w, "end")
    BY <1>3 DEF LoadFails, ShowStored, EndsInError, At
  <2>2. UNCHANGED <<lockVars, today, files, registered, kept>>
    BY <1>3 DEF LoadFails, ShowStored, EndsInError, Running, history
  <2>. QED  BY <2>1, <2>2, EndKeepsData
<1>4. ASSUME NEW w \in Window, CommandStep(w)  PROVE DataInv'
  BY <1>1, <1>3, <1>4, LockKeeps, LeaveKeeps, LoadKeeps, AnswerKeeps, ComputeKeeps,
     SaveSnapshotKeeps, SaveCursorsKeeps, SaveAbsencesKeeps, CheckUrgentKeeps,
     ArchiveKeeps, RemoveNextKeeps DEF CommandStep
<1>5. ASSUME NEW w \in Window, Crash(w)  PROVE DataInv'
  BY <1>5, CrashKeeps
<1>6. CASE TimePasses
  BY <1>1, <1>6, TimePassesKeeps
<1>7. CASE UNCHANGED vars
  <2>1. UNCHANGED <<lockVars, phase, win, files, registered, kept, today>>
    BY <1>7 DEF vars, lockVars, history
  <2>2. IInv'
    BY <2>1 DEF DataInv, IInv, lockVars, LockTypeOK, BusyIsYoung, HolderIsStamped,
                ClearIsAlone, Outside
  <2>. QED  BY <2>1, <2>2, QuietKeeps DEF DataInv, WinTypeOK
<1>. QED  BY <1>2, <1>4, <1>5, <1>6, <1>7 DEF Next

\* The inductive invariant: the holder's memory agrees with the files.
THEOREM DataInductive == Readable => (Spec => []DataInv)
<1>. SUFFICES ASSUME Readable  PROVE Spec => []DataInv
  OBVIOUS
<1>1. DataInv /\ [Next]_vars => DataInv'
  BY NextKeeps
<1>. QED  BY <1>1, InitHolds, PTL DEF Spec

\* Between its steps the commands do not break the lock's promise either.
THEOREM OneAtWork == Readable => (Spec => []MutualExclusion)
<1>1. DataInv => MutualExclusion
  BY DEF DataInv, IInv, HolderIsStamped, MutualExclusion
<1>. QED  BY <1>1, DataInductive, PTL

\* No window writes absences back that it had read before another's change.
THEOREM UpdatesKept == Readable => (Spec => []NoLostUpdate)
<1>1. DataInv => NoLostUpdate
  BY DEF DataInv, FilesOK
<1>. QED  BY <1>1, DataInductive, PTL

\* What has been assigned stays in its file or in the archive, whatever save
\* fails and whenever a process dies.
THEOREM HistoryKept == Readable => (Spec => []NoHistoryLost)
<1>1. DataInv => NoHistoryLost
  BY DEF DataInv, FilesOK
<1>. QED  BY <1>1, DataInductive, PTL

\* The cursor never runs ahead of the assignments on record.
THEOREM CursorKept == Readable => (Spec => []CursorOnRecord)
<1>1. DataInv => CursorOnRecord
  BY DEF DataInv, FilesOK
<1>. QED  BY <1>1, DataInductive, PTL

\* Snapshots are written by SaveSnapshot, removed by RemoveNext, and by nobody
\* else.
LEMMA TwoWriteSnapshots ==
    ASSUME [Next]_vars, snap' # snap
    PROVE  \E w \in Window : SaveSnapshot(w) \/ RemoveNext(w)
BY DEF Next, vars, files, history, Enter, CommandStep, Lock, Leave, Crash, TimePasses,
       Load, LoadFails, EndsInError, Answer, ShowStored, Compute, SaveCursors,
       SaveAbsences, CheckUrgent, Archive

\* The day that SaveSnapshot stores, and the days RemoveNext removes.
LEMMA WrittenSnapshots ==
    ASSUME DataInv, [Next]_vars, NEW d \in Date, snap'[d] # snap[d]
    PROVE  \/ \E w \in Window :
                 /\ At(w, "saveSnapshot") /\ win[w].cmd.date = d
                 /\ win[w].cmd \in Command \cup {NoCommand}
                 /\ win[w].cmd.op \in {"view", "force"}
                 /\ win[w].cmd.op = "view" => snap[d] = NoFile
                 /\ snap'[d] = Computed(absences, cursorFile, d)
           \/ snap'[d] = NoFile /\ <<d, snap[d]>> \in Archived
<1>1. PICK w \in Window : SaveSnapshot(w) \/ RemoveNext(w)
  BY TwoWriteSnapshots
<1>2. CASE SaveSnapshot(w)
  <2>1. /\ At(w, "saveSnapshot") /\ win[w] \in Memory /\ Fits(win[w])
        /\ win[w].step = "saveSnapshot"
    BY <1>2, HolderFits DEF SaveSnapshot, At
  <2>2. /\ win[w].cmd \in Command \cup {NoCommand}
        /\ win[w].cmd.op \in {"view", "force"}
        /\ win[w].cmd.op = "view" => snap[win[w].cmd.date] = NoFile
        /\ win[w].result = Computed(absences, cursorFile, win[w].cmd.date)
    BY <2>1 DEF Fits, Memory
  <2>3. snap' = [snap EXCEPT ![win[w].cmd.date] = win[w].result]
    BY <1>2 DEF SaveSnapshot, EndsInError, files
  <2>4. snap \in [Date -> Stored \cup {NoFile}]
    BY DEF DataInv, FilesTypeOK
  <2>5. win[w].cmd.date = d /\ snap'[d] = win[w].result
    BY <2>3, <2>4
  <2>. QED  BY <2>1, <2>2, <2>5
<1>3. CASE RemoveNext(w)
  <2>1. /\ win[w] \in Memory /\ Fits(win[w]) /\ win[w].step = "remove"
    BY <1>3, HolderFits DEF RemoveNext, At
  <2>2. PICK e \in win[w].toRemove : snap' \in {snap, [snap EXCEPT ![e] = NoFile]}
    BY <1>3 DEF RemoveNext
  <2>3. snap \in [Date -> Stored \cup {NoFile}]
    BY DEF DataInv, FilesTypeOK
  <2>4. e = d /\ snap'[d] = NoFile
    BY <2>2, <2>3
  <2>. QED  BY <2>1, <2>2, <2>4 DEF Fits
<1>. QED  BY <1>1, <1>2, <1>3

\* A stored day changes only by assign --force, and goes only when archived.
THEOREM DaysAreStable == Readable => (Spec => SnapshotStable)
<1>. SUFFICES ASSUME Readable  PROVE Spec => SnapshotStable
  OBVIOUS
<1>. DEFINE Stable ==
        \A d \in Date : (snap[d] # NoFile /\ snap'[d] # snap[d]) =>
          \/ snap'[d] = NoFile /\ <<d, snap[d]>> \in Archived
          \/ \E w \in Window : /\ At(w, "saveSnapshot")
                               /\ win[w].cmd = [op |-> "force", date |-> d]
<1>1. DataInv /\ [Next]_vars => [Stable]_vars
  <2>. SUFFICES ASSUME DataInv, [Next]_vars, NEW d \in Date,
                       snap[d] # NoFile, snap'[d] # snap[d]
                PROVE  \/ snap'[d] = NoFile /\ <<d, snap[d]>> \in Archived
                       \/ \E w \in Window : /\ At(w, "saveSnapshot")
                                            /\ win[w].cmd = [op |-> "force", date |-> d]
    OBVIOUS
  <2>. QED  BY WrittenSnapshots, CommandFields
<1>. QED  BY <1>1, DataInductive, PTL DEF Spec, SnapshotStable

\* Nobody is put down for a day he is, by the file of that moment, away.
THEOREM AbsencesSeen == Readable => (Spec => SeesEveryAbsence)
<1>. SUFFICES ASSUME Readable  PROVE Spec => SeesEveryAbsence
  OBVIOUS
<1>. DEFINE Seen ==
        \A d \in Date : (snap'[d] # snap[d] /\ snap'[d] # NoFile)
          => \A a \in absences : a.worker = snap'[d].who => d \notin a.from .. a.to
<1>1. DataInv /\ [Next]_vars => [Seen]_vars
  <2>. SUFFICES ASSUME DataInv, [Next]_vars, NEW d \in Date,
                       snap'[d] # snap[d], snap'[d] # NoFile,
                       NEW a \in absences, a.worker = snap'[d].who
                PROVE  d \notin a.from .. a.to
    OBVIOUS
  <2>1. snap'[d] = Computed(absences, cursorFile, d)
    BY WrittenSnapshots
  <2>2. absences \in SUBSET Absence /\ cursorFile \in 0 .. NWorkers
    BY DEF DataInv, FilesTypeOK
  <2>. QED  BY <2>1, <2>2, ComputedFits
<1>. QED  BY <1>1, DataInductive, PTL DEF Spec, SeesEveryAbsence

=============================================================================
